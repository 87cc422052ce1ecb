------------------------- MODULE SchemaReload_proofs -------------------------
(* Proofs about SchemaReload, for any number of tasks that run any orderly   *)
(* programs.  What orderly means is how the code nests transactions, locks   *)
(* and mutexes, and what it never leaves out: each step of a program has its *)
(* rule (May), what a task holds and still owes changes with it (After), and *)
(* at its end it holds and owes nothing.  The programs of the code are so.   *)
EXTENDS SchemaReload, FiniteSetTheorems, SequenceTheorems, TLAPS

-----------------------------------------------------------------------------
(* What a task holds and owes                                                *)

\* "next": it is the next to have the lock; "schema", "access": it has read or
\* built that and not stored it yet
Things == {"slot", "next", "lock", "preset", "ics", "schema", "access"}

Debts == {"read", "icsReset", "json", "renew", "roles", "put"}

\* its open transactions and read locks, and the operations it must still do
Held == [keeps : SUBSET Things, conns : 0 .. 2, reads : Nat, owes : SUBSET Debts]

Nothing == [keeps |-> {}, conns |-> 0, reads |-> 0, owes |-> {}]

InLock == {"read", "store", "json", "metaQuery", "unlock"}
Look   == {"access", "renew"}
Ends   == {"end", "save", "grant", "disable"}

\* the operations that are allowed while a thing is kept
Within(x) ==
    CASE x = "slot"   -> Ops \ {"slot"}
      [] x = "next"   -> {"drain"}
      [] x = "lock"   -> InLock
      [] x = "preset" -> {"query", "presetUnlock"}
      [] x = "ics"    -> {"icsGet", "icsReset", "icsUnlock"}
      [] x = "schema" -> {"store"}
      [] x = "access" -> {"put"}

Takes(op) ==
    CASE op = "slot"       -> {"slot"}
      [] op = "lock"       -> {"next"}
      [] op = "drain"      -> {"lock"}
      [] op = "presetLock" -> {"preset"}
      [] op = "icsLock"    -> {"ics"}
      [] op = "read"       -> {"schema"}
      [] op = "build"      -> {"access"}
      [] OTHER             -> {}

Gives(op) ==
    CASE op = "unslot"       -> {"slot"}
      [] op = "drain"        -> {"next"}
      [] op = "unlock"       -> {"lock"}
      [] op = "presetUnlock" -> {"preset"}
      [] op = "icsUnlock"    -> {"ics"}
      [] op = "store"        -> {"schema"}
      [] op = "put"          -> {"access"}
      [] OTHER               -> {}

\* A saved schema must be read, a stored one copied and the access renewed, ...
Owes(op) ==
    CASE op \in {"save", "saveElsewhere"} -> {"read", "icsReset"}
      [] op = "store"                     -> {"json", "renew"}
      [] op = "grant"                     -> {"renew"}
      [] OTHER                            -> {}

May(h, op) ==
    /\ \A x \in h.keeps : op \in Within(x)
    /\ Gives(op) \subseteq h.keeps
    /\ op \in InLock => "lock" \in h.keeps
    /\ op \in {"icsGet", "icsReset"} => "ics" \in h.keeps
    /\ op \in {"runlock", "build", "put"} => h.reads # 0
    /\ op \in {"slot", "lock", "drain", "config"} => h.reads = 0
    /\ op \in Ends => h.conns # 0
    /\ op \in {"roles", "put"} => op \in h.owes
    /\ "roles" \in h.owes => op = "roles"
    /\ "put" \in h.owes => op \in {"roles", "rlock", "build", "put"}

After(h, op) ==
    [keeps |-> (h.keeps \ Gives(op)) \cup Takes(op),
     conns |-> IF op = "begin" THEN h.conns + 1 ELSE IF op \in Ends THEN h.conns - 1 ELSE h.conns,
     reads |-> IF op = "rlock" THEN h.reads + 1 ELSE IF op = "runlock" THEN h.reads - 1 ELSE h.reads,
     owes  |-> (h.owes \ {op}) \cup Owes(op)]

\* Steps s, each allowed, lead from h to k.
Piece(s, h, k) ==
    /\ s \in Seq(Ops)
    /\ \E a \in [1 .. Len(s) + 1 -> Held] :
         /\ a[1] = h /\ a[Len(s) + 1] = k
         /\ \A i \in 1 .. Len(s) : May(a[i], s[i]) /\ a[i + 1] = After(a[i], s[i])

\* what is left of a program is to be done by one who holds and owes h
Fits(s, h) == Piece(s, h, Nothing)

Orderly(p) == Fits(p, Nothing)

\* The hypothesis of the theorems: as ProgramsAreOrderly says, it is so in the code.
OrderlyPrograms == \A p \in Programs : Orderly(p)

\* Who holds and owes nothing has nothing to do, and the other way round.
LEMMA PieceEmpty ==
    ASSUME NEW h, NEW k
    PROVE  Piece(<<>>, h, k) <=> h = k /\ h \in Held
<1>1. <<>> \in Seq(Ops) /\ Len(<<>>) = 0
    OBVIOUS
<1>2. ASSUME Piece(<<>>, h, k) PROVE h = k /\ h \in Held
    BY <1>1, <1>2 DEF Piece
<1>3. ASSUME h = k, h \in Held PROVE Piece(<<>>, h, k)
  <2> DEFINE a == [i \in 1 .. 1 |-> h]
  <2>1. a \in [1 .. Len(<<>>) + 1 -> Held] /\ a[1] = h /\ a[Len(<<>>) + 1] = k
      BY <1>1, <1>3
  <2> HIDE DEF a
  <2>2. \A i \in 1 .. Len(<<>>) : May(a[i], <<>>[i]) /\ a[i + 1] = After(a[i], <<>>[i])
      BY <1>1
  <2>3. QED
      BY <1>1, <2>1, <2>2 DEF Piece
<1>4. QED
    BY <1>2, <1>3

\* The first step of a piece is allowed, and the others lead on from there.
LEMMA PieceTail ==
    ASSUME NEW s, NEW h, NEW k, Piece(s, h, k), s # <<>>
    PROVE  /\ s \in Seq(Ops) /\ Head(s) \in Ops /\ h \in Held
           /\ May(h, Head(s)) /\ After(h, Head(s)) \in Held
           /\ Piece(Tail(s), After(h, Head(s)), k)
<1>1. s \in Seq(Ops) /\ Head(s) \in Ops /\ Head(s) = s[1] /\ Len(s) \in Nat /\ Len(s) >= 1
    BY DEF Piece
<1>2. PICK a \in [1 .. Len(s) + 1 -> Held] :
          /\ a[1] = h /\ a[Len(s) + 1] = k
          /\ \A i \in 1 .. Len(s) : May(a[i], s[i]) /\ a[i + 1] = After(a[i], s[i])
    BY DEF Piece
<1>3. Tail(s) \in Seq(Ops) /\ Len(Tail(s)) = Len(s) - 1
      /\ \A i \in 1 .. Len(s) - 1 : Tail(s)[i] = s[i + 1]
    BY <1>1
<1>4. 1 \in 1 .. Len(s) /\ 1 \in 1 .. Len(s) + 1 /\ 2 \in 1 .. Len(s) + 1
    BY <1>1
<1>5. h \in Held /\ May(h, Head(s)) /\ After(h, Head(s)) = a[2] /\ a[2] \in Held
  <2>1. May(a[1], s[1]) /\ a[1 + 1] = After(a[1], s[1])
      BY <1>2, <1>4
  <2>2. QED
      BY <1>1, <1>2, <1>4, <2>1
<1> DEFINE b == [i \in 1 .. Len(s) |-> a[i + 1]]
<1>6. b \in [1 .. Len(Tail(s)) + 1 -> Held] /\ b[1] = After(h, Head(s)) /\ b[Len(Tail(s)) + 1] = k
    BY <1>1, <1>2, <1>3, <1>5
<1>7. ASSUME NEW i \in 1 .. Len(Tail(s))
      PROVE  May(b[i], Tail(s)[i]) /\ b[i + 1] = After(b[i], Tail(s)[i])
  <2>1. i + 1 \in 1 .. Len(s) /\ i \in 1 .. Len(s) /\ i \in 1 .. Len(s) - 1
      BY <1>1, <1>3
  <2>2. May(a[i + 1], s[i + 1]) /\ a[(i + 1) + 1] = After(a[i + 1], s[i + 1])
      BY <1>2, <2>1
  <2>3. b[i] = a[i + 1] /\ b[i + 1] = a[(i + 1) + 1] /\ Tail(s)[i] = s[i + 1]
      BY <1>3, <2>1
  <2> HIDE DEF b
  <2>4. QED
      BY <2>2, <2>3
<1> HIDE DEF b
<1>8. Piece(Tail(s), After(h, Head(s)), k)
    BY <1>3, <1>6, <1>7 DEF Piece
<1>9. QED
    BY <1>1, <1>5, <1>8

\* An allowed step before a piece gives a piece.
LEMMA PieceCons ==
    ASSUME NEW s \in Seq(Ops), s # <<>>, NEW h \in Held, NEW k,
           May(h, Head(s)), Piece(Tail(s), After(h, Head(s)), k)
    PROVE  Piece(s, h, k)
<1>1. Head(s) = s[1] /\ Len(s) \in Nat /\ Len(s) >= 1
    OBVIOUS
<1>2. Tail(s) \in Seq(Ops) /\ Len(Tail(s)) = Len(s) - 1
      /\ \A i \in 1 .. Len(s) - 1 : Tail(s)[i] = s[i + 1]
    BY <1>1
<1>3. PICK b \in [1 .. Len(Tail(s)) + 1 -> Held] :
          /\ b[1] = After(h, Head(s)) /\ b[Len(Tail(s)) + 1] = k
          /\ \A i \in 1 .. Len(Tail(s)) : May(b[i], Tail(s)[i]) /\ b[i + 1] = After(b[i], Tail(s)[i])
    BY DEF Piece
<1> DEFINE a == [i \in 1 .. Len(s) + 1 |-> IF i = 1 THEN h ELSE b[i - 1]]
<1>4. a \in [1 .. Len(s) + 1 -> Held] /\ a[1] = h /\ a[Len(s) + 1] = k
    BY <1>1, <1>2, <1>3
<1>5. ASSUME NEW i \in 1 .. Len(s)
      PROVE  May(a[i], s[i]) /\ a[i + 1] = After(a[i], s[i])
  <2>1. CASE i = 1
    <3>1. a[i] = h /\ a[i + 1] = b[1] /\ s[i] = Head(s)
        BY <1>1, <2>1
    <3> HIDE DEF a
    <3>2. QED
        BY <1>3, <3>1
  <2>2. CASE i # 1
    <3>1. i - 1 \in 1 .. Len(Tail(s)) /\ i - 1 \in 1 .. Len(s) - 1 /\ (i - 1) + 1 = i
        BY <1>1, <1>2, <2>2
    <3>2. May(b[i - 1], Tail(s)[i - 1]) /\ b[(i - 1) + 1] = After(b[i - 1], Tail(s)[i - 1])
        BY <1>3, <3>1
    <3>3. a[i] = b[i - 1] /\ a[i + 1] = b[(i - 1) + 1] /\ Tail(s)[i - 1] = s[i]
        BY <1>1, <1>2, <2>2, <3>1
    <3> HIDE DEF a
    <3>4. QED
        BY <3>2, <3>3
  <2>3. QED
      BY <2>1, <2>2
<1> HIDE DEF a
<1>6. QED
    BY <1>4, <1>5 DEF Piece

\* Pieces join.
LEMMA PieceJoin ==
    ASSUME NEW s, NEW r, NEW h, NEW k, NEW l, Piece(s, h, k), Piece(r, k, l)
    PROVE  Piece(s \o r, h, l)
<1>1. s \in Seq(Ops) /\ r \in Seq(Ops) /\ s \o r \in Seq(Ops)
      /\ Len(s) \in Nat /\ Len(r) \in Nat /\ Len(s \o r) = Len(s) + Len(r)
    BY DEF Piece
<1>2. PICK a \in [1 .. Len(s) + 1 -> Held] :
          /\ a[1] = h /\ a[Len(s) + 1] = k
          /\ \A i \in 1 .. Len(s) : May(a[i], s[i]) /\ a[i + 1] = After(a[i], s[i])
    BY DEF Piece
<1>3. PICK b \in [1 .. Len(r) + 1 -> Held] :
          /\ b[1] = k /\ b[Len(r) + 1] = l
          /\ \A i \in 1 .. Len(r) : May(b[i], r[i]) /\ b[i + 1] = After(b[i], r[i])
    BY DEF Piece
<1> DEFINE c == [i \in 1 .. Len(s \o r) + 1 |-> IF i <= Len(s) THEN a[i] ELSE b[i - Len(s)]]
<1>4. c \in [1 .. Len(s \o r) + 1 -> Held] /\ c[Len(s \o r) + 1] = l
    BY <1>1, <1>2, <1>3
<1>5. c[1] = h
    BY <1>1, <1>2, <1>3
<1>6. ASSUME NEW i \in 1 .. Len(s \o r)
      PROVE  May(c[i], (s \o r)[i]) /\ c[i + 1] = After(c[i], (s \o r)[i])
  <2>1. CASE i <= Len(s)
    <3>1. i \in 1 .. Len(s) /\ (s \o r)[i] = s[i]
        BY <1>1, <2>1
    <3>2. c[i] = a[i] /\ c[i + 1] = a[i + 1]
      <4>1. CASE i = Len(s)
          BY <1>1, <1>2, <1>3, <4>1
      <4>2. CASE i # Len(s)
          BY <1>1, <2>1, <4>2
      <4>3. QED
          BY <4>1, <4>2
    <3>3. May(a[i], s[i]) /\ a[i + 1] = After(a[i], s[i])
        BY <1>2, <3>1
    <3> HIDE DEF c
    <3>4. QED
        BY <3>1, <3>2, <3>3
  <2>2. CASE ~(i <= Len(s))
    <3> DEFINE j == i - Len(s)
    <3>1. j \in 1 .. Len(r) /\ (s \o r)[i] = r[j]
        BY <1>1, <2>2
    <3>2. c[i] = b[j] /\ c[i + 1] = b[j + 1]
        BY <1>1, <2>2
    <3> HIDE DEF c, j
    <3>3. May(b[j], r[j]) /\ b[j + 1] = After(b[j], r[j])
        BY <1>3, <3>1
    <3>4. QED
        BY <3>1, <3>2, <3>3
  <2>3. QED
      BY <2>1, <2>2
<1> HIDE DEF c
<1>7. QED
    BY <1>1, <1>4, <1>5, <1>6 DEF Piece

-----------------------------------------------------------------------------
(* The programs of the code are orderly                                      *)

Leads(h, op, k) == op \in Ops /\ h \in Held /\ k \in Held /\ May(h, op) /\ k = After(h, op)

\* Short programs, step by step.
LEMMA One ==
    ASSUME NEW a, NEW h0, NEW h1, Leads(h0, a, h1)
    PROVE  Piece(<<a>>, h0, h1)
<1> DEFINE s == <<a>>
<1>1. s \in Seq(Ops) /\ s # <<>> /\ Head(s) = a /\ Tail(s) = <<>>
    BY DEF Leads
<1>2. h0 \in Held /\ h1 \in Held /\ May(h0, a) /\ After(h0, a) = h1
    BY DEF Leads
<1>3. Piece(<<>>, h1, h1)
    BY <1>2, PieceEmpty
<1> HIDE DEF s
<1>4. Piece(s, h0, h1)
    BY <1>1, <1>2, <1>3, PieceCons
<1>5. QED
    BY <1>4 DEF s

LEMMA Two ==
    ASSUME NEW a, NEW b,
           NEW h0, NEW h1, NEW h2,
           Leads(h0, a, h1), Leads(h1, b, h2)
    PROVE  Piece(<<a, b>>, h0, h2)
<1> DEFINE s == <<a, b>>
<1>1. s \in Seq(Ops) /\ s # <<>> /\ Head(s) = a /\ Tail(s) = <<b>>
    BY DEF Leads
<1>2. h0 \in Held /\ May(h0, a) /\ After(h0, a) = h1
    BY DEF Leads
<1>3. Piece(<<b>>, h1, h2)
    BY One
<1> HIDE DEF s
<1>4. Piece(s, h0, h2)
    BY <1>1, <1>2, <1>3, PieceCons
<1>5. QED
    BY <1>4 DEF s

LEMMA Three ==
    ASSUME NEW a, NEW b, NEW c,
           NEW h0, NEW h1, NEW h2, NEW h3,
           Leads(h0, a, h1), Leads(h1, b, h2), Leads(h2, c, h3)
    PROVE  Piece(<<a, b, c>>, h0, h3)
<1> DEFINE s == <<a, b, c>>
<1>1. s \in Seq(Ops) /\ s # <<>> /\ Head(s) = a /\ Tail(s) = <<b, c>>
    BY DEF Leads
<1>2. h0 \in Held /\ May(h0, a) /\ After(h0, a) = h1
    BY DEF Leads
<1>3. Piece(<<b, c>>, h1, h3)
    BY Two
<1> HIDE DEF s
<1>4. Piece(s, h0, h3)
    BY <1>1, <1>2, <1>3, PieceCons
<1>5. QED
    BY <1>4 DEF s

LEMMA Four ==
    ASSUME NEW a, NEW b, NEW c, NEW d,
           NEW h0, NEW h1, NEW h2, NEW h3, NEW h4,
           Leads(h0, a, h1), Leads(h1, b, h2), Leads(h2, c, h3), Leads(h3, d, h4)
    PROVE  Piece(<<a, b, c, d>>, h0, h4)
<1> DEFINE s == <<a, b, c, d>>
<1>1. s \in Seq(Ops) /\ s # <<>> /\ Head(s) = a /\ Tail(s) = <<b, c, d>>
    BY DEF Leads
<1>2. h0 \in Held /\ May(h0, a) /\ After(h0, a) = h1
    BY DEF Leads
<1>3. Piece(<<b, c, d>>, h1, h4)
    BY Three
<1> HIDE DEF s
<1>4. Piece(s, h0, h4)
    BY <1>1, <1>2, <1>3, PieceCons
<1>5. QED
    BY <1>4 DEF s

LEMMA Five ==
    ASSUME NEW a, NEW b, NEW c, NEW d, NEW e,
           NEW h0, NEW h1, NEW h2, NEW h3, NEW h4, NEW h5,
           Leads(h0, a, h1), Leads(h1, b, h2), Leads(h2, c, h3), Leads(h3, d, h4), Leads(h4, e, h5)
    PROVE  Piece(<<a, b, c, d, e>>, h0, h5)
<1> DEFINE s == <<a, b, c, d, e>>
<1>1. s \in Seq(Ops) /\ s # <<>> /\ Head(s) = a /\ Tail(s) = <<b, c, d, e>>
    BY DEF Leads
<1>2. h0 \in Held /\ May(h0, a) /\ After(h0, a) = h1
    BY DEF Leads
<1>3. Piece(<<b, c, d, e>>, h1, h5)
    BY Four
<1> HIDE DEF s
<1>4. Piece(s, h0, h5)
    BY <1>1, <1>2, <1>3, PieceCons
<1>5. QED
    BY <1>4 DEF s

LEMMA Six ==
    ASSUME NEW a, NEW b, NEW c, NEW d, NEW e, NEW f,
           NEW h0, NEW h1, NEW h2, NEW h3, NEW h4, NEW h5, NEW h6,
           Leads(h0, a, h1), Leads(h1, b, h2), Leads(h2, c, h3), Leads(h3, d, h4), Leads(h4, e, h5), Leads(h5, f, h6)
    PROVE  Piece(<<a, b, c, d, e, f>>, h0, h6)
<1> DEFINE s == <<a, b, c, d, e, f>>
<1>1. s \in Seq(Ops) /\ s # <<>> /\ Head(s) = a /\ Tail(s) = <<b, c, d, e, f>>
    BY DEF Leads
<1>2. h0 \in Held /\ May(h0, a) /\ After(h0, a) = h1
    BY DEF Leads
<1>3. Piece(<<b, c, d, e, f>>, h1, h6)
    BY Five
<1> HIDE DEF s
<1>4. Piece(s, h0, h6)
    BY <1>1, <1>2, <1>3, PieceCons
<1>5. QED
    BY <1>4 DEF s

LEMMA Seven ==
    ASSUME NEW a, NEW b, NEW c, NEW d, NEW e, NEW f, NEW g,
           NEW h0, NEW h1, NEW h2, NEW h3, NEW h4, NEW h5, NEW h6, NEW h7,
           Leads(h0, a, h1), Leads(h1, b, h2), Leads(h2, c, h3), Leads(h3, d, h4), Leads(h4, e, h5), Leads(h5, f, h6), Leads(h6, g, h7)
    PROVE  Piece(<<a, b, c, d, e, f, g>>, h0, h7)
<1> DEFINE s == <<a, b, c, d, e, f, g>>
<1>1. s \in Seq(Ops) /\ s # <<>> /\ Head(s) = a /\ Tail(s) = <<b, c, d, e, f, g>>
    BY DEF Leads
<1>2. h0 \in Held /\ May(h0, a) /\ After(h0, a) = h1
    BY DEF Leads
<1>3. Piece(<<b, c, d, e, f, g>>, h1, h7)
    BY Six
<1> HIDE DEF s
<1>4. Piece(s, h0, h7)
    BY <1>1, <1>2, <1>3, PieceCons
<1>5. QED
    BY <1>4 DEF s

H(keeps, conn, reading, owes) == [keeps |-> keeps, conns |-> conn, reads |-> reading, owes |-> owes]
LEMMA RUnlockLeads ==
    ASSUME NEW k \in SUBSET {"slot"}, NEW c \in 0 .. 2, NEW r \in Nat
    PROVE  Leads(H(k, c, r + 1, {}), "runlock", H(k, c, r, {}))
<1>1. H(k, c, r + 1, {}) \in Held /\ H(k, c, r, {}) \in Held
    BY DEF H, Held, Things, Debts
<1>2. May(H(k, c, r + 1, {}), "runlock")
    BY DEF H, May, Within, Gives, Ops, InLock, Ends
<1>3. Takes("runlock") = {} /\ Gives("runlock") = {} /\ Owes("runlock") = {} /\ (r + 1) - 1 = r
    BY DEF Takes, Gives, Owes
<1>4. After(H(k, c, r + 1, {}), "runlock") = H(k, c, r, {})
    BY <1>3 DEF H, After, Ends
<1>5. QED
    BY <1>1, <1>2, <1>4 DEF Leads, Ops

(* The parts that programs are made of. *)

LEMMA GetPiece ==
    ASSUME NEW k \in SUBSET {"slot"}, NEW c \in 0 .. 2, NEW r \in Nat
    PROVE  Piece(<<"rlock", "access", "runlock">>, H(k, c, r, {}),
                 H(k, c, r, {}))
<1> DEFINE g0 == H(k, c, r, {})
<1> DEFINE g1 == H(k, c, r + 1, {})
<1> DEFINE g2 == H(k, c, r + 1, {})
<1> DEFINE g3 == H(k, c, r, {})
<1>1. Leads(g0, "rlock", g1)
    BY DEF Leads, H, Held, May, After, Within, Takes, Gives, Owes, Ops, Things, Debts, InLock, Ends
<1>2. Leads(g1, "access", g2)
    BY DEF Leads, H, Held, May, After, Within, Takes, Gives, Owes, Ops, Things, Debts, InLock, Ends
<1>3. Leads(g2, "runlock", g3)
    BY RUnlockLeads
<1> HIDE DEF g0, g1, g2, g3
<1>4. Piece(<<"rlock", "access", "runlock">>, g0, g3)
    BY <1>1, <1>2, <1>3, Three
<1>5. QED
    BY <1>4 DEF g0, g3

LEMMA AccessPiece ==
    ASSUME NEW k \in SUBSET {"slot"}, NEW c \in 0 .. 1, NEW r \in Nat
    PROVE  Piece(<<"access">>, H(k, c, r, {}),
                 H(k, c, r, {}))
<1> DEFINE g0 == H(k, c, r, {})
<1> DEFINE g1 == H(k, c, r, {})
<1>1. Leads(g0, "access", g1)
    BY DEF Leads, H, Held, May, After, Within, Takes, Gives, Owes, Ops, Things, Debts, InLock, Ends
<1> HIDE DEF g0, g1
<1>2. Piece(<<"access">>, g0, g1)
    BY <1>1, One
<1>3. QED
    BY <1>2 DEF g0, g1

LEMMA SetPiece ==
    ASSUME NEW k \in SUBSET {"slot"}, NEW c \in 0 .. 1, NEW r \in Nat
    PROVE  Piece(<<"rlock", "access", "preset", "runlock">>, H(k, c, r, {}),
                 H(k, c, r, {}))
<1> DEFINE g0 == H(k, c, r, {})
<1> DEFINE g1 == H(k, c, r + 1, {})
<1> DEFINE g2 == H(k, c, r + 1, {})
<1> DEFINE g3 == H(k, c, r + 1, {})
<1> DEFINE g4 == H(k, c, r, {})
<1>1. Leads(g0, "rlock", g1)
    BY DEF Leads, H, Held, May, After, Within, Takes, Gives, Owes, Ops, Things, Debts, InLock, Ends
<1>2. Leads(g1, "access", g2)
    BY DEF Leads, H, Held, May, After, Within, Takes, Gives, Owes, Ops, Things, Debts, InLock, Ends
<1>3. Leads(g2, "preset", g3)
    BY DEF Leads, H, Held, May, After, Within, Takes, Gives, Owes, Ops, Things, Debts, InLock, Ends
<1>4. Leads(g3, "runlock", g4)
    BY RUnlockLeads
<1> HIDE DEF g0, g1, g2, g3, g4
<1>5. Piece(<<"rlock", "access", "preset", "runlock">>, g0, g4)
    BY <1>1, <1>2, <1>3, <1>4, Four
<1>6. QED
    BY <1>5 DEF g0, g4

LEMMA SetLoggedStart ==
    ASSUME NEW k \in SUBSET {"slot"}, NEW c \in 0 .. 1, NEW r \in Nat
    PROVE  Piece(<<"rlock", "access", "preset">>, H(k, c, r, {}),
                 H(k, c, r + 1, {}))
<1> DEFINE g0 == H(k, c, r, {})
<1> DEFINE g1 == H(k, c, r + 1, {})
<1> DEFINE g2 == H(k, c, r + 1, {})
<1> DEFINE g3 == H(k, c, r + 1, {})
<1>1. Leads(g0, "rlock", g1)
    BY DEF Leads, H, Held, May, After, Within, Takes, Gives, Owes, Ops, Things, Debts, InLock, Ends
<1>2. Leads(g1, "access", g2)
    BY DEF Leads, H, Held, May, After, Within, Takes, Gives, Owes, Ops, Things, Debts, InLock, Ends
<1>3. Leads(g2, "preset", g3)
    BY DEF Leads, H, Held, May, After, Within, Takes, Gives, Owes, Ops, Things, Debts, InLock, Ends
<1> HIDE DEF g0, g1, g2, g3
<1>4. Piece(<<"rlock", "access", "preset">>, g0, g3)
    BY <1>1, <1>2, <1>3, Three
<1>5. QED
    BY <1>4 DEF g0, g3

LEMMA BackgroundPiece ==
    ASSUME NEW k \in SUBSET {"slot"}, NEW c \in 0 .. 1, NEW r \in Nat
    PROVE  Piece(<<"rlock", "query", "runlock">>, H(k, c, r, {}),
                 H(k, c, r, {}))
<1> DEFINE g0 == H(k, c, r, {})
<1> DEFINE g1 == H(k, c, r + 1, {})
<1> DEFINE g2 == H(k, c, r + 1, {})
<1> DEFINE g3 == H(k, c, r, {})
<1>1. Leads(g0, "rlock", g1)
    BY DEF Leads, H, Held, May, After, Within, Takes, Gives, Owes, Ops, Things, Debts, InLock, Ends
<1>2. Leads(g1, "query", g2)
    BY DEF Leads, H, Held, May, After, Within, Takes, Gives, Owes, Ops, Things, Debts, InLock, Ends
<1>3. Leads(g2, "runlock", g3)
    BY RUnlockLeads
<1> HIDE DEF g0, g1, g2, g3
<1>4. Piece(<<"rlock", "query", "runlock">>, g0, g3)
    BY <1>1, <1>2, <1>3, Three
<1>5. QED
    BY <1>4 DEF g0, g3

LEMMA RUnlockPiece ==
    ASSUME NEW k \in SUBSET {"slot"}, NEW c \in 0 .. 1, NEW r \in Nat
    PROVE  Piece(<<"runlock">>, H(k, c, r + 1, {}),
                 H(k, c, r, {}))
<1> DEFINE g0 == H(k, c, r + 1, {})
<1> DEFINE g1 == H(k, c, r, {})
<1>1. Leads(g0, "runlock", g1)
    BY RUnlockLeads
<1> HIDE DEF g0, g1
<1>2. Piece(<<"runlock">>, g0, g1)
    BY <1>1, One
<1>3. QED
    BY <1>2 DEF g0, g1

LEMMA ApiStart ==
    Piece(<<"rlock", "access", "query", "begin">>, H({}, 0, 0, {}),
                 H({}, 1, 1, {}))
<1> DEFINE g0 == H({}, 0, 0, {})
<1> DEFINE g1 == H({}, 0, 1, {})
<1> DEFINE g2 == H({}, 0, 1, {})
<1> DEFINE g3 == H({}, 0, 1, {})
<1> DEFINE g4 == H({}, 1, 1, {})
<1>1. Leads(g0, "rlock", g1)
    BY DEF Leads, H, Held, May, After, Within, Takes, Gives, Owes, Ops, Things, Debts, InLock, Ends
<1>2. Leads(g1, "access", g2)
    BY DEF Leads, H, Held, May, After, Within, Takes, Gives, Owes, Ops, Things, Debts, InLock, Ends
<1>3. Leads(g2, "query", g3)
    BY DEF Leads, H, Held, May, After, Within, Takes, Gives, Owes, Ops, Things, Debts, InLock, Ends
<1>4. Leads(g3, "begin", g4)
    BY DEF Leads, H, Held, May, After, Within, Takes, Gives, Owes, Ops, Things, Debts, InLock, Ends
<1> HIDE DEF g0, g1, g2, g3, g4
<1>5. Piece(<<"rlock", "access", "query", "begin">>, g0, g4)
    BY <1>1, <1>2, <1>3, <1>4, Four
<1>6. QED
    BY <1>5 DEF g0, g4

LEMMA ApiEnd ==
    Piece(<<"end", "runlock">>, H({}, 1, 1, {}),
                 H({}, 0, 0, {}))
<1> DEFINE g0 == H({}, 1, 1, {})
<1> DEFINE g1 == H({}, 0, 1, {})
<1> DEFINE g2 == H({}, 0, 0, {})
<1>1. Leads(g0, "end", g1)
    BY DEF Leads, H, Held, May, After, Within, Takes, Gives, Owes, Ops, Things, Debts, InLock, Ends
<1>2. Leads(g1, "runlock", g2)
    BY RUnlockLeads
<1> HIDE DEF g0, g1, g2
<1>3. Piece(<<"end", "runlock">>, g0, g2)
    BY <1>1, <1>2, Two
<1>4. QED
    BY <1>3 DEF g0, g2

LEMMA IcsStart ==
    Piece(<<"rlock", "query", "icsLock", "icsGet", "icsUnlock", "begin">>, H({}, 0, 0, {}),
                 H({}, 1, 1, {}))
<1> DEFINE g0 == H({}, 0, 0, {})
<1> DEFINE g1 == H({}, 0, 1, {})
<1> DEFINE g2 == H({}, 0, 1, {})
<1> DEFINE g3 == H({"ics"}, 0, 1, {})
<1> DEFINE g4 == H({"ics"}, 0, 1, {})
<1> DEFINE g5 == H({}, 0, 1, {})
<1> DEFINE g6 == H({}, 1, 1, {})
<1>1. Leads(g0, "rlock", g1)
    BY DEF Leads, H, Held, May, After, Within, Takes, Gives, Owes, Ops, Things, Debts, InLock, Ends
<1>2. Leads(g1, "query", g2)
    BY DEF Leads, H, Held, May, After, Within, Takes, Gives, Owes, Ops, Things, Debts, InLock, Ends
<1>3. Leads(g2, "icsLock", g3)
    BY DEF Leads, H, Held, May, After, Within, Takes, Gives, Owes, Ops, Things, Debts, InLock, Ends
<1>4. Leads(g3, "icsGet", g4)
    BY DEF Leads, H, Held, May, After, Within, Takes, Gives, Owes, Ops, Things, Debts, InLock, Ends
<1>5. Leads(g4, "icsUnlock", g5)
    BY DEF Leads, H, Held, May, After, Within, Takes, Gives, Owes, Ops, Things, Debts, InLock, Ends
<1>6. Leads(g5, "begin", g6)
    BY DEF Leads, H, Held, May, After, Within, Takes, Gives, Owes, Ops, Things, Debts, InLock, Ends
<1> HIDE DEF g0, g1, g2, g3, g4, g5, g6
<1>7. Piece(<<"rlock", "query", "icsLock", "icsGet", "icsUnlock", "begin">>, g0, g6)
    BY <1>1, <1>2, <1>3, <1>4, <1>5, <1>6, Six
<1>8. QED
    BY <1>7 DEF g0, g6

LEMMA IcsEnd ==
    Piece(<<"end", "query", "runlock">>, H({}, 1, 1, {}),
                 H({}, 0, 0, {}))
<1> DEFINE g0 == H({}, 1, 1, {})
<1> DEFINE g1 == H({}, 0, 1, {})
<1> DEFINE g2 == H({}, 0, 1, {})
<1> DEFINE g3 == H({}, 0, 0, {})
<1>1. Leads(g0, "end", g1)
    BY DEF Leads, H, Held, May, After, Within, Takes, Gives, Owes, Ops, Things, Debts, InLock, Ends
<1>2. Leads(g1, "query", g2)
    BY DEF Leads, H, Held, May, After, Within, Takes, Gives, Owes, Ops, Things, Debts, InLock, Ends
<1>3. Leads(g2, "runlock", g3)
    BY RUnlockLeads
<1> HIDE DEF g0, g1, g2, g3
<1>4. Piece(<<"end", "query", "runlock">>, g0, g3)
    BY <1>1, <1>2, <1>3, Three
<1>5. QED
    BY <1>4 DEF g0, g3

LEMMA ImportPiece ==
    Piece(<<"begin", "grant", "query", "renew">>, H({"slot"}, 1, 0, {}),
                 H({"slot"}, 1, 0, {}))
<1> DEFINE g0 == H({"slot"}, 1, 0, {})
<1> DEFINE g1 == H({"slot"}, 2, 0, {})
<1> DEFINE g2 == H({"slot"}, 1, 0, {"renew"})
<1> DEFINE g3 == H({"slot"}, 1, 0, {"renew"})
<1> DEFINE g4 == H({"slot"}, 1, 0, {})
<1>1. Leads(g0, "begin", g1)
    BY DEF Leads, H, Held, May, After, Within, Takes, Gives, Owes, Ops, Things, Debts, InLock, Ends
<1>2. Leads(g1, "grant", g2)
    BY DEF Leads, H, Held, May, After, Within, Takes, Gives, Owes, Ops, Things, Debts, InLock, Ends
<1>3. Leads(g2, "query", g3)
    BY DEF Leads, H, Held, May, After, Within, Takes, Gives, Owes, Ops, Things, Debts, InLock, Ends
<1>4. Leads(g3, "renew", g4)
    BY DEF Leads, H, Held, May, After, Within, Takes, Gives, Owes, Ops, Things, Debts, InLock, Ends
<1> HIDE DEF g0, g1, g2, g3, g4
<1>5. Piece(<<"begin", "grant", "query", "renew">>, g0, g4)
    BY <1>1, <1>2, <1>3, <1>4, Four
<1>6. QED
    BY <1>5 DEF g0, g4

LEMMA InactivePiece ==
    Piece(<<"begin", "disable", "query">>, H({"slot"}, 1, 0, {}),
                 H({"slot"}, 1, 0, {}))
<1> DEFINE g0 == H({"slot"}, 1, 0, {})
<1> DEFINE g1 == H({"slot"}, 2, 0, {})
<1> DEFINE g2 == H({"slot"}, 1, 0, {})
<1> DEFINE g3 == H({"slot"}, 1, 0, {})
<1>1. Leads(g0, "begin", g1)
    BY DEF Leads, H, Held, May, After, Within, Takes, Gives, Owes, Ops, Things, Debts, InLock, Ends
<1>2. Leads(g1, "disable", g2)
    BY DEF Leads, H, Held, May, After, Within, Takes, Gives, Owes, Ops, Things, Debts, InLock, Ends
<1>3. Leads(g2, "query", g3)
    BY DEF Leads, H, Held, May, After, Within, Takes, Gives, Owes, Ops, Things, Debts, InLock, Ends
<1> HIDE DEF g0, g1, g2, g3
<1>4. Piece(<<"begin", "disable", "query">>, g0, g3)
    BY <1>1, <1>2, <1>3, Three
<1>5. QED
    BY <1>4 DEF g0, g3

LEMMA RequestStart ==
    Piece(<<"slot", "begin", "config">>, H({}, 0, 0, {}),
                 H({"slot"}, 1, 0, {}))
<1> DEFINE g0 == H({}, 0, 0, {})
<1> DEFINE g1 == H({"slot"}, 0, 0, {})
<1> DEFINE g2 == H({"slot"}, 1, 0, {})
<1> DEFINE g3 == H({"slot"}, 1, 0, {})
<1>1. Leads(g0, "slot", g1)
    BY DEF Leads, H, Held, May, After, Within, Takes, Gives, Owes, Ops, Things, Debts, InLock, Ends
<1>2. Leads(g1, "begin", g2)
    BY DEF Leads, H, Held, May, After, Within, Takes, Gives, Owes, Ops, Things, Debts, InLock, Ends
<1>3. Leads(g2, "config", g3)
    BY DEF Leads, H, Held, May, After, Within, Takes, Gives, Owes, Ops, Things, Debts, InLock, Ends
<1> HIDE DEF g0, g1, g2, g3
<1>4. Piece(<<"slot", "begin", "config">>, g0, g3)
    BY <1>1, <1>2, <1>3, Three
<1>5. QED
    BY <1>4 DEF g0, g3

LEMMA RequestStartOwing ==
    Piece(<<"slot", "begin", "config">>, H({}, 0, 0, {"icsReset", "read"}),
                 H({"slot"}, 1, 0, {"icsReset", "read"}))
<1> DEFINE g0 == H({}, 0, 0, {"icsReset", "read"})
<1> DEFINE g1 == H({"slot"}, 0, 0, {"icsReset", "read"})
<1> DEFINE g2 == H({"slot"}, 1, 0, {"icsReset", "read"})
<1> DEFINE g3 == H({"slot"}, 1, 0, {"icsReset", "read"})
<1>1. Leads(g0, "slot", g1)
    BY DEF Leads, H, Held, May, After, Within, Takes, Gives, Owes, Ops, Things, Debts, InLock, Ends
<1>2. Leads(g1, "begin", g2)
    BY DEF Leads, H, Held, May, After, Within, Takes, Gives, Owes, Ops, Things, Debts, InLock, Ends
<1>3. Leads(g2, "config", g3)
    BY DEF Leads, H, Held, May, After, Within, Takes, Gives, Owes, Ops, Things, Debts, InLock, Ends
<1> HIDE DEF g0, g1, g2, g3
<1>4. Piece(<<"slot", "begin", "config">>, g0, g3)
    BY <1>1, <1>2, <1>3, Three
<1>5. QED
    BY <1>4 DEF g0, g3

LEMMA RequestEnd ==
    Piece(<<"end", "unslot">>, H({"slot"}, 1, 0, {}),
                 H({}, 0, 0, {}))
<1> DEFINE g0 == H({"slot"}, 1, 0, {})
<1> DEFINE g1 == H({"slot"}, 0, 0, {})
<1> DEFINE g2 == H({}, 0, 0, {})
<1>1. Leads(g0, "end", g1)
    BY DEF Leads, H, Held, May, After, Within, Takes, Gives, Owes, Ops, Things, Debts, InLock, Ends
<1>2. Leads(g1, "unslot", g2)
    BY DEF Leads, H, Held, May, After, Within, Takes, Gives, Owes, Ops, Things, Debts, InLock, Ends
<1> HIDE DEF g0, g1, g2
<1>3. Piece(<<"end", "unslot">>, g0, g2)
    BY <1>1, <1>2, Two
<1>4. QED
    BY <1>3 DEF g0, g2

LEMMA SaveStart ==
    Piece(<<"slot", "begin", "config", "save", "unslot">>, H({}, 0, 0, {}),
                 H({}, 0, 0, {"icsReset", "read"}))
<1> DEFINE g0 == H({}, 0, 0, {})
<1> DEFINE g1 == H({"slot"}, 0, 0, {})
<1> DEFINE g2 == H({"slot"}, 1, 0, {})
<1> DEFINE g3 == H({"slot"}, 1, 0, {})
<1> DEFINE g4 == H({"slot"}, 0, 0, {"icsReset", "read"})
<1> DEFINE g5 == H({}, 0, 0, {"icsReset", "read"})
<1>1. Leads(g0, "slot", g1)
    BY DEF Leads, H, Held, May, After, Within, Takes, Gives, Owes, Ops, Things, Debts, InLock, Ends
<1>2. Leads(g1, "begin", g2)
    BY DEF Leads, H, Held, May, After, Within, Takes, Gives, Owes, Ops, Things, Debts, InLock, Ends
<1>3. Leads(g2, "config", g3)
    BY DEF Leads, H, Held, May, After, Within, Takes, Gives, Owes, Ops, Things, Debts, InLock, Ends
<1>4. Leads(g3, "save", g4)
    BY DEF Leads, H, Held, May, After, Within, Takes, Gives, Owes, Ops, Things, Debts, InLock, Ends
<1>5. Leads(g4, "unslot", g5)
    BY DEF Leads, H, Held, May, After, Within, Takes, Gives, Owes, Ops, Things, Debts, InLock, Ends
<1> HIDE DEF g0, g1, g2, g3, g4, g5
<1>6. Piece(<<"slot", "begin", "config", "save", "unslot">>, g0, g5)
    BY <1>1, <1>2, <1>3, <1>4, <1>5, Five
<1>7. QED
    BY <1>6 DEF g0, g5

LEMMA SaveElsewhereStart ==
    Piece(<<"saveElsewhere">>, H({}, 0, 0, {}),
                 H({}, 0, 0, {"icsReset", "read"}))
<1> DEFINE g0 == H({}, 0, 0, {})
<1> DEFINE g1 == H({}, 0, 0, {"icsReset", "read"})
<1>1. Leads(g0, "saveElsewhere", g1)
    BY DEF Leads, H, Held, May, After, Within, Takes, Gives, Owes, Ops, Things, Debts, InLock, Ends
<1> HIDE DEF g0, g1
<1>2. Piece(<<"saveElsewhere">>, g0, g1)
    BY <1>1, One
<1>3. QED
    BY <1>2 DEF g0, g1

LEMMA QueryPiece ==
    ASSUME NEW k \in SUBSET {"slot"}, NEW c \in 0 .. 1
    PROVE  Piece(<<"query">>, H(k, c, 0, {"icsReset", "read"}),
                 H(k, c, 0, {"icsReset", "read"}))
<1> DEFINE g0 == H(k, c, 0, {"icsReset", "read"})
<1> DEFINE g1 == H(k, c, 0, {"icsReset", "read"})
<1>1. Leads(g0, "query", g1)
    BY DEF Leads, H, Held, May, After, Within, Takes, Gives, Owes, Ops, Things, Debts, InLock, Ends
<1> HIDE DEF g0, g1
<1>2. Piece(<<"query">>, g0, g1)
    BY <1>1, One
<1>3. QED
    BY <1>2 DEF g0, g1

LEMMA UpdateStore ==
    ASSUME NEW k \in SUBSET {"slot"}, NEW c \in 0 .. 1
    PROVE  Piece(<<"lock", "drain", "read", "store", "unlock">>, H(k, c, 0, {"icsReset", "read"}),
                 H(k, c, 0, {"icsReset", "json", "renew"}))
<1> DEFINE g0 == H(k, c, 0, {"icsReset", "read"})
<1> DEFINE g1 == H(k \cup {"next"}, c, 0, {"icsReset", "read"})
<1> DEFINE g2 == H(k \cup {"lock"}, c, 0, {"icsReset", "read"})
<1> DEFINE g3 == H(k \cup {"lock", "schema"}, c, 0, {"icsReset"})
<1> DEFINE g4 == H(k \cup {"lock"}, c, 0, {"icsReset", "json", "renew"})
<1> DEFINE g5 == H(k, c, 0, {"icsReset", "json", "renew"})
<1>1. Leads(g0, "lock", g1)
    BY DEF Leads, H, Held, May, After, Within, Takes, Gives, Owes, Ops, Things, Debts, InLock, Ends
<1>2. Leads(g1, "drain", g2)
    BY DEF Leads, H, Held, May, After, Within, Takes, Gives, Owes, Ops, Things, Debts, InLock, Ends
<1>3. Leads(g2, "read", g3)
    BY DEF Leads, H, Held, May, After, Within, Takes, Gives, Owes, Ops, Things, Debts, InLock, Ends
<1>4. Leads(g3, "store", g4)
    BY DEF Leads, H, Held, May, After, Within, Takes, Gives, Owes, Ops, Things, Debts, InLock, Ends
<1>5. Leads(g4, "unlock", g5)
    BY DEF Leads, H, Held, May, After, Within, Takes, Gives, Owes, Ops, Things, Debts, InLock, Ends
<1> HIDE DEF g0, g1, g2, g3, g4, g5
<1>6. Piece(<<"lock", "drain", "read", "store", "unlock">>, g0, g5)
    BY <1>1, <1>2, <1>3, <1>4, <1>5, Five
<1>7. QED
    BY <1>6 DEF g0, g5

LEMMA UpdateCaches ==
    ASSUME NEW k \in SUBSET {"slot"}, NEW c \in 0 .. 1
    PROVE  Piece(<<"icsLock", "icsReset", "icsUnlock", "presetLock", "query", "presetUnlock">>, H(k, c, 0, {"icsReset", "json", "renew"}),
                 H(k, c, 0, {"json", "renew"}))
<1> DEFINE g0 == H(k, c, 0, {"icsReset", "json", "renew"})
<1> DEFINE g1 == H(k \cup {"ics"}, c, 0, {"icsReset", "json", "renew"})
<1> DEFINE g2 == H(k \cup {"ics"}, c, 0, {"json", "renew"})
<1> DEFINE g3 == H(k, c, 0, {"json", "renew"})
<1> DEFINE g4 == H(k \cup {"preset"}, c, 0, {"json", "renew"})
<1> DEFINE g5 == H(k \cup {"preset"}, c, 0, {"json", "renew"})
<1> DEFINE g6 == H(k, c, 0, {"json", "renew"})
<1>1. Leads(g0, "icsLock", g1)
    BY DEF Leads, H, Held, May, After, Within, Takes, Gives, Owes, Ops, Things, Debts, InLock, Ends
<1>2. Leads(g1, "icsReset", g2)
    BY DEF Leads, H, Held, May, After, Within, Takes, Gives, Owes, Ops, Things, Debts, InLock, Ends
<1>3. Leads(g2, "icsUnlock", g3)
    BY DEF Leads, H, Held, May, After, Within, Takes, Gives, Owes, Ops, Things, Debts, InLock, Ends
<1>4. Leads(g3, "presetLock", g4)
    BY DEF Leads, H, Held, May, After, Within, Takes, Gives, Owes, Ops, Things, Debts, InLock, Ends
<1>5. Leads(g4, "query", g5)
    BY DEF Leads, H, Held, May, After, Within, Takes, Gives, Owes, Ops, Things, Debts, InLock, Ends
<1>6. Leads(g5, "presetUnlock", g6)
    BY DEF Leads, H, Held, May, After, Within, Takes, Gives, Owes, Ops, Things, Debts, InLock, Ends
<1> HIDE DEF g0, g1, g2, g3, g4, g5, g6
<1>7. Piece(<<"icsLock", "icsReset", "icsUnlock", "presetLock", "query", "presetUnlock">>, g0, g6)
    BY <1>1, <1>2, <1>3, <1>4, <1>5, <1>6, Six
<1>8. QED
    BY <1>7 DEF g0, g6

LEMMA UpdateJson ==
    ASSUME NEW k \in SUBSET {"slot"}, NEW c \in 0 .. 1
    PROVE  Piece(<<"lock", "drain", "json", "unlock", "query", "lock", "drain">>, H(k, c, 0, {"json", "renew"}),
                 H(k \cup {"lock"}, c, 0, {"renew"}))
<1> DEFINE g0 == H(k, c, 0, {"json", "renew"})
<1> DEFINE g1 == H(k \cup {"next"}, c, 0, {"json", "renew"})
<1> DEFINE g2 == H(k \cup {"lock"}, c, 0, {"json", "renew"})
<1> DEFINE g3 == H(k \cup {"lock"}, c, 0, {"renew"})
<1> DEFINE g4 == H(k, c, 0, {"renew"})
<1> DEFINE g5 == H(k, c, 0, {"renew"})
<1> DEFINE g6 == H(k \cup {"next"}, c, 0, {"renew"})
<1> DEFINE g7 == H(k \cup {"lock"}, c, 0, {"renew"})
<1>1. Leads(g0, "lock", g1)
    BY DEF Leads, H, Held, May, After, Within, Takes, Gives, Owes, Ops, Things, Debts, InLock, Ends
<1>2. Leads(g1, "drain", g2)
    BY DEF Leads, H, Held, May, After, Within, Takes, Gives, Owes, Ops, Things, Debts, InLock, Ends
<1>3. Leads(g2, "json", g3)
    BY DEF Leads, H, Held, May, After, Within, Takes, Gives, Owes, Ops, Things, Debts, InLock, Ends
<1>4. Leads(g3, "unlock", g4)
    BY DEF Leads, H, Held, May, After, Within, Takes, Gives, Owes, Ops, Things, Debts, InLock, Ends
<1>5. Leads(g4, "query", g5)
    BY DEF Leads, H, Held, May, After, Within, Takes, Gives, Owes, Ops, Things, Debts, InLock, Ends
<1>6. Leads(g5, "lock", g6)
    BY DEF Leads, H, Held, May, After, Within, Takes, Gives, Owes, Ops, Things, Debts, InLock, Ends
<1>7. Leads(g6, "drain", g7)
    BY DEF Leads, H, Held, May, After, Within, Takes, Gives, Owes, Ops, Things, Debts, InLock, Ends
<1> HIDE DEF g0, g1, g2, g3, g4, g5, g6, g7
<1>8. Piece(<<"lock", "drain", "json", "unlock", "query", "lock", "drain">>, g0, g7)
    BY <1>1, <1>2, <1>3, <1>4, <1>5, <1>6, <1>7, Seven
<1>9. QED
    BY <1>8 DEF g0, g7

LEMMA UpdateMeta ==
    ASSUME NEW k \in SUBSET {"slot"}, NEW c \in 0 .. 1
    PROVE  Piece(<<"metaQuery">>, H(k \cup {"lock"}, c, 0, {"renew"}),
                 H(k \cup {"lock"}, c, 0, {"renew"}))
<1> DEFINE g0 == H(k \cup {"lock"}, c, 0, {"renew"})
<1> DEFINE g1 == H(k \cup {"lock"}, c, 0, {"renew"})
<1>1. Leads(g0, "metaQuery", g1)
    BY DEF Leads, H, Held, May, After, Within, Takes, Gives, Owes, Ops, Things, Debts, InLock, Ends
<1> HIDE DEF g0, g1
<1>2. Piece(<<"metaQuery">>, g0, g1)
    BY <1>1, One
<1>3. QED
    BY <1>2 DEF g0, g1

LEMMA UpdateEnd ==
    ASSUME NEW k \in SUBSET {"slot"}, NEW c \in 0 .. 1
    PROVE  Piece(<<"unlock", "renew">>, H(k \cup {"lock"}, c, 0, {"renew"}),
                 H(k, c, 0, {}))
<1> DEFINE g0 == H(k \cup {"lock"}, c, 0, {"renew"})
<1> DEFINE g1 == H(k, c, 0, {"renew"})
<1> DEFINE g2 == H(k, c, 0, {})
<1>1. Leads(g0, "unlock", g1)
    BY DEF Leads, H, Held, May, After, Within, Takes, Gives, Owes, Ops, Things, Debts, InLock, Ends
<1>2. Leads(g1, "renew", g2)
    BY DEF Leads, H, Held, May, After, Within, Takes, Gives, Owes, Ops, Things, Debts, InLock, Ends
<1> HIDE DEF g0, g1, g2
<1>3. Piece(<<"unlock", "renew">>, g0, g2)
    BY <1>1, <1>2, Two
<1>4. QED
    BY <1>3 DEF g0, g2

\* A reload reads what a save owes, and pays what it owes itself.
LEMMA UpdatePiece ==
    ASSUME NEW k \in SUBSET {"slot"}, NEW c \in 0 .. 1, NEW meta \in {<<>>, <<"metaQuery">>}
    PROVE  Piece(UpdateSchema(meta), H(k, c, 0, {"icsReset", "read"}), H(k, c, 0, {}))
<1> DEFINE h0 == H(k, c, 0, {"icsReset", "read"})
           h1 == H(k, c, 0, {"icsReset", "json", "renew"})
           h2 == H(k, c, 0, {"json", "renew"})
           h3 == H(k \cup {"lock"}, c, 0, {"renew"})
           h4 == H(k, c, 0, {})
<1>1. Piece(<<"lock", "drain", "read", "store", "unlock">>, h0, h1)
    BY UpdateStore
<1>2. Piece(RenewCaches, h1, h2)
    BY UpdateCaches DEF RenewCaches
<1>3. Piece(<<"lock", "drain", "json", "unlock", "query", "lock", "drain">>, h2, h3)
    BY UpdateJson
<1>4. Piece(<<"metaQuery">>, h3, h3) /\ Piece(<<"unlock", "renew">>, h3, h4)
    BY UpdateMeta, UpdateEnd
<1>5. h3 \in Held
    BY DEF H, Held, Things, Debts, Ops
<1> HIDE DEF h0, h1, h2, h3, h4
<1>6. Piece(meta, h3, h3)
    BY <1>4, <1>5, PieceEmpty
<1>7. Piece(<<"lock", "drain", "read", "store", "unlock">> \o RenewCaches, h0, h2)
    BY <1>1, <1>2, PieceJoin
<1>8. Piece(<<"lock", "drain", "read", "store", "unlock">> \o RenewCaches
            \o <<"lock", "drain", "json", "unlock", "query", "lock", "drain">>, h0, h3)
    BY <1>7, <1>3, PieceJoin
<1>9. Piece(<<"lock", "drain", "read", "store", "unlock">> \o RenewCaches
            \o <<"lock", "drain", "json", "unlock", "query", "lock", "drain">> \o meta, h0, h3)
    BY <1>8, <1>6, PieceJoin
<1>10. Piece(UpdateSchema(meta), h0, h4)
    BY <1>9, <1>4, PieceJoin DEF UpdateSchema
<1>11. QED
    BY <1>10 DEF h0, h4

LEMMA NothingIs == Nothing = H({}, 0, 0, {})
    BY DEF Nothing, H

\* A request that pays what was owed before it.
LEMMA RequestOrderly ==
    ASSUME NEW p, NEW o \in {{}, {"icsReset", "read"}},
           Piece(p, H({"slot"}, 1, 0, o), H({"slot"}, 1, 0, {}))
    PROVE  Piece(Request(p), H({}, 0, 0, o), Nothing)
<1> DEFINE h0 == H({}, 0, 0, o)
           h1 == H({"slot"}, 1, 0, o)
           h2 == H({"slot"}, 1, 0, {})
<1>1. Piece(<<"slot", "begin", "config">>, h0, h1)
    BY RequestStart, RequestStartOwing
<1>2. Piece(<<"end", "unslot">>, h2, Nothing)
    BY RequestEnd, NothingIs
<1> HIDE DEF h0, h1, h2
<1>3. Piece(p, h1, h2)
    BY DEF h1, h2
<1>4. Piece(<<"slot", "begin", "config">> \o p, h0, h2)
    BY <1>1, <1>3, PieceJoin
<1>5. Piece(Request(p), h0, Nothing)
    BY <1>2, <1>4, PieceJoin DEF Request
<1>6. QED
    BY <1>5 DEF h0

LEMMA SaveOrderly ==
    ASSUME NEW meta \in {<<>>, <<"metaQuery">>}
    PROVE  Orderly(Save(meta))
<1> DEFINE k == {"slot"}  c == 1
           o == {"icsReset", "read"}
           h0 == H(k, c, 0, o)
           h1 == H(k, c, 0, {})
           h2 == H({}, 0, 0, o)
<1>1. k \in SUBSET {"slot"} /\ c \in 0 .. 1 /\ o \in {{}, {"icsReset", "read"}}
    OBVIOUS
<1> HIDE DEF k, c
<1>2. Piece(<<"query">>, h0, h0) /\ Piece(UpdateSchema(meta), h0, h1)
    BY <1>1, QueryPiece, UpdatePiece
<1> HIDE DEF h0, h1
<1>3. Piece(<<"query">> \o UpdateSchema(meta), h0, h1)
    BY <1>2, PieceJoin
<1> HIDE DEF o
<1>4. Piece(Request(<<"query">> \o UpdateSchema(meta)), h2, Nothing)
    BY <1>1, <1>3, RequestOrderly DEF h0, h1, k, c
<1>5. Piece(<<"slot", "begin", "config", "save", "unslot">>, Nothing, h2)
    BY SaveStart, NothingIs DEF o
<1> HIDE DEF h2
<1>6. QED
    BY <1>4, <1>5, PieceJoin DEF Orderly, Fits, Save

LEMMA ElsewhereOrderly == Orderly(SchemaChangedElsewhere)
<1> DEFINE k == {}  c == 0
           m == <<>>
           h == H(k, c, 0, {"icsReset", "read"})
<1>1. k \in SUBSET {"slot"} /\ c \in 0 .. 1 /\ m \in {<<>>, <<"metaQuery">>}
    OBVIOUS
<1>2. Piece(<<"saveElsewhere">>, Nothing, h)
    BY SaveElsewhereStart, NothingIs
<1>3. H(k, c, 0, {}) = Nothing
    BY NothingIs
<1> HIDE DEF k, c, m
<1>4. Piece(UpdateSchema(m), h, Nothing)
    BY <1>1, <1>3, UpdatePiece
<1> HIDE DEF h
<1>5. Piece(<<"saveElsewhere">> \o UpdateSchema(m), Nothing, Nothing)
    BY <1>2, <1>4, PieceJoin
<1>6. QED
    BY <1>5 DEF Orderly, Fits, SchemaChangedElsewhere, m

\* Get_tx within another handler's read lock
LEMMA NestedOrderly ==
    /\ Piece(SetLoggedData, H({"slot"}, 1, 0, {}), H({"slot"}, 1, 0, {}))
    /\ Orderly(Api) /\ Orderly(IcsDownload)
<1> DEFINE k0 == {}  k1 == {"slot"}  n0 == 0  n1 == 1
<1>1. /\ k0 \in SUBSET {"slot"} /\ k1 \in SUBSET {"slot"}
      /\ n0 \in 0 .. 1 /\ n1 \in 0 .. 1 /\ n1 \in 0 .. 2 /\ n0 \in Nat /\ n1 \in Nat
    OBVIOUS
<1>2. n0 + 1 = n1
    OBVIOUS
<1> DEFINE s0 == H(k1, n1, n0, {})
           s1 == H(k1, n1, n1, {})
           a1 == H(k0, n1, n1, {})
<1> HIDE DEF k0, k1, n0, n1
<1>3. Piece(GetData, s1, s1) /\ Piece(GetData, a1, a1)
    BY <1>1, GetPiece DEF GetData
<1>4. Piece(<<"rlock", "access", "preset">>, s0, s1) /\ Piece(<<"runlock">>, s1, s0)
  <2>1. Piece(<<"rlock", "access", "preset">>, s0, H(k1, n1, n0 + 1, {}))
        /\ Piece(<<"runlock">>, H(k1, n1, n0 + 1, {}), s0)
      BY <1>1, SetLoggedStart, RUnlockPiece
  <2>2. QED
      BY <1>2, <2>1
<1>5. /\ Piece(<<"rlock", "access", "query", "begin">>, Nothing, a1)
      /\ Piece(<<"end", "runlock">>, a1, Nothing)
      /\ Piece(<<"rlock", "query", "icsLock", "icsGet", "icsUnlock", "begin">>, Nothing, a1)
      /\ Piece(<<"end", "query", "runlock">>, a1, Nothing)
    BY ApiStart, ApiEnd, IcsStart, IcsEnd, NothingIs DEF k0, n1
<1> HIDE DEF s0, s1, a1
<1>6. Piece(SetLoggedData, s0, s0)
  <2>1. Piece(<<"rlock", "access", "preset">> \o GetData, s0, s1)
      BY <1>3, <1>4, PieceJoin
  <2>2. QED
      BY <2>1, <1>4, PieceJoin DEF SetLoggedData
<1>7. Orderly(Api)
  <2>1. Piece(<<"rlock", "access", "query", "begin">> \o GetData, Nothing, a1)
      BY <1>3, <1>5, PieceJoin
  <2>2. QED
      BY <2>1, <1>5, PieceJoin DEF Api, Orderly, Fits
<1>8. Orderly(IcsDownload)
  <2>1. Piece(<<"rlock", "query", "icsLock", "icsGet", "icsUnlock", "begin">> \o GetData,
              Nothing, a1)
      BY <1>3, <1>5, PieceJoin
  <2>2. QED
      BY <2>1, <1>5, PieceJoin DEF IcsDownload, Orderly, Fits
<1>9. QED
    BY <1>6, <1>7, <1>8 DEF s0, k1, n0, n1

\* All programs of the module are orderly: those of requests, of the API and of
\* calendar downloads with their nested read locks, saves and reloads, imports of
\* logins and background tasks.  So the theorems below hold of any mix of them.
THEOREM ProgramsAreOrderly ==
    /\ \A meta \in {<<>>, <<"metaQuery">>} : Orderly(Save(meta))
    /\ Orderly(SchemaChangedElsewhere)
    /\ \A p \in {GetAccess, GetData, SetData, SetLoggedData, ImportLogin, ImportInactive} :
         Orderly(Request(p))
    /\ Orderly(Api) /\ Orderly(IcsDownload) /\ Orderly(Background)
<1> DEFINE k == {"slot"}  n0 == 0  n1 == 1  e == {}
           h == H(k, n1, n0, e)
<1>1. /\ k \in SUBSET {"slot"} /\ n0 \in Nat /\ n1 \in 0 .. 1 /\ n1 \in 0 .. 2
      /\ e \in {{}, {"icsReset", "read"}}
    OBVIOUS
<1>2. Piece(ImportLogin, h, h) /\ Piece(ImportInactive, h, h)
    BY ImportPiece, InactivePiece DEF ImportLogin, ImportInactive
<1>3. Piece(SetLoggedData, h, h)
    BY NestedOrderly
<1> HIDE DEF k, n0, n1
<1>4. Piece(GetAccess, h, h) /\ Piece(GetData, h, h) /\ Piece(SetData, h, h)
    BY <1>1, AccessPiece, GetPiece, SetPiece DEF GetAccess, GetData, SetData
<1>5. ASSUME NEW p \in {GetAccess, GetData, SetData, SetLoggedData, ImportLogin, ImportInactive}
      PROVE  Orderly(Request(p))
  <2>1. Piece(p, h, h)
      BY <1>2, <1>3, <1>4
  <2> HIDE DEF e
  <2>2. Piece(p, H({"slot"}, 1, 0, e), H({"slot"}, 1, 0, {}))
      BY <2>1 DEF k, n0, n1, e
  <2>3. Piece(Request(p), H({}, 0, 0, e), Nothing)
      BY <1>1, <2>2, RequestOrderly
  <2>4. QED
      BY <2>3, NothingIs DEF Orderly, Fits, e
<1>6. Orderly(Background)
  <2> DEFINE b == {}
  <2>1. b \in SUBSET {"slot"} /\ n0 \in 0 .. 1 /\ n0 \in Nat /\ H(b, n0, n0, {}) = Nothing
      BY NothingIs DEF n0
  <2> HIDE DEF b
  <2>2. QED
      BY <2>1, BackgroundPiece DEF Background, Orderly, Fits
<1>7. QED
    BY <1>5, <1>6, SaveOrderly, ElsewhereOrderly, NestedOrderly

-----------------------------------------------------------------------------
(* The invariant: what each task holds and owes, and what the state says of it *)

Shape(hold) ==
    /\ hold \in [Tasks -> Held]
    /\ todo \in [Tasks -> Seq(Ops)]
    /\ \A t \in Tasks : Fits(todo[t], hold[t])

SlotsFit(hold) ==
    /\ slots \subseteq Tasks /\ IsFiniteSet(slots) /\ Cardinality(slots) <= RequestLimit
    /\ \A t \in Tasks : t \in slots <=> "slot" \in hold[t].keeps

\* each connection that is taken
Taken == {x \in Tasks \X (1 .. 2) : x[2] <= conns[x[1]]}

PoolFits(hold) ==
    /\ conns \in [Tasks -> 0 .. 2] /\ \A t \in Tasks : conns[t] = hold[t].conns
    /\ free \in Nat /\ IsFiniteSet(Taken) /\ free + Cardinality(Taken) <= PoolSize

MutexesFit(hold) ==
    /\ preset \in Tasks \cup {None} /\ ics \in Tasks \cup {None}
    /\ \A t \in Tasks : /\ preset = t <=> "preset" \in hold[t].keeps
                        /\ ics = t <=> "ics" \in hold[t].keeps

\* A writer that has drained the lock is alone with it.
LocksFit(hold) ==
    /\ readers \in [Tasks -> Nat] /\ \A t \in Tasks : readers[t] = hold[t].reads
    /\ writer \in Tasks \cup {None} /\ left \in BOOLEAN /\ (writer = None => waiting = {})
    /\ waiting \subseteq Tasks /\ \A t \in waiting : todo[t] # <<>> /\ Head(todo[t]) = "rlock"
    /\ \A t \in Tasks : "next" \in hold[t].keeps \/ "lock" \in hold[t].keeps => writer = t
    /\ \A t \in Tasks : writer = t /\ ~left => "next" \in hold[t].keeps \/ "lock" \in hold[t].keeps
    /\ \A t \in Tasks : "lock" \in hold[t].keeps => \A u \in Tasks : readers[u] = 0

Relics == {v \in dropped : v <= cached}

\* What was read is not older than the cache; what was built is of the cache.
VersionsFit(hold) ==
    /\ db \in Nat /\ cached \in Nat /\ json \in Nat /\ access \in Nat /\ icsField \in Nat
    /\ seen \in [Tasks -> Nat]
    /\ cached <= db /\ json <= cached /\ access <= cached
    /\ dropped \subseteq 1 .. db /\ relics = Relics
    /\ \A t \in Tasks : "schema" \in hold[t].keeps => cached <= seen[t] /\ seen[t] <= db
    /\ \A t \in Tasks : "access" \in hold[t].keeps => seen[t] = cached

RolesFit(hold) ==
    /\ roles \in Nat /\ roles # 0 /\ enabled \in BOOLEAN /\ crossed \in BOOLEAN
    /\ granted \in Nat /\ seenRoles \in [Tasks -> Nat]
    /\ \A t \in Tasks : seenRoles[t] # 0 <=> "put" \in hold[t].owes /\ "roles" \notin hold[t].owes
    /\ \A t \in Tasks : "roles" \in hold[t].owes => "put" \in hold[t].owes
    /\ runs \in Nat /\ failures \in Nat

\* What is not up to date yet, some task owes to renew.
SchemaComes(hold) == cached # db => \E t \in Tasks :
    "read" \in hold[t].owes \/ ("schema" \in hold[t].keeps /\ seen[t] = db)
JsonComes(hold)   == json # cached => \E t \in Tasks : "json" \in hold[t].owes
IcsComes(hold)    == icsField \notin {0, db} => \E t \in Tasks : "icsReset" \in hold[t].owes
AccessComes(hold) == access \notin {0, cached} => \E t \in Tasks :
    "renew" \in hold[t].owes \/ "put" \in hold[t].owes

Comes(hold) ==
    failures = 0 =>
        SchemaComes(hold) /\ JsonComes(hold) /\ IcsComes(hold) /\ AccessComes(hold)

\* Other roles are renewed yet, or read, or all who have read roles read these,
\* and they or the access have them.
RolesCome(hold) ==
    failures = 0 /\ ~crossed /\ enabled =>
        \/ \E t \in Tasks : "renew" \in hold[t].owes \/ "roles" \in hold[t].owes
        \/ /\ \A t \in Tasks : seenRoles[t] \in {0, roles}
           /\ access = 0 \/ granted = roles \/ \E t \in Tasks : seenRoles[t] = roles

Inv(hold) ==
    /\ Shape(hold) /\ SlotsFit(hold) /\ PoolFits(hold) /\ MutexesFit(hold) /\ LocksFit(hold)
    /\ VersionsFit(hold) /\ RolesFit(hold) /\ Comes(hold) /\ RolesCome(hold)

IInv == \E hold \in [Tasks -> Held] : Inv(hold)

-----------------------------------------------------------------------------
(* What a step changes                                                       *)

\* A task at an operation does the action of that name, and touches nothing else.
LEMMA StepEffect ==
    ASSUME NEW t \in Tasks, NEW op, todo[t] # <<>>, op = Head(todo[t]), Step(t)
    PROVE  /\ op = "slot" => TakeSlot(t)
           /\ op = "unslot" => FreeSlot(t)
           /\ op = "begin" => Begin(t)
           /\ op \in Ends => EndTransaction(t)
           /\ op = "saveElsewhere" => SaveElsewhere(t)
           /\ op = "rlock" => RLock(t)
           /\ op = "runlock" => RUnlock(t)
           /\ op = "lock" => Lock(t)
           /\ op = "drain" => Drain(t)
           /\ op = "unlock" => Unlock(t)
           /\ op = "read" => ReadSchema(t)
           /\ op = "store" => StoreSchema(t)
           /\ op = "json" => CopyJson(t)
           /\ op = "icsLock" => LockIcs(t)
           /\ op = "icsUnlock" => UnlockIcs(t)
           /\ op = "icsGet" => GetIcs(t)
           /\ op = "icsReset" => ResetIcs(t)
           /\ op = "presetLock" => LockPresets(t)
           /\ op = "presetUnlock" => UnlockPresets(t)
           /\ op \in Look => LookAtAccess(t)
           /\ op = "roles" => LoadRoles(t)
           /\ op = "build" => BuildAccess(t)
           /\ op = "put" => PutAccess(t)
           /\ op \notin {"rlock", "unlock"} \cup Look => Advance(t)
           /\ op \notin {"slot", "unslot"} => slots' = slots
           /\ op \notin {"begin"} \cup Ends => UNCHANGED pool
           /\ op \notin {"rlock", "runlock", "lock", "unlock"} => UNCHANGED locks
           /\ op \notin {"presetLock", "presetUnlock", "icsLock", "icsUnlock"} => UNCHANGED mutexes
           /\ op \notin {"save", "saveElsewhere"} => UNCHANGED stored
           /\ op \notin {"read", "store", "build", "put"} => UNCHANGED seen
           /\ op # "store" => UNCHANGED maps
           /\ op # "json" => UNCHANGED json
           /\ op \notin {"icsGet", "icsReset"} => UNCHANGED icsField
           /\ op # "put" => UNCHANGED <<access, granted>>
           /\ op \notin {"roles", "put"} => UNCHANGED seenRoles
           /\ op \notin {"roles"} \cup Look => UNCHANGED crossed
           /\ op \notin Ends => UNCHANGED <<roles, enabled>>
           /\ UNCHANGED <<runs, failures>>
<1> USE DEF At, Ends, Look, pool, locks, mutexes, stored, maps, schema, login, versions
<1>1. CASE TakeSlot(t)
    BY <1>1 DEF TakeSlot
<1>2. CASE FreeSlot(t)
    BY <1>2 DEF FreeSlot
<1>3. CASE Begin(t)
    BY <1>3 DEF Begin
<1>4. CASE SetConfig(t)
    BY <1>4 DEF SetConfig
<1>5. CASE EndTransaction(t)
    BY <1>5 DEF EndTransaction
<1>6. CASE SaveElsewhere(t)
    BY <1>6 DEF SaveElsewhere
<1>7. CASE RLock(t)
    BY <1>7 DEF RLock
<1>8. CASE RUnlock(t)
    BY <1>8 DEF RUnlock
<1>9. CASE Lock(t)
    BY <1>9 DEF Lock
<1>10. CASE Drain(t)
    BY <1>10 DEF Drain
<1>11. CASE Unlock(t)
    BY <1>11 DEF Unlock
<1>12. CASE Query(t)
    BY <1>12 DEF Query
<1>13. CASE ReadSchema(t)
    BY <1>13 DEF ReadSchema
<1>14. CASE StoreSchema(t)
    BY <1>14 DEF StoreSchema
<1>15. CASE CopyJson(t)
    BY <1>15 DEF CopyJson
<1>16. CASE LockIcs(t)
    BY <1>16 DEF LockIcs
<1>17. CASE UnlockIcs(t)
    BY <1>17 DEF UnlockIcs
<1>18. CASE GetIcs(t)
    BY <1>18 DEF GetIcs
<1>19. CASE ResetIcs(t)
    BY <1>19 DEF ResetIcs
<1>20. CASE LockPresets(t)
    BY <1>20 DEF LockPresets
<1>21. CASE UnlockPresets(t)
    BY <1>21 DEF UnlockPresets
<1>22. CASE GetPreset(t)
    BY <1>22 DEF GetPreset
<1>23. CASE LookAtAccess(t)
    BY <1>23 DEF LookAtAccess
<1>24. CASE LoadRoles(t)
    BY <1>24 DEF LoadRoles
<1>25. CASE BuildAccess(t)
    BY <1>25 DEF BuildAccess
<1>26. CASE PutAccess(t)
    BY <1>26 DEF PutAccess
<1>27. QED
    BY <1>1, <1>2, <1>3, <1>4, <1>5, <1>6, <1>7, <1>8, <1>9, <1>10, <1>11, <1>12, <1>13, <1>14, <1>15, <1>16, <1>17, <1>18, <1>19, <1>20, <1>21, <1>22, <1>23, <1>24, <1>25, <1>26 DEF Step

\* q is what all hold after t has done op, but for read locks and what t owes.
Goes(hold, q, t, op) ==
    /\ q \in [Tasks -> Held]
    /\ q[t].keeps = After(hold[t], op).keeps /\ q[t].conns = After(hold[t], op).conns
    /\ \A u \in Tasks \ {t} : q[u].keeps = hold[u].keeps /\ q[u].conns = hold[u].conns

LEMMA AfterKeeps ==
    ASSUME NEW h \in Held, NEW op \in Ops
    PROVE  LET k == After(h, op).keeps IN
           /\ "slot" \in k <=> op = "slot" \/ ("slot" \in h.keeps /\ op # "unslot")
           /\ "next" \in k <=> op = "lock" \/ ("next" \in h.keeps /\ op # "drain")
           /\ "lock" \in k <=> op = "drain" \/ ("lock" \in h.keeps /\ op # "unlock")
           /\ "preset" \in k <=> op = "presetLock" \/ ("preset" \in h.keeps /\ op # "presetUnlock")
           /\ "ics" \in k <=> op = "icsLock" \/ ("ics" \in h.keeps /\ op # "icsUnlock")
           /\ "schema" \in k <=> op = "read" \/ ("schema" \in h.keeps /\ op # "store")
           /\ "access" \in k <=> op = "build" \/ ("access" \in h.keeps /\ op # "put")
    BY DEF After, Takes, Gives, Held, Ops, Things

LEMMA SlotsGo ==
    ASSUME NEW hold, NEW q, NEW t \in Tasks, NEW op \in Ops, hold \in [Tasks -> Held],
           May(hold[t], op), Goes(hold, q, t, op), SlotsFit(hold),
           op = "slot" => TakeSlot(t), op = "unslot" => FreeSlot(t),
           op \notin {"slot", "unslot"} => slots' = slots
    PROVE  SlotsFit(q)'
<1>1. hold[t] \in Held /\ \A u \in Tasks : hold[u] \in Held
    OBVIOUS
<1>2. "slot" \in q[t].keeps <=> op = "slot" \/ ("slot" \in hold[t].keeps /\ op # "unslot")
    BY <1>1, AfterKeeps DEF Goes
<1>3. \A u \in Tasks \ {t} : "slot" \in q[u].keeps <=> "slot" \in hold[u].keeps
    BY DEF Goes
<1>4. CASE op = "slot"
  <2>1. slots' = slots \cup {t} /\ Cardinality(slots) < RequestLimit
      BY <1>4 DEF TakeSlot, SlotFree
  <2>2. t \notin slots
      BY <1>4 DEF May, Within, SlotsFit, Held, Things
  <2>3. IsFiniteSet(slots') /\ Cardinality(slots') = Cardinality(slots) + 1
      BY <2>1, <2>2, FS_AddElement DEF SlotsFit
  <2>4. Cardinality(slots) \in Nat
      BY FS_CardinalityType DEF SlotsFit
  <2>5. QED
      BY <1>2, <1>3, <1>4, <2>1, <2>3, <2>4, SchemaReloadAssumption DEF SlotsFit
<1>5. CASE op = "unslot"
  <2>1. slots' = slots \ {t}
      BY <1>5 DEF FreeSlot
  <2>2. IsFiniteSet(slots') /\ Cardinality(slots') <= Cardinality(slots)
      BY <2>1, FS_Subset DEF SlotsFit
  <2>3. Cardinality(slots) \in Nat /\ Cardinality(slots') \in Nat
      BY <2>2, FS_CardinalityType DEF SlotsFit
  <2>4. Cardinality(slots') <= RequestLimit
      BY <2>2, <2>3, SchemaReloadAssumption DEF SlotsFit
  <2>5. QED
      BY <1>2, <1>3, <1>5, <2>1, <2>2, <2>4 DEF SlotsFit
<1>6. CASE op \notin {"slot", "unslot"}
    BY <1>2, <1>3, <1>6 DEF SlotsFit
<1>7. QED
    BY <1>4, <1>5, <1>6

LEMMA PoolGoes ==
    ASSUME NEW hold, NEW q, NEW t \in Tasks, NEW op \in Ops, hold \in [Tasks -> Held],
           May(hold[t], op), Goes(hold, q, t, op), PoolFits(hold),
           op = "begin" => Begin(t), op \in Ends => EndTransaction(t),
           op \notin {"begin"} \cup Ends => UNCHANGED pool
    PROVE  PoolFits(q)'
<1>1. q[t] \in Held /\ \A u \in Tasks : q[u].conns \in 0 .. 2
    BY DEF Goes, Held
<1>2. Cardinality(Taken) \in Nat
    BY FS_CardinalityType DEF PoolFits
<1> DEFINE n == conns[t]
<1>3. n \in 0 .. 2 /\ n = hold[t].conns
    BY DEF PoolFits
<1>4. CASE op = "begin"
  <2>1. free > 0 /\ free' = free - 1 /\ conns' = [conns EXCEPT ![t] = @ + 1]
      BY <1>4 DEF Begin
  <2>2. q[t].conns = n + 1 /\ n + 1 \in 1 .. 2
      BY <1>1, <1>3, <1>4 DEF Goes, After
  <2>3. conns' \in [Tasks -> 0 .. 2] /\ \A u \in Tasks : conns'[u] = q[u].conns
      BY <2>1, <2>2 DEF PoolFits, Goes
  <2>4. Taken' = Taken \cup {<<t, n + 1>>} /\ <<t, n + 1>> \notin Taken
      BY <2>1, <2>2, <1>3 DEF Taken, PoolFits
  <2>5. IsFiniteSet(Taken') /\ Cardinality(Taken') = Cardinality(Taken) + 1
      BY <2>4, FS_AddElement DEF PoolFits
  <2>6. QED
      BY <1>2, <2>1, <2>3, <2>5, SchemaReloadAssumption DEF PoolFits
<1>5. CASE op \in Ends
  <2>1. free' = free + 1 /\ conns' = [conns EXCEPT ![t] = @ - 1]
      BY <1>5 DEF EndTransaction
  <2>2. q[t].conns = n - 1 /\ n \in 1 .. 2
      BY <1>1, <1>3, <1>5 DEF Goes, After, May, Ends
  <2>3. conns' \in [Tasks -> 0 .. 2] /\ \A u \in Tasks : conns'[u] = q[u].conns
      BY <2>1, <2>2 DEF PoolFits, Goes
  <2>4. Taken' = Taken \ {<<t, n>>} /\ <<t, n>> \in Taken
      BY <2>1, <2>2, <1>3 DEF Taken, PoolFits
  <2>5. IsFiniteSet(Taken') /\ Cardinality(Taken') = Cardinality(Taken) - 1
      BY <2>4, FS_RemoveElement DEF PoolFits
  <2>6. Cardinality(Taken') \in Nat
      BY <2>5, FS_CardinalityType
  <2>7. QED
      BY <1>2, <2>1, <2>3, <2>5, <2>6, SchemaReloadAssumption DEF PoolFits
<1>6. CASE op \notin {"begin"} \cup Ends
  <2>1. free' = free /\ conns' = conns /\ Taken' = Taken
      BY <1>6 DEF pool, Taken
  <2>2. \A u \in Tasks : conns[u] = q[u].conns
      BY <1>6 DEF Goes, After, PoolFits
  <2>3. QED
      BY <2>1, <2>2 DEF PoolFits
<1>7. QED
    BY <1>4, <1>5, <1>6

LEMMA MutexesGo ==
    ASSUME NEW hold, NEW q, NEW t \in Tasks, NEW op \in Ops, hold \in [Tasks -> Held],
           May(hold[t], op), Goes(hold, q, t, op), MutexesFit(hold),
           op = "presetLock" => LockPresets(t), op = "presetUnlock" => UnlockPresets(t),
           op = "icsLock" => LockIcs(t), op = "icsUnlock" => UnlockIcs(t),
           op \notin {"presetLock", "presetUnlock", "icsLock", "icsUnlock"} => UNCHANGED mutexes
    PROVE  MutexesFit(q)'
<1>1. hold[t] \in Held
    OBVIOUS
<1>2. /\ "preset" \in q[t].keeps <=> op = "presetLock" \/ ("preset" \in hold[t].keeps /\ op # "presetUnlock")
      /\ "ics" \in q[t].keeps <=> op = "icsLock" \/ ("ics" \in hold[t].keeps /\ op # "icsUnlock")
    BY <1>1, AfterKeeps DEF Goes
<1>3. \A u \in Tasks \ {t} : /\ "preset" \in q[u].keeps <=> "preset" \in hold[u].keeps
                             /\ "ics" \in q[u].keeps <=> "ics" \in hold[u].keeps
    BY DEF Goes
<1>4. /\ op = "presetUnlock" => "preset" \in hold[t].keeps
      /\ op = "icsUnlock" => "ics" \in hold[t].keeps
    BY DEF May, Gives
<1>5. None \notin Tasks
    BY SchemaReloadAssumption
<1>6. CASE op = "presetLock"
    BY <1>2, <1>3, <1>5, <1>6 DEF LockPresets, MutexesFit
<1>7. CASE op = "presetUnlock"
    BY <1>2, <1>3, <1>4, <1>5, <1>7 DEF UnlockPresets, MutexesFit
<1>8. CASE op = "icsLock"
    BY <1>2, <1>3, <1>5, <1>8 DEF LockIcs, MutexesFit
<1>9. CASE op = "icsUnlock"
    BY <1>2, <1>3, <1>4, <1>5, <1>9 DEF UnlockIcs, MutexesFit
<1>10. CASE op \notin {"presetLock", "presetUnlock", "icsLock", "icsUnlock"}
    BY <1>2, <1>3, <1>10 DEF mutexes, MutexesFit
<1>11. QED
    BY <1>6, <1>7, <1>8, <1>9, <1>10

\* Who keeps something is at an operation that is allowed with it.
LEMMA Doing ==
    ASSUME NEW hold, Shape(hold), NEW u \in Tasks
    PROVE  /\ hold[u] \in Held
           /\ todo[u] = <<>> => hold[u] = Nothing
           /\ todo[u] # <<>> => /\ Head(todo[u]) \in Ops /\ May(hold[u], Head(todo[u]))
                                /\ After(hold[u], Head(todo[u])) \in Held
                                /\ Fits(Tail(todo[u]), After(hold[u], Head(todo[u])))
           /\ \A x \in hold[u].keeps : todo[u] # <<>> /\ Head(todo[u]) \in Within(x)
<1>1. hold[u] \in Held /\ Fits(todo[u], hold[u])
    BY DEF Shape
<1>2. todo[u] = <<>> => hold[u] = Nothing
    BY <1>1, PieceEmpty DEF Fits
<1>3. todo[u] # <<>> => /\ Head(todo[u]) \in Ops /\ May(hold[u], Head(todo[u]))
                        /\ After(hold[u], Head(todo[u])) \in Held
                        /\ Fits(Tail(todo[u]), After(hold[u], Head(todo[u])))
    BY <1>1, PieceTail DEF Fits
<1>4. \A x \in hold[u].keeps : todo[u] # <<>> /\ Head(todo[u]) \in Within(x)
    BY <1>2, <1>3 DEF Nothing, May
<1>5. QED
    BY <1>1, <1>2, <1>3, <1>4

\* With the lock held nobody else has read a schema or built an access.
LEMMA Alone ==
    ASSUME NEW hold, Shape(hold), LocksFit(hold), NEW t \in Tasks, "lock" \in hold[t].keeps,
           NEW u \in Tasks \ {t}
    PROVE  "schema" \notin hold[u].keeps /\ "access" \notin hold[u].keeps
<1>1. writer = t /\ readers[u] = 0
    BY DEF LocksFit
<1>2. ASSUME "schema" \in hold[u].keeps PROVE FALSE
  <2>1. todo[u] # <<>> /\ Head(todo[u]) \in {"store"}
      BY <1>2, Doing DEF Within
  <2>2. "lock" \in hold[u].keeps
      BY <2>1, Doing DEF May, InLock
  <2>3. QED
      BY <1>1, <2>2 DEF LocksFit
<1>3. ASSUME "access" \in hold[u].keeps PROVE FALSE
  <2>1. todo[u] # <<>> /\ Head(todo[u]) \in {"put"}
      BY <1>3, Doing DEF Within
  <2>2. hold[u].reads # 0
      BY <2>1, Doing DEF May
  <2>3. QED
      BY <1>1, <2>2 DEF LocksFit
<1>4. QED
    BY <1>2, <1>3

LEMMA VersionsGo ==
    ASSUME NEW hold, NEW q, NEW t \in Tasks, NEW op \in Ops, hold \in [Tasks -> Held],
           todo[t] # <<>>, Head(todo[t]) = op,
           May(hold[t], op), Goes(hold, q, t, op), VersionsFit(hold),
           op = "store" => \A u \in Tasks \ {t} :
               "schema" \notin hold[u].keeps /\ "access" \notin hold[u].keeps,
           op \in Ends => EndTransaction(t), op = "saveElsewhere" => SaveElsewhere(t),
           op = "read" => ReadSchema(t), op = "store" => StoreSchema(t),
           op = "json" => CopyJson(t), op = "icsGet" => GetIcs(t), op = "icsReset" => ResetIcs(t),
           op = "build" => BuildAccess(t), op = "put" => PutAccess(t),
           op \notin {"save", "saveElsewhere"} => UNCHANGED stored,
           op \notin {"read", "store", "build", "put"} => UNCHANGED seen,
           op # "store" => UNCHANGED maps, op # "json" => UNCHANGED json,
           op \notin {"icsGet", "icsReset"} => UNCHANGED icsField,
           op # "put" => UNCHANGED <<access, granted>>
    PROVE  VersionsFit(q)' /\ cached' >= cached /\ json' >= json /\ access' >= access
<1>1. hold[t] \in Held
    OBVIOUS
<1>2. /\ "schema" \in q[t].keeps <=> op = "read" \/ ("schema" \in hold[t].keeps /\ op # "store")
      /\ "access" \in q[t].keeps <=> op = "build" \/ ("access" \in hold[t].keeps /\ op # "put")
    BY <1>1, AfterKeeps DEF Goes
<1>3. \A u \in Tasks \ {t} : /\ "schema" \in q[u].keeps <=> "schema" \in hold[u].keeps
                             /\ "access" \in q[u].keeps <=> "access" \in hold[u].keeps
    BY DEF Goes
<1>4. /\ op = "store" => "schema" \in hold[t].keeps
      /\ op = "put" => "access" \in hold[t].keeps
    BY DEF May, Gives
<1>5. /\ "schema" \in hold[t].keeps => op = "store"
      /\ "access" \in hold[t].keeps => op = "put"
    BY DEF May, Within
<1>15. cached \in Nat /\ json \in Nat /\ access \in Nat /\ db \in Nat /\ icsField \in Nat
       /\ seen \in [Tasks -> Nat] /\ dropped \subseteq 1 .. db
    BY DEF VersionsFit
<1>16. ASSUME UNCHANGED <<stored, maps>>
       PROVE  db' = db /\ cached' = cached /\ dropped' \subseteq 1 .. db' /\ relics' = Relics'
    BY <1>15, <1>16 DEF VersionsFit, Relics, stored, maps
<1>6. CASE op \in {"save", "saveElsewhere"}
  <2>1. NewSchema
      BY <1>6 DEF EndTransaction, SaveElsewhere, At, Ends
  <2>2. db' = db + 1 /\ (dropped' = dropped \/ dropped' = dropped \cup {db + 1})
      BY <2>1 DEF NewSchema
  <2>3. dropped' \subseteq 1 .. db'
    <3>1. 1 .. db \subseteq 1 .. db + 1 /\ db + 1 \in 1 .. db + 1
        BY <1>15
    <3>2. QED
        BY <1>15, <2>2, <3>1
  <2>4. relics' = Relics'
    <3>1. cached' = cached /\ relics' = relics /\ cached <= db
        BY <1>6 DEF VersionsFit, maps
    <3>2. ~(db + 1 <= cached)
        BY <1>15, <3>1
    <3>3. Relics' = Relics
        BY <2>2, <3>1, <3>2 DEF Relics
    <3>4. QED
        BY <3>1, <3>3 DEF VersionsFit
  <2>5. QED
      BY <1>2, <1>3, <1>5, <1>6, <2>2, <2>3, <2>4 DEF VersionsFit, maps
<1>7. CASE op = "read"
  <2>1. db' = db /\ cached' = cached /\ dropped' \subseteq 1 .. db' /\ relics' = Relics'
      BY <1>7, <1>16
  <2>2. QED
      BY <1>2, <1>3, <1>4, <1>5, <1>15, <1>7, <2>1 DEF VersionsFit, ReadSchema
<1>8. CASE op = "store"
  <2>1. /\ cached' = seen[t] /\ relics' = relics \cup {v \in dropped : v <= seen[t]}
        /\ seen' = [seen EXCEPT ![t] = 0]
      BY <1>8 DEF StoreSchema
  <2>2. cached <= seen[t] /\ seen[t] <= db /\ seen[t] \in Nat
      BY <1>4, <1>8 DEF VersionsFit
  <2>3. relics' = Relics' /\ dropped' \subseteq 1 .. db'
    <3>1. dropped' = dropped /\ db' = db /\ \A v \in dropped : v \in Nat
        BY <1>8, <1>15 DEF stored
    <3>2. \A v \in dropped : v <= cached => v <= seen[t]
        BY <1>15, <2>2, <3>1
    <3>3. QED
        BY <1>15, <2>1, <3>1, <3>2 DEF VersionsFit, Relics
  <2>4. QED
      BY <1>2, <1>3, <1>5, <1>8, <2>1, <2>2, <2>3 DEF VersionsFit, stored
<1>9. CASE op = "json"
  <2>1. db' = db /\ cached' = cached /\ dropped' \subseteq 1 .. db' /\ relics' = Relics'
      BY <1>9, <1>16
  <2>2. QED
      BY <1>2, <1>3, <1>4, <1>5, <1>15, <1>9, <2>1 DEF VersionsFit, CopyJson
<1>10. CASE op \in {"icsGet", "icsReset"}
  <2>1. db' = db /\ cached' = cached /\ dropped' \subseteq 1 .. db' /\ relics' = Relics'
      BY <1>10, <1>16
  <2>2. QED
      BY <1>2, <1>3, <1>4, <1>5, <1>15, <1>10, <2>1 DEF VersionsFit, GetIcs, ResetIcs
<1>11. CASE op = "build"
  <2>1. db' = db /\ cached' = cached /\ dropped' \subseteq 1 .. db' /\ relics' = Relics'
      BY <1>11, <1>16
  <2>2. QED
      BY <1>2, <1>3, <1>4, <1>5, <1>15, <1>11, <2>1 DEF VersionsFit, BuildAccess
<1>12. CASE op = "put"
  <2>1. db' = db /\ cached' = cached /\ dropped' \subseteq 1 .. db' /\ relics' = Relics'
      BY <1>12, <1>16
  <2>2. QED
      BY <1>2, <1>3, <1>4, <1>5, <1>15, <1>12, <2>1 DEF VersionsFit, PutAccess
<1>13. CASE op \notin {"save", "saveElsewhere", "read", "store", "json", "icsGet", "icsReset",
                       "build", "put"}
  <2>1. db' = db /\ cached' = cached /\ dropped' \subseteq 1 .. db' /\ relics' = Relics'
      BY <1>13, <1>16
  <2>2. QED
      BY <1>2, <1>3, <1>5, <1>13, <1>15, <2>1 DEF VersionsFit
<1>14. QED
    BY <1>6, <1>7, <1>8, <1>9, <1>10, <1>11, <1>12, <1>13

\* Read locks: t gets what it gave its program for, and those in W got one each.
LEMMA LocksGo ==
    ASSUME NEW hold, NEW q, NEW t \in Tasks, NEW op \in Ops, Shape(hold),
           todo[t] # <<>>, Head(todo[t]) = op,
           May(hold[t], op), Goes(hold, q, t, op), LocksFit(hold), op \notin {"rlock", "unlock"},
           q[t].reads = After(hold[t], op).reads,
           \A u \in Tasks \ {t} : q[u].reads = hold[u].reads,
           \A u \in Tasks \ {t} : todo'[u] = todo[u],
           op = "runlock" => RUnlock(t), op = "lock" => Lock(t), op = "drain" => Drain(t),
           op \notin {"runlock", "lock"} => UNCHANGED locks
    PROVE  LocksFit(q)'
<1>1. hold[t] \in Held
    BY DEF Shape
<1>2. /\ "next" \in q[t].keeps <=> op = "lock" \/ ("next" \in hold[t].keeps /\ op # "drain")
      /\ "lock" \in q[t].keeps <=> op = "drain" \/ ("lock" \in hold[t].keeps /\ op # "unlock")
    BY <1>1, AfterKeeps DEF Goes
<1>3. \A u \in Tasks \ {t} : /\ "next" \in q[u].keeps <=> "next" \in hold[u].keeps
                             /\ "lock" \in q[u].keeps <=> "lock" \in hold[u].keeps
    BY DEF Goes
<1>4. t \notin waiting
    BY DEF LocksFit
<1>5. None \notin Tasks
    BY SchemaReloadAssumption
<1>6. CASE op = "runlock"
  <2>1. /\ readers' = [readers EXCEPT ![t] = @ - 1]
        /\ UNCHANGED <<writer, waiting, left>>
      BY <1>6 DEF RUnlock
  <2>2. readers[t] # 0 /\ q[t].reads = hold[t].reads - 1
      BY <1>6 DEF LocksFit, May, After
  <2>3. readers' \in [Tasks -> Nat] /\ \A u \in Tasks : readers'[u] = q[u].reads
      BY <2>1, <2>2 DEF LocksFit
  <2>4. \A u \in Tasks : "lock" \notin hold[u].keeps
      BY <2>2 DEF LocksFit
  <2>5. QED
      BY <1>2, <1>3, <1>4, <1>6, <2>1, <2>3, <2>4 DEF LocksFit
<1>7. CASE op = "lock"
  <2>1. writer = None /\ writer' = t /\ UNCHANGED <<readers, waiting, left>>
      BY <1>7 DEF Lock
  <2>2. \A u \in Tasks : q[u].reads = hold[u].reads
      BY <1>7 DEF After
  <2>3. \A u \in Tasks : "next" \notin hold[u].keeps /\ "lock" \notin hold[u].keeps
      BY <1>5, <2>1 DEF LocksFit
  <2>4. QED
      BY <1>2, <1>3, <1>4, <1>5, <1>7, <2>1, <2>2, <2>3 DEF LocksFit
<1>8. CASE op = "drain"
  <2>1. (\A u \in Tasks : readers[u] = 0) /\ UNCHANGED locks
      BY <1>8 DEF Drain, locks
  <2>2. \A u \in Tasks : q[u].reads = hold[u].reads
      BY <1>8 DEF After
  <2>3. "next" \in hold[t].keeps
      BY <1>8 DEF May, Gives
  <2>4. QED
      BY <1>2, <1>3, <1>4, <1>8, <2>1, <2>2, <2>3 DEF LocksFit, locks
<1>9. CASE op \notin {"runlock", "lock", "drain"}
  <2>1. \A u \in Tasks : q[u].reads = hold[u].reads
      BY <1>9 DEF After
  <2>2. QED
      BY <1>2, <1>3, <1>4, <1>9, <2>1 DEF LocksFit, locks
<1>10. QED
    BY <1>6, <1>7, <1>8, <1>9

\* q is also what all owe after t has done op.
OwesGo(hold, q, t, op) ==
    /\ q[t].owes = After(hold[t], op).owes
    /\ \A u \in Tasks \ {t} : q[u].owes = hold[u].owes

\* t looked for an access that it has to load.
LoadsGo(hold, q, t, op) ==
    /\ q[t].owes = (hold[t].owes \ {op}) \cup {"roles", "put"}
    /\ \A u \in Tasks \ {t} : q[u].owes = hold[u].owes

LEMMA AfterOwes ==
    ASSUME NEW h \in Held, NEW op \in Ops
    PROVE  LET o == After(h, op).owes IN
           /\ "read" \in o <=> op \in {"save", "saveElsewhere"} \/ ("read" \in h.owes /\ op # "read")
           /\ "icsReset" \in o <=> op \in {"save", "saveElsewhere"}
                                   \/ ("icsReset" \in h.owes /\ op # "icsReset")
           /\ "json" \in o <=> op = "store" \/ ("json" \in h.owes /\ op # "json")
           /\ "renew" \in o <=> op \in {"store", "grant"} \/ ("renew" \in h.owes /\ op # "renew")
           /\ "roles" \in o <=> "roles" \in h.owes /\ op # "roles"
           /\ "put" \in o <=> "put" \in h.owes /\ op # "put"
    BY DEF After, Owes, Held, Ops, Debts

LEMMA RolesGo ==
    ASSUME NEW hold, NEW q, NEW t \in Tasks, NEW op \in Ops, hold \in [Tasks -> Held],
           todo[t] # <<>>, Head(todo[t]) = op, May(hold[t], op), RolesFit(hold),
           OwesGo(hold, q, t, op) \/ (op \in Look /\ LoadsGo(hold, q, t, op)),
           op \in Ends => EndTransaction(t), op \in Look => LookAtAccess(t),
           op = "roles" => LoadRoles(t), op = "put" => PutAccess(t),
           op # "put" => UNCHANGED <<access, granted>>,
           op \notin {"roles", "put"} => UNCHANGED seenRoles,
           op \notin {"roles"} \cup Look => UNCHANGED crossed,
           op \notin Ends => UNCHANGED <<roles, enabled>>,
           UNCHANGED <<runs, failures>>
    PROVE  RolesFit(q)'
<1>1. hold[t] \in Held
    OBVIOUS
<1>2. ASSUME OwesGo(hold, q, t, op)
      PROVE  /\ "roles" \in q[t].owes <=> "roles" \in hold[t].owes /\ op # "roles"
             /\ "put" \in q[t].owes <=> "put" \in hold[t].owes /\ op # "put"
    BY <1>1, <1>2, AfterOwes DEF OwesGo
<1>3. \A u \in Tasks \ {t} : q[u].owes = hold[u].owes
    BY DEF OwesGo, LoadsGo
<1>4. /\ op \in {"roles", "put"} => op \in hold[t].owes
      /\ "roles" \in hold[t].owes => op = "roles"
      /\ "put" \in hold[t].owes => op \in {"roles", "rlock", "build", "put"}
    BY DEF May
<1>5. /\ roles \in Nat /\ roles # 0 /\ enabled \in BOOLEAN /\ crossed \in BOOLEAN
      /\ granted \in Nat /\ seenRoles \in [Tasks -> Nat]
    BY DEF RolesFit
<1>6. CASE op \in Look
  <2>1. /\ seenRoles' = seenRoles /\ granted' = granted /\ roles' = roles /\ enabled' = enabled
        /\ crossed' \in BOOLEAN /\ runs' = runs /\ failures' = failures
      BY <1>6, <1>5 DEF Look, Ends, LookAtAccess
  <2>2. "put" \notin hold[t].owes /\ "roles" \notin hold[t].owes
      BY <1>4, <1>6 DEF Look
  <2>3. ("put" \in q[t].owes <=> "roles" \in q[t].owes)
      BY <1>2, <2>2 DEF LoadsGo
  <2>4. \A u \in Tasks : seenRoles[u] # 0 <=> "put" \in q[u].owes /\ "roles" \notin q[u].owes
      BY <1>3, <2>2, <2>3 DEF RolesFit
  <2>5. \A u \in Tasks : "roles" \in q[u].owes => "put" \in q[u].owes
      BY <1>3, <2>3 DEF RolesFit
  <2>6. QED
      BY <1>5, <2>1, <2>4, <2>5 DEF RolesFit
<1>7. CASE op = "roles"
  <2>1. /\ seenRoles' = [seenRoles EXCEPT ![t] = roles] /\ granted' = granted /\ roles' = roles
        /\ enabled' = enabled /\ crossed' \in BOOLEAN /\ runs' = runs /\ failures' = failures
      BY <1>7, <1>5 DEF Look, Ends, LoadRoles, RolesFit
  <2>2. OwesGo(hold, q, t, op)
      BY <1>7 DEF Look
  <2>3. "put" \in q[t].owes /\ "roles" \notin q[t].owes
      BY <1>2, <1>4, <1>7, <2>2 DEF RolesFit
  <2>4. QED
      BY <1>3, <1>5, <2>1, <2>3 DEF RolesFit
<1>8. CASE op = "put"
  <2>1. /\ seenRoles' = [seenRoles EXCEPT ![t] = 0] /\ granted' = seenRoles[t] /\ roles' = roles
        /\ enabled' = enabled /\ crossed' = crossed /\ runs' = runs /\ failures' = failures
      BY <1>8, <1>5 DEF Look, Ends, PutAccess, RolesFit
  <2>2. OwesGo(hold, q, t, op)
      BY <1>8 DEF Look
  <2>3. "put" \notin q[t].owes /\ "roles" \notin q[t].owes
      BY <1>2, <1>4, <1>8, <2>2
  <2>4. QED
      BY <1>3, <1>5, <2>1, <2>3 DEF RolesFit
<1>9. CASE op \notin Look \cup {"roles", "put"}
  <2>1. /\ seenRoles' = seenRoles /\ granted' = granted /\ roles' \in Nat /\ roles' # 0
        /\ enabled' \in BOOLEAN /\ crossed' = crossed /\ runs' = runs /\ failures' = failures
    <3>1. CASE op \in Ends
      <4>1. roles' \in {roles, roles + 1} /\ enabled' \in BOOLEAN
          BY <3>1 DEF EndTransaction
      <4>2. seenRoles' = seenRoles /\ granted' = granted /\ crossed' = crossed
            /\ runs' = runs /\ failures' = failures
          BY <1>9, <3>1
      <4>3. roles' \in Nat /\ roles' # 0
          BY <1>5, <4>1
      <4>4. QED
          BY <4>1, <4>2, <4>3
    <3>2. CASE op \notin Ends
        BY <1>5, <1>9, <3>2
    <3>3. QED
        BY <3>1, <3>2
  <2>2. OwesGo(hold, q, t, op)
      BY <1>9
  <2>3. QED
      BY <1>2, <1>3, <1>5, <1>9, <2>1, <2>2 DEF RolesFit
<1>10. QED
    BY <1>6, <1>7, <1>8, <1>9

LEMMA ComeGo ==
    ASSUME NEW hold, NEW q, NEW t \in Tasks, NEW op \in Ops, hold \in [Tasks -> Held],
           todo[t] # <<>>, Head(todo[t]) = op, May(hold[t], op), Goes(hold, q, t, op),
           VersionsFit(hold), Comes(hold), failures = 0,
           OwesGo(hold, q, t, op) \/ (op \in Look /\ access # 0 /\ LoadsGo(hold, q, t, op))
               \/ (op = "access" /\ LoadsGo(hold, q, t, op)),
           op \in Ends => EndTransaction(t), op = "saveElsewhere" => SaveElsewhere(t),
           op = "read" => ReadSchema(t), op = "store" => StoreSchema(t),
           op = "json" => CopyJson(t), op = "icsGet" => GetIcs(t), op = "icsReset" => ResetIcs(t),
           op = "build" => BuildAccess(t), op = "put" => PutAccess(t),
           op = "renew" /\ access # 0 => LoadsGo(hold, q, t, op),
           op \notin {"save", "saveElsewhere"} => UNCHANGED stored,
           op \notin {"read", "store", "build", "put"} => UNCHANGED seen,
           op # "store" => UNCHANGED maps, op # "json" => UNCHANGED json,
           op \notin {"icsGet", "icsReset"} => UNCHANGED icsField,
           op # "put" => UNCHANGED <<access, granted>>
    PROVE  SchemaComes(q)' /\ JsonComes(q)' /\ IcsComes(q)' /\ AccessComes(q)'
<1>1. hold[t] \in Held
    OBVIOUS
<1>2. ASSUME OwesGo(hold, q, t, op)
      PROVE  /\ "read" \in q[t].owes <=> op \in {"save", "saveElsewhere"}
                                         \/ ("read" \in hold[t].owes /\ op # "read")
             /\ "icsReset" \in q[t].owes <=> op \in {"save", "saveElsewhere"}
                                             \/ ("icsReset" \in hold[t].owes /\ op # "icsReset")
             /\ "json" \in q[t].owes <=> op = "store" \/ ("json" \in hold[t].owes /\ op # "json")
             /\ "renew" \in q[t].owes <=> op \in {"store", "grant"}
                                          \/ ("renew" \in hold[t].owes /\ op # "renew")
             /\ "put" \in q[t].owes <=> "put" \in hold[t].owes /\ op # "put"
    BY <1>1, <1>2, AfterOwes DEF OwesGo
<1>3. ASSUME LoadsGo(hold, q, t, op), op \in Look
      PROVE  /\ "read" \in hold[t].owes => "read" \in q[t].owes
             /\ "icsReset" \in hold[t].owes => "icsReset" \in q[t].owes
             /\ "json" \in hold[t].owes => "json" \in q[t].owes
             /\ "put" \in q[t].owes
    BY <1>3 DEF LoadsGo, Look
<1>4. \A u \in Tasks \ {t} : q[u].owes = hold[u].owes
    BY DEF OwesGo, LoadsGo
<1>5. "schema" \in q[t].keeps <=> op = "read" \/ ("schema" \in hold[t].keeps /\ op # "store")
    BY <1>1, AfterKeeps DEF Goes
<1>6. \A u \in Tasks \ {t} : "schema" \in q[u].keeps <=> "schema" \in hold[u].keeps
    BY DEF Goes
<1>7. /\ op = "store" => "schema" \in hold[t].keeps
      /\ op = "put" => "access" \in hold[t].keeps
      /\ "schema" \in hold[t].keeps => op = "store"
    BY DEF May, Gives, Within
<1>8. /\ cached \in Nat /\ json \in Nat /\ access \in Nat /\ db \in Nat /\ icsField \in Nat
      /\ seen \in [Tasks -> Nat] /\ cached <= db
    BY DEF VersionsFit
<1>9. SchemaComes(hold) /\ JsonComes(hold) /\ IcsComes(hold) /\ AccessComes(hold)
    BY DEF Comes
<1>10. OwesGo(hold, q, t, op) \/ (LoadsGo(hold, q, t, op) /\ op \in Look)
    BY DEF Look
<1>11. ASSUME op \notin Look PROVE OwesGo(hold, q, t, op)
    BY <1>10, <1>11
<1>12. SchemaComes(q)'
  <2>1. CASE op \in {"save", "saveElsewhere"}
    <3>1. "read" \in q[t].owes
        BY <1>2, <1>11, <2>1 DEF Look
    <3>2. QED
        BY <3>1 DEF SchemaComes
  <2>2. CASE op = "read"
    <3>1. seen'[t] = db' /\ "schema" \in q[t].keeps
        BY <1>5, <1>8, <2>2 DEF ReadSchema, stored
    <3>2. QED
        BY <3>1 DEF SchemaComes
  <2>3. CASE op = "store"
    <3>1. /\ cached' = seen[t] /\ seen' = [seen EXCEPT ![t] = 0] /\ db' = db
          /\ cached <= seen[t] /\ seen[t] <= db /\ seen[t] \in Nat
        BY <1>7, <1>8, <2>3 DEF StoreSchema, stored, VersionsFit
    <3>2. SUFFICES ASSUME seen[t] # db
                   PROVE  \E u \in Tasks : "read" \in q[u].owes
                                           \/ ("schema" \in q[u].keeps /\ seen'[u] = db')
        BY <3>1 DEF SchemaComes
    <3>3. cached # db
        BY <1>8, <3>1, <3>2
    <3>4. PICK u \in Tasks : "read" \in hold[u].owes \/ ("schema" \in hold[u].keeps /\ seen[u] = db)
        BY <1>9, <3>3 DEF SchemaComes
    <3>5. "read" \in hold[t].owes => "read" \in q[t].owes
        BY <1>2, <1>11, <2>3 DEF Look
    <3>6. QED
        BY <1>4, <1>6, <1>8, <3>1, <3>2, <3>4, <3>5
  <2>4. CASE op \notin {"save", "saveElsewhere", "read", "store"}
    <3>1. cached' = cached /\ db' = db
        BY <2>4 DEF maps, stored
    <3>2. \A u \in Tasks \ {t} : seen'[u] = seen[u]
        BY <1>8, <2>4 DEF BuildAccess, PutAccess
    <3>3. "read" \in hold[t].owes => "read" \in q[t].owes
        BY <1>2, <1>3, <1>10, <2>4
    <3>4. "schema" \notin hold[t].keeps
        BY <1>7, <2>4
    <3>5. QED
        BY <1>4, <1>6, <1>9, <3>1, <3>2, <3>3, <3>4 DEF SchemaComes
  <2>5. QED
      BY <2>1, <2>2, <2>3, <2>4
<1>13. JsonComes(q)'
  <2>1. CASE op = "store"
    <3>1. "json" \in q[t].owes
        BY <1>2, <1>11, <2>1 DEF Look
    <3>2. QED
        BY <3>1 DEF JsonComes
  <2>2. CASE op = "json"
      BY <2>2 DEF JsonComes, CopyJson, maps
  <2>3. CASE op \notin {"store", "json"}
    <3>1. "json" \in hold[t].owes => "json" \in q[t].owes
        BY <1>2, <1>3, <1>10, <2>3
    <3>2. QED
        BY <1>4, <1>9, <2>3, <3>1 DEF JsonComes, maps
  <2>4. QED
      BY <2>1, <2>2, <2>3
<1>14. IcsComes(q)'
  <2>1. CASE op \in {"save", "saveElsewhere"}
    <3>1. "icsReset" \in q[t].owes
        BY <1>2, <1>11, <2>1 DEF Look
    <3>2. QED
        BY <3>1 DEF IcsComes
  <2>2. CASE op = "icsReset"
      BY <2>2 DEF IcsComes, ResetIcs
  <2>3. CASE op \notin {"save", "saveElsewhere", "icsReset"}
    <3>1. "icsReset" \in hold[t].owes => "icsReset" \in q[t].owes
        BY <1>2, <1>3, <1>10, <2>3
    <3>2. db' = db /\ icsField' \in {icsField, db}
        BY <2>3 DEF stored, GetIcs
    <3>3. QED
        BY <1>4, <1>9, <3>1, <3>2 DEF IcsComes
  <2>4. QED
      BY <2>1, <2>2, <2>3
<1>15. AccessComes(q)'
  <2>1. CASE op = "store"
    <3>1. "renew" \in q[t].owes
        BY <1>2, <1>11, <2>1 DEF Look
    <3>2. QED
        BY <3>1 DEF AccessComes
  <2>2. CASE op = "put"
    <3>1. access' = seen[t] /\ cached' = cached
        BY <2>2 DEF PutAccess, maps
    <3>2. seen[t] = cached
        BY <1>7, <2>2 DEF VersionsFit
    <3>3. QED
        BY <3>1, <3>2 DEF AccessComes
  <2>3. CASE op \notin {"store", "put"}
    <3>1. access' = access /\ cached' = cached
        BY <2>3 DEF maps
    <3>2. access = 0 \/ ("renew" \in hold[t].owes \/ "put" \in hold[t].owes
                         => "renew" \in q[t].owes \/ "put" \in q[t].owes)
        BY <1>2, <1>3, <1>10, <2>3 DEF Look
    <3>3. QED
        BY <1>4, <1>9, <3>1, <3>2 DEF AccessComes
  <2>4. QED
      BY <2>1, <2>2, <2>3
<1>16. QED
    BY <1>12, <1>13, <1>14, <1>15

LEMMA RolesComeGo ==
    ASSUME NEW hold, NEW q, NEW t \in Tasks, NEW op \in Ops, hold \in [Tasks -> Held],
           todo[t] # <<>>, Head(todo[t]) = op, May(hold[t], op),
           RolesFit(hold), RolesCome(hold),
           OwesGo(hold, q, t, op) \/ (op \in Look /\ LoadsGo(hold, q, t, op)),
           op = "access" /\ access = 0 => LoadsGo(hold, q, t, op),
           op = "renew" /\ access # 0 => LoadsGo(hold, q, t, op),
           op \in Ends => EndTransaction(t), op \in Look => LookAtAccess(t),
           op = "roles" => LoadRoles(t), op = "put" => PutAccess(t),
           op # "put" => UNCHANGED <<access, granted>>,
           op \notin {"roles", "put"} => UNCHANGED seenRoles,
           op \notin {"roles"} \cup Look => UNCHANGED crossed,
           op \notin Ends => UNCHANGED <<roles, enabled>>,
           UNCHANGED <<runs, failures>>
    PROVE  RolesCome(q)'
<1> SUFFICES ASSUME failures = 0, ~crossed', enabled'
             PROVE  \/ \E u \in Tasks : "renew" \in q[u].owes \/ "roles" \in q[u].owes
                    \/ /\ \A u \in Tasks : seenRoles'[u] \in {0, roles'}
                       /\ \/ access' = 0 \/ granted' = roles'
                          \/ \E u \in Tasks : seenRoles'[u] = roles'
    BY DEF RolesCome
<1>1. hold[t] \in Held
    OBVIOUS
<1>2. ASSUME OwesGo(hold, q, t, op)
      PROVE  /\ "roles" \in q[t].owes <=> "roles" \in hold[t].owes /\ op # "roles"
             /\ "renew" \in q[t].owes <=> op \in {"store", "grant"}
                                          \/ ("renew" \in hold[t].owes /\ op # "renew")
    BY <1>1, <1>2, AfterOwes DEF OwesGo
<1>3. \A u \in Tasks \ {t} : q[u].owes = hold[u].owes
    BY DEF OwesGo, LoadsGo
<1>4. LoadsGo(hold, q, t, op) => "roles" \in q[t].owes
    BY DEF LoadsGo
<1>5. /\ roles \in Nat /\ roles # 0 /\ enabled \in BOOLEAN /\ crossed \in BOOLEAN
      /\ granted \in Nat /\ seenRoles \in [Tasks -> Nat]
    BY DEF RolesFit
<1>6. CASE LoadsGo(hold, q, t, op)
    BY <1>4, <1>6
<1>7. CASE op \in {"grant", "store"} /\ OwesGo(hold, q, t, op)
    BY <1>2, <1>7
<1>8. CASE op \in Ends \ {"grant"}
  <2>1. /\ roles' = IF op = "disable" THEN roles + 1 ELSE roles
        /\ enabled' = (enabled /\ op # "disable")
      BY <1>5, <1>8 DEF EndTransaction, At, Ends
  <2>2. roles' = roles /\ enabled /\ crossed' = crossed /\ seenRoles' = seenRoles
        /\ access' = access /\ granted' = granted
      BY <2>1, <1>8 DEF Ends, Look
  <2>3. OwesGo(hold, q, t, op)
      BY <1>8 DEF Ends, Look
  <2>4. /\ "roles" \in hold[t].owes => "roles" \in q[t].owes
        /\ "renew" \in hold[t].owes => "renew" \in q[t].owes
      BY <1>2, <1>8, <2>3 DEF Ends
  <2>5. QED
      BY <1>3, <2>2, <2>4 DEF RolesCome
<1>9. CASE op = "roles"
  <2>1. /\ seenRoles' = [seenRoles EXCEPT ![t] = roles] /\ crossed' = (crossed \/ Loading)
        /\ UNCHANGED <<access, granted, roles, enabled>>
      BY <1>9 DEF LoadRoles, Ends
  <2>2. ~Loading
      BY <2>1
  <2>3. \A u \in Tasks : seenRoles[u] = 0
      BY <2>2 DEF Loading
  <2>4. seenRoles'[t] = roles' /\ \A u \in Tasks : seenRoles'[u] \in {0, roles'}
      BY <1>5, <2>1, <2>3
  <2>5. QED
      BY <2>4
<1>10. CASE op = "put"
  <2>1. /\ granted' = seenRoles[t] /\ seenRoles' = [seenRoles EXCEPT ![t] = 0]
        /\ UNCHANGED <<crossed, roles, enabled>>
      BY <1>10 DEF PutAccess, Ends, Look
  <2>2. OwesGo(hold, q, t, op)
      BY <1>10 DEF Look
  <2>3. /\ "roles" \in hold[t].owes => "roles" \in q[t].owes
        /\ "renew" \in hold[t].owes => "renew" \in q[t].owes
      BY <1>2, <1>10, <2>2
  <2>4. seenRoles[t] # 0
    <3>1. "put" \in hold[t].owes /\ "roles" \notin hold[t].owes
        BY <1>10 DEF May
    <3>2. QED
        BY <3>1 DEF RolesFit
  <2>5. CASE \E u \in Tasks : "renew" \in hold[u].owes \/ "roles" \in hold[u].owes
      BY <1>3, <2>3, <2>5
  <2>6. CASE \A u \in Tasks : seenRoles[u] \in {0, roles}
    <3>1. granted' = roles'
        BY <2>1, <2>4, <2>6
    <3>2. \A u \in Tasks : seenRoles'[u] \in {0, roles'}
        BY <1>5, <2>1, <2>6
    <3>3. QED
        BY <3>1, <3>2
  <2>7. QED
      BY <2>1, <2>5, <2>6 DEF RolesCome
<1>11. CASE op = "access" /\ OwesGo(hold, q, t, op)
  <2>1. /\ UNCHANGED <<access, granted, roles, enabled, seenRoles>>
        /\ ~crossed
      BY <1>5, <1>11 DEF LookAtAccess, Look, Ends
  <2>2. /\ "roles" \in hold[t].owes => "roles" \in q[t].owes
        /\ "renew" \in hold[t].owes => "renew" \in q[t].owes
      BY <1>2, <1>11
  <2>3. QED
      BY <1>3, <2>1, <2>2 DEF RolesCome
<1>12. CASE op = "renew" /\ access = 0
  <2>1. /\ UNCHANGED <<access, granted, roles, enabled, seenRoles>>
        /\ ~Loading
      BY <1>5, <1>12 DEF LookAtAccess, Look, Ends, At
  <2>2. \A u \in Tasks : seenRoles'[u] = 0
      BY <2>1 DEF Loading
  <2>3. QED
      BY <1>12, <2>1, <2>2
<1>13. CASE op \notin {"grant", "store", "roles", "put", "access", "renew"} \cup Ends
  <2>1. UNCHANGED <<access, granted, roles, enabled, seenRoles, crossed>>
      BY <1>13 DEF Look
  <2>2. OwesGo(hold, q, t, op)
      BY <1>13 DEF Look
  <2>3. /\ "roles" \in hold[t].owes => "roles" \in q[t].owes
        /\ "renew" \in hold[t].owes => "renew" \in q[t].owes
      BY <1>2, <1>13, <2>2
  <2>4. QED
      BY <1>3, <2>1, <2>3 DEF RolesCome
<1>14. QED
    BY <1>6, <1>7, <1>8, <1>9, <1>10, <1>11, <1>12, <1>13 DEF Look, Ends

-----------------------------------------------------------------------------
(* Every step keeps the invariant                                            *)

\* The load of an access that takes the place of a look at it leads to the same.
LEMMA Expanded ==
    ASSUME NEW h \in Held, NEW op \in Look, NEW r, May(h, op), Fits(r, After(h, op)),
           NEW h2, h2 = [After(h, op) EXCEPT !.owes = (h.owes \ {op}) \cup {"roles", "put"}]
    PROVE  Fits(LoadAccess \o r, h2) /\ h2 \in Held
<1> DEFINE k == h.keeps  c == h.conns  n == h.reads  o == h.owes \ {op}
           g0 == H(k, c, n, o \cup {"roles", "put"})
           g1 == H(k, c, n, o \cup {"put"})
           g2 == H(k, c, n + 1, o \cup {"put"})
           g3 == H(k \cup {"access"}, c, n + 1, o \cup {"put"})
           g4 == H(k, c, n + 1, o)
           g5 == H(k, c, n, o)
<1>1. k \in SUBSET {"slot"} /\ c \in 0 .. 2 /\ n \in Nat /\ o \in SUBSET Debts
      /\ "roles" \notin o /\ "put" \notin o
  <2>1. \A x \in k : x = "slot"
      BY DEF May, Within, Look, InLock, Held, Things
  <2>2. QED
      BY <2>1 DEF Held, May, Look
<1>2. After(h, op) = g5
  <2>1. Gives(op) = {} /\ Takes(op) = {} /\ Owes(op) = {}
      BY DEF Gives, Takes, Owes, Look
  <2>2. op # "begin" /\ op \notin Ends /\ op # "rlock" /\ op # "runlock"
      BY DEF Look, Ends
  <2>3. QED
      BY <2>1, <2>2 DEF After, H
<1>3. h2 = g0
    BY <1>2 DEF H
<1> HIDE DEF k, c, n, o
<1>4. g0 \in Held /\ g1 \in Held /\ g2 \in Held /\ g3 \in Held /\ g4 \in Held /\ g5 \in Held
    BY <1>1 DEF H, Held, Things, Debts
<1>5. Leads(g0, "roles", g1)
  <2>1. May(g0, "roles")
      BY <1>1 DEF H, May, Within, Gives, Ops, InLock, Ends
  <2>2. After(g0, "roles") = g1
      BY <1>1 DEF H, After, Takes, Gives, Owes, Ends
  <2>3. QED
      BY <1>4, <2>1, <2>2 DEF Leads, Ops
<1>6. Leads(g1, "rlock", g2)
  <2>1. May(g1, "rlock")
      BY <1>1 DEF H, May, Within, Gives, Ops, InLock, Ends
  <2>2. After(g1, "rlock") = g2
      BY <1>1 DEF H, After, Takes, Gives, Owes, Ends, Debts
  <2>3. QED
      BY <1>4, <2>1, <2>2 DEF Leads, Ops
<1>7. Leads(g2, "build", g3)
  <2>1. May(g2, "build")
      BY <1>1 DEF H, May, Within, Gives, Ops, InLock, Ends
  <2>2. After(g2, "build") = g3
      BY <1>1 DEF H, After, Takes, Gives, Owes, Ends, Debts
  <2>3. QED
      BY <1>4, <2>1, <2>2 DEF Leads, Ops
<1>8. Leads(g3, "put", g4)
  <2>1. May(g3, "put")
      BY <1>1 DEF H, May, Within, Gives, Ops, InLock, Ends
  <2>2. After(g3, "put") = g4
      BY <1>1 DEF H, After, Takes, Gives, Owes, Ends, Debts
  <2>3. QED
      BY <1>4, <2>1, <2>2 DEF Leads, Ops
<1>9. Leads(g4, "runlock", g5)
  <2>1. May(g4, "runlock")
      BY <1>1 DEF H, May, Within, Gives, Ops, InLock, Ends
  <2>2. Takes("runlock") = {} /\ Gives("runlock") = {} /\ Owes("runlock") = {} /\ (n + 1) - 1 = n
        /\ o \ {"runlock"} = o
      BY <1>1 DEF Takes, Gives, Owes, Debts
  <2>3. After(g4, "runlock") = g5
      BY <2>2 DEF H, After, Ends
  <2>4. QED
      BY <1>4, <2>1, <2>3 DEF Leads, Ops
<1> HIDE DEF g0, g1, g2, g3, g4, g5
<1>10. Piece(LoadAccess, g0, g5)
    BY <1>5, <1>6, <1>7, <1>8, <1>9, Five DEF LoadAccess
<1>11. QED
    BY <1>2, <1>3, <1>4, <1>10, PieceJoin DEF Fits

LEMMA AfterRLock ==
    ASSUME NEW h \in Held
    PROVE  LET k == After(h, "rlock") IN
           /\ k.keeps = h.keeps /\ k.conns = h.conns /\ k.owes = h.owes /\ k.reads = h.reads + 1
<1>1. Gives("rlock") = {} /\ Takes("rlock") = {} /\ Owes("rlock") = {} /\ "rlock" \notin Ends
    BY DEF Gives, Takes, Owes, Ends
<1>2. h.owes \ {"rlock"} = h.owes
    BY DEF Held, Debts
<1>3. QED
    BY <1>1, <1>2 DEF After

LEMMA AllGo ==
    ASSUME NEW hold, NEW q, Inv(hold), NEW t \in Tasks, Step(t), NEW op \in Ops,
           todo[t] # <<>>, op = Head(todo[t]), Goes(hold, q, t, op),
           OwesGo(hold, q, t, op) \/ (op \in Look /\ LoadsGo(hold, q, t, op)),
           op = "access" => (access = 0 => LoadsGo(hold, q, t, op)),
           op = "renew" => IF access # 0 THEN LoadsGo(hold, q, t, op) ELSE OwesGo(hold, q, t, op)
    PROVE  /\ SlotsFit(q)' /\ PoolFits(q)' /\ MutexesFit(q)' /\ VersionsFit(q)' /\ RolesFit(q)'
           /\ Comes(q)' /\ RolesCome(q)'
           /\ cached' >= cached /\ json' >= json /\ access' >= access
<1>1. /\ Shape(hold) /\ SlotsFit(hold) /\ PoolFits(hold) /\ MutexesFit(hold) /\ LocksFit(hold)
      /\ VersionsFit(hold) /\ RolesFit(hold) /\ Comes(hold) /\ RolesCome(hold)
      /\ hold \in [Tasks -> Held]
    BY DEF Inv, Shape
<1>2. May(hold[t], op)
    BY <1>1, Doing
<1>3. SlotsFit(q)'
    BY <1>1, <1>2, StepEffect, SlotsGo
<1>4. PoolFits(q)'
    BY <1>1, <1>2, StepEffect, PoolGoes
<1>5. MutexesFit(q)'
    BY <1>1, <1>2, StepEffect, MutexesGo
<1>6. op = "store" => \A u \in Tasks \ {t} :
          "schema" \notin hold[u].keeps /\ "access" \notin hold[u].keeps
  <2>1. op = "store" => "lock" \in hold[t].keeps
      BY <1>2 DEF May, InLock
  <2>2. QED
      BY <1>1, <2>1, Alone
<1>7. VersionsFit(q)' /\ cached' >= cached /\ json' >= json /\ access' >= access
    BY <1>1, <1>2, <1>6, StepEffect, VersionsGo
<1>8. RolesFit(q)'
    BY <1>1, <1>2, StepEffect, RolesGo
<1>9. RolesCome(q)'
    BY <1>1, <1>2, StepEffect, RolesComeGo
<1>10. Comes(q)'
  <2>1. failures' = failures
      BY StepEffect
  <2>2. SUFFICES ASSUME failures = 0
                 PROVE  SchemaComes(q)' /\ JsonComes(q)' /\ IcsComes(q)' /\ AccessComes(q)'
      BY <2>1 DEF Comes
  <2>3. OwesGo(hold, q, t, op) \/ (op \in Look /\ access # 0 /\ LoadsGo(hold, q, t, op))
               \/ (op = "access" /\ LoadsGo(hold, q, t, op))
      BY DEF Look
  <2>4. QED
      BY <1>1, <1>2, <2>2, <2>3, StepEffect, ComeGo
<1>11. QED
    BY <1>3, <1>4, <1>5, <1>7, <1>8, <1>9, <1>10

Newer == cached' >= cached /\ json' >= json /\ access' >= access

LEMMA StepKeeps ==
    ASSUME IInv, NEW t \in Tasks, Step(t)
    PROVE  IInv' /\ Newer
<1>1. PICK hold \in [Tasks -> Held] : Inv(hold)
    BY DEF IInv
<1>2. /\ Shape(hold) /\ LocksFit(hold) /\ todo \in [Tasks -> Seq(Ops)] /\ hold[t] \in Held
      /\ VersionsFit(hold)
    BY <1>1 DEF Inv, Shape
<1>3. todo[t] # <<>>
    BY DEF Step, At, TakeSlot, FreeSlot, Begin, SetConfig, EndTransaction, SaveElsewhere, RLock,
       RUnlock, Lock, Drain, Unlock, Query, ReadSchema, StoreSchema, CopyJson, LockIcs, UnlockIcs,
       GetIcs, ResetIcs, LockPresets, UnlockPresets, GetPreset, LookAtAccess, LoadRoles,
       BuildAccess, PutAccess
<1>4. PICK op \in Ops : op = Head(todo[t])
    BY <1>2, <1>3, Doing
<1>5. /\ May(hold[t], op) /\ After(hold[t], op) \in Held
      /\ Fits(Tail(todo[t]), After(hold[t], op)) /\ Tail(todo[t]) \in Seq(Ops)
    BY <1>2, <1>3, <1>4, Doing, PieceTail DEF Fits, Piece
<1> DEFINE q == [hold EXCEPT ![t] = After(hold[t], op)]
<1>6. q \in [Tasks -> Held] /\ q[t] = After(hold[t], op) /\ \A u \in Tasks \ {t} : q[u] = hold[u]
    BY <1>5
<1> HIDE DEF q
<1>7. Goes(hold, q, t, op) /\ OwesGo(hold, q, t, op)
    BY <1>6 DEF Goes, OwesGo
<1>8. ASSUME Advance(t)
      PROVE  Shape(q)' /\ \A u \in Tasks \ {t} : todo'[u] = todo[u]
    BY <1>2, <1>5, <1>6, <1>8 DEF Advance, Shape
<1>9. ASSUME op \notin Look, Shape(q)', LocksFit(q)'
      PROVE  IInv' /\ Newer
  <2>1. /\ SlotsFit(q)' /\ PoolFits(q)' /\ MutexesFit(q)' /\ VersionsFit(q)' /\ RolesFit(q)'
        /\ Comes(q)' /\ RolesCome(q)' /\ Newer
      BY <1>1, <1>3, <1>4, <1>7, <1>9, AllGo DEF Look, Newer
  <2>2. Inv(q)'
      BY <1>9, <2>1 DEF Inv
  <2>3. QED
      BY <1>6, <2>1, <2>2 DEF IInv
<1>10. CASE op \notin {"rlock", "unlock"} \cup Look
  <2>1. Advance(t)
      BY <1>3, <1>4, <1>10, StepEffect
  <2>2. LocksFit(q)'
    <3>1. q[t].reads = After(hold[t], op).reads /\ \A u \in Tasks \ {t} : q[u].reads = hold[u].reads
        BY <1>6
    <3>2. UNCHANGED locks \/ op \in {"runlock", "lock"}
        BY <1>3, <1>4, <1>10, StepEffect
    <3>3. /\ op = "runlock" => RUnlock(t)
          /\ op = "lock" => Lock(t)
          /\ op = "drain" => Drain(t)
        BY <1>3, <1>4, StepEffect
    <3>4. QED
        BY <1>2, <1>3, <1>4, <1>5, <1>7, <1>8, <1>10, <2>1, <3>1, <3>2, <3>3, LocksGo
  <2>3. QED
      BY <1>8, <1>9, <1>10, <2>1, <2>2
<1>11. CASE op = "rlock"
  <2>1. RLock(t) /\ None \notin Tasks
      BY <1>3, <1>4, <1>11, StepEffect, SchemaReloadAssumption
  <2>2. Gives(op) = {} /\ Takes(op) = {} /\ op \notin Ends /\ op \notin Look
      BY <1>11 DEF Gives, Takes, Ends, Look
  <2>3. CASE writer = None
    <3>1. /\ readers' = [readers EXCEPT ![t] = @ + 1] /\ Advance(t)
          /\ UNCHANGED <<writer, left, waiting>>
        BY <2>1, <2>3 DEF RLock
    <3>2. \A u \in Tasks : "next" \notin hold[u].keeps /\ "lock" \notin hold[u].keeps
        BY <1>2, <2>1, <2>3 DEF LocksFit
    <3>3. \A u \in Tasks : q[u].keeps = hold[u].keeps
      <4>1. q[t] = After(hold[t], "rlock")
          BY <1>6, <1>11
      <4>2. q[t].keeps = hold[t].keeps
          BY <1>2, <4>1, AfterRLock
      <4>3. QED
          BY <1>6, <4>2
    <3>4. q[t].reads = hold[t].reads + 1
        BY <1>6, <1>11 DEF After
    <3>5. waiting = {}
        BY <1>2, <2>3 DEF LocksFit
    <3>6. readers' \in [Tasks -> Nat] /\ \A u \in Tasks : readers'[u] = q[u].reads
        BY <1>2, <1>6, <3>1, <3>4 DEF LocksFit
    <3>7. LocksFit(q)'
        BY <1>2, <2>1, <2>3, <3>1, <3>2, <3>3, <3>5, <3>6 DEF LocksFit
    <3>8. QED
        BY <1>8, <1>9, <2>2, <3>1, <3>7
  <2>4. CASE writer # None
    <3>1. waiting' = waiting \cup {t} /\ UNCHANGED <<readers, todo, writer, left>>
        BY <2>1, <2>4 DEF RLock
    <3>2. LocksFit(hold)'
        BY <1>2, <1>3, <1>4, <1>11, <2>4, <3>1 DEF LocksFit
    <3>3. Shape(hold)'
        BY <1>2, <3>1 DEF Shape
    <3>4. Goes(hold, hold, t, op) /\ OwesGo(hold, hold, t, op)
        BY <1>2, <1>11, AfterRLock DEF Goes, OwesGo, Shape
    <3>5. /\ SlotsFit(hold)' /\ PoolFits(hold)' /\ MutexesFit(hold)' /\ VersionsFit(hold)'
          /\ RolesFit(hold)' /\ Comes(hold)' /\ RolesCome(hold)' /\ Newer
        BY <1>1, <1>3, <1>4, <1>11, <3>4, AllGo DEF Newer
    <3>6. Inv(hold)'
        BY <3>2, <3>3, <3>5 DEF Inv
    <3>7. QED
        BY <1>1, <3>5, <3>6 DEF IInv
  <2>5. QED
      BY <2>3, <2>4
<1>12. CASE op \in Look
  <2>1. LookAtAccess(t)
      BY <1>3, <1>4, <1>12, StepEffect
  <2> DEFINE loads == op = "renew" <=> access # 0
             r == IF loads
                  THEN [hold EXCEPT ![t] = [After(hold[t], op) EXCEPT
                                               !.owes = (hold[t].owes \ {op}) \cup {"roles", "put"}]]
                  ELSE q
  <2>2. todo' = [todo EXCEPT ![t] = IF loads THEN LoadAccess \o Tail(@) ELSE Tail(@)]
      BY <1>3, <1>4, <2>1 DEF LookAtAccess, At
  <2>3. UNCHANGED locks
      BY <2>1 DEF LookAtAccess
  <2>4. PICK ld \in BOOLEAN : ld = loads
      OBVIOUS
  <2>5. Gives(op) = {} /\ Takes(op) = {} /\ op \notin Ends /\ op # "rlock" /\ op # "runlock"
        /\ op # "begin"
      BY <1>12 DEF Gives, Takes, Ends, Look
  <2>6. PICK p \in [Tasks -> Held] :
            /\ \A u \in Tasks \ {t} : p[u] = hold[u]
            /\ Goes(hold, p, t, op)
            /\ p[t].reads = hold[t].reads
            /\ IF ld THEN LoadsGo(hold, p, t, op) ELSE OwesGo(hold, p, t, op)
            /\ Fits(IF ld THEN LoadAccess \o Tail(todo[t]) ELSE Tail(todo[t]), p[t])
    <3>1. CASE ~ld
      <4>1. q[t].reads = hold[t].reads
          BY <1>6, <2>5 DEF After
      <4>2. QED
          BY <1>5, <1>6, <1>7, <3>1, <4>1
    <3>2. CASE ld
      <4> DEFINE h2 == [After(hold[t], op) EXCEPT !.owes = (hold[t].owes \ {op}) \cup {"roles", "put"}]
                 p == [hold EXCEPT ![t] = h2]
      <4>1. Fits(LoadAccess \o Tail(todo[t]), h2) /\ h2 \in Held
          BY <1>2, <1>5, <1>12, Expanded
      <4>2. /\ h2.keeps = After(hold[t], op).keeps /\ h2.conns = After(hold[t], op).conns
            /\ h2.reads = hold[t].reads /\ h2.owes = (hold[t].owes \ {op}) \cup {"roles", "put"}
          BY <2>5 DEF After
      <4> HIDE DEF h2
      <4>3. p \in [Tasks -> Held] /\ p[t] = h2 /\ \A u \in Tasks \ {t} : p[u] = hold[u]
          BY <4>1
      <4> HIDE DEF p
      <4>4. Goes(hold, p, t, op) /\ LoadsGo(hold, p, t, op)
          BY <4>2, <4>3 DEF Goes, LoadsGo
      <4>5. QED
          BY <3>2, <4>1, <4>2, <4>3, <4>4
    <3>3. QED
        BY <3>1, <3>2
  <2>7. Shape(p)' /\ \A u \in Tasks \ {t} : todo'[u] = todo[u]
    <3>1. todo'[t] = IF ld THEN LoadAccess \o Tail(todo[t]) ELSE Tail(todo[t])
        BY <1>2, <2>2, <2>4
    <3>2. \A u \in Tasks \ {t} : todo'[u] = todo[u]
        BY <1>2, <2>2
    <3>3. todo'[t] \in Seq(Ops)
        BY <2>6, <3>1 DEF Fits, Piece
    <3>4. DOMAIN todo' = Tasks /\ todo' = [u \in Tasks |-> todo'[u]]
        BY <1>2, <2>2
    <3>5. todo' \in [Tasks -> Seq(Ops)]
        BY <1>2, <3>2, <3>3, <3>4
    <3>6. QED
        BY <1>2, <2>6, <3>1, <3>2, <3>5 DEF Shape
  <2>8. LocksFit(p)'
    <3>1. After(hold[t], op).reads = hold[t].reads
        BY <2>5 DEF After
    <3>2. op \notin {"runlock", "lock", "drain", "rlock", "unlock"}
        BY <1>12 DEF Look
    <3>3. \A u \in Tasks \ {t} : p[u].reads = hold[u].reads
        BY <2>6
    <3>4. QED
        BY <1>2, <1>3, <1>4, <1>5, <2>3, <2>6, <2>7, <3>1, <3>2, <3>3, LocksGo
  <2>9. /\ SlotsFit(p)' /\ PoolFits(p)' /\ MutexesFit(p)' /\ VersionsFit(p)'
        /\ RolesFit(p)' /\ Comes(p)' /\ RolesCome(p)' /\ Newer
    <3>1. /\ op = "access" => (access = 0 => ld)
          /\ op = "renew" => IF access # 0 THEN ld ELSE ~ld
        BY <1>12, <2>4
    <3>2. /\ OwesGo(hold, p, t, op) \/ LoadsGo(hold, p, t, op)
          /\ op = "access" => (access = 0 => LoadsGo(hold, p, t, op))
          /\ op = "renew" => IF access # 0 THEN LoadsGo(hold, p, t, op)
                             ELSE OwesGo(hold, p, t, op)
        BY <2>6, <3>1
    <3>3. QED
        BY <1>1, <1>3, <1>4, <1>12, <2>6, <3>2, AllGo DEF Newer
  <2>10. Inv(p)'
      BY <2>7, <2>8, <2>9 DEF Inv
  <2>11. QED
      BY <2>6, <2>9, <2>10 DEF IInv
<1>13. CASE op = "unlock"
  <2>1. Unlock(t) /\ None \notin Tasks
      BY <1>3, <1>4, <1>13, StepEffect, SchemaReloadAssumption
  <2>2. PICK W \in SUBSET Tasks : W = waiting
      BY <1>2 DEF LocksFit
  <2>3. t \notin W
      BY <1>2, <1>4, <1>13, <2>2 DEF LocksFit
  <2>4. \A u \in W : /\ todo[u] # <<>> /\ Head(todo[u]) = "rlock"
                     /\ After(hold[u], "rlock") \in Held
                     /\ Fits(Tail(todo[u]), After(hold[u], "rlock"))
                     /\ Tail(todo[u]) \in Seq(Ops)
    <3>1. TAKE u \in W
    <3>2. todo[u] # <<>> /\ Head(todo[u]) = "rlock"
        BY <1>2, <2>2 DEF LocksFit
    <3>3. /\ After(hold[u], Head(todo[u])) \in Held
          /\ Fits(Tail(todo[u]), After(hold[u], Head(todo[u])))
        BY <1>2, <3>2, Doing
    <3>4. Tail(todo[u]) \in Seq(Ops)
        BY <3>3 DEF Fits, Piece
    <3>5. QED
        BY <3>2, <3>3, <3>4
  <2> DEFINE p == [u \in Tasks |-> IF u \in W THEN After(hold[u], "rlock") ELSE q[u]]
  <2>5. /\ p \in [Tasks -> Held] /\ p[t] = After(hold[t], op)
        /\ \A u \in W : p[u] = After(hold[u], "rlock")
        /\ \A u \in Tasks \ ({t} \cup W) : p[u] = hold[u]
      BY <1>6, <2>3, <2>4
  <2> HIDE DEF p
  <2>6. \A u \in W : /\ p[u].keeps = hold[u].keeps /\ p[u].conns = hold[u].conns
                     /\ p[u].owes = hold[u].owes /\ p[u].reads = hold[u].reads + 1
    <3>1. TAKE u \in W
    <3>2. hold[u] \in Held
        BY <1>2 DEF Shape
    <3>3. QED
        BY <2>5, <3>2, AfterRLock
  <2>7. Goes(hold, p, t, op) /\ OwesGo(hold, p, t, op)
      BY <2>5, <2>6 DEF Goes, OwesGo
  <2>8. /\ SlotsFit(p)' /\ PoolFits(p)' /\ MutexesFit(p)' /\ VersionsFit(p)'
        /\ RolesFit(p)' /\ Comes(p)' /\ RolesCome(p)' /\ Newer
      BY <1>1, <1>3, <1>4, <1>13, <2>7, AllGo DEF Newer
  <2>9. /\ todo' = [u \in Tasks |-> IF u \in W \cup {t} THEN Tail(todo[u]) ELSE todo[u]]
        /\ readers' = [u \in Tasks |-> IF u \in W THEN readers[u] + 1 ELSE readers[u]]
        /\ writer' = None /\ waiting' = {} /\ left' = left
      BY <2>1, <2>2 DEF Unlock, GiveBackLock
  <2>10. Shape(p)'
    <3>1. todo' \in [Tasks -> Seq(Ops)]
        BY <1>2, <1>5, <2>4, <2>9
    <3>2. \A u \in Tasks : Fits(todo'[u], p[u])
      <4>1. TAKE u \in Tasks
      <4>2. CASE u = t
          BY <1>5, <2>5, <2>9, <4>2
      <4>3. CASE u \in W
          BY <2>4, <2>5, <2>9, <4>3
      <4>4. CASE u \notin W \cup {t}
          BY <1>2, <2>5, <2>9, <4>4 DEF Shape
      <4>5. QED
          BY <4>2, <4>3, <4>4
    <3>3. QED
        BY <2>5, <3>1, <3>2 DEF Shape
  <2>11. LocksFit(p)'
    <3>1. "lock" \in hold[t].keeps /\ writer = t
        BY <1>2, <1>5, <1>13 DEF May, Gives, LocksFit
    <3>2. "next" \notin p[t].keeps /\ "lock" \notin p[t].keeps
      <4>1. "next" \notin hold[t].keeps
          BY <1>5, <1>13 DEF May, Within
      <4>2. QED
          BY <1>2, <1>13, <2>5, <4>1, AfterKeeps
    <3>3. \A u \in Tasks \ {t} : "next" \notin hold[u].keeps /\ "lock" \notin hold[u].keeps
        BY <1>2, <3>1 DEF LocksFit
    <3>4. \A u \in Tasks : "next" \notin p[u].keeps /\ "lock" \notin p[u].keeps
        BY <2>5, <2>6, <3>2, <3>3
    <3>5. p[t].reads = hold[t].reads
        BY <1>13, <2>5 DEF After
    <3>6. readers' \in [Tasks -> Nat] /\ \A u \in Tasks : readers'[u] = p[u].reads
        BY <1>2, <2>5, <2>6, <2>9, <3>5 DEF LocksFit
    <3>7. QED
        BY <1>2, <2>1, <2>9, <3>4, <3>6 DEF LocksFit
  <2>12. Inv(p)'
      BY <2>8, <2>10, <2>11 DEF Inv
  <2>13. QED
      BY <2>5, <2>8, <2>12 DEF IInv
<1>14. QED
    BY <1>10, <1>11, <1>12, <1>13

\* A task that fails holds and owes nothing.
LEMMA SlotsFail ==
    ASSUME NEW hold, NEW q, SlotsFit(hold), NEW t \in Tasks, q[t] = Nothing,
           \A u \in Tasks \ {t} : q[u].keeps = hold[u].keeps, slots' = slots \ {t}
    PROVE  SlotsFit(q)'
<1>1. IsFiniteSet(slots') /\ Cardinality(slots') <= Cardinality(slots)
    BY FS_Subset DEF SlotsFit
<1>2. Cardinality(slots) \in Nat /\ Cardinality(slots') \in Nat
    BY <1>1, FS_CardinalityType DEF SlotsFit
<1>3. Cardinality(slots') <= RequestLimit
    BY <1>1, <1>2, SchemaReloadAssumption DEF SlotsFit
<1>4. QED
    BY <1>1, <1>3 DEF SlotsFit, Nothing

LEMMA PoolFails ==
    ASSUME NEW hold, NEW q, PoolFits(hold), NEW t \in Tasks, q[t] = Nothing,
           \A u \in Tasks \ {t} : q[u].conns = hold[u].conns,
           conns' = [conns EXCEPT ![t] = 0], free' = free \/ free' = free + conns[t]
    PROVE  PoolFits(q)'
<1> DEFINE n == conns[t]
           one == <<t, 1>>
           two == <<t, 2>>
<1>1. n \in 0 .. 2 /\ free \in Nat /\ IsFiniteSet(Taken) /\ free + Cardinality(Taken) <= PoolSize
      /\ PoolSize \in Nat
    BY SchemaReloadAssumption DEF PoolFits
<1>2. Taken' = (Taken \ {one}) \ {two}
    BY DEF Taken, PoolFits
<1>3. one \in Taken <=> n >= 1
    BY <1>1 DEF Taken
<1>4. two \in Taken \ {one} <=> n >= 2
    BY <1>1 DEF Taken
<1> HIDE DEF one, two
<1>5. /\ IsFiniteSet(Taken \ {one}) /\ Cardinality(Taken) \in Nat
      /\ Cardinality(Taken \ {one}) = IF one \in Taken THEN Cardinality(Taken) - 1 ELSE Cardinality(Taken)
  <2>1. Cardinality(Taken) \in Nat
      BY <1>1, FS_CardinalityType
  <2>2. QED
      BY <1>1, <2>1, FS_RemoveElement
<1>6. /\ IsFiniteSet((Taken \ {one}) \ {two})
      /\ Cardinality((Taken \ {one}) \ {two}) = IF two \in Taken \ {one}
            THEN Cardinality(Taken \ {one}) - 1 ELSE Cardinality(Taken \ {one})
    BY <1>5, FS_RemoveElement
<1>7. IsFiniteSet(Taken') /\ Cardinality(Taken') = Cardinality(Taken) - n
    BY <1>1, <1>2, <1>3, <1>4, <1>5, <1>6
<1>8. free' + Cardinality(Taken') <= PoolSize /\ free' \in Nat
    BY <1>1, <1>5, <1>7
<1>9. conns' \in [Tasks -> 0 .. 2] /\ \A u \in Tasks : conns'[u] = q[u].conns
    BY DEF PoolFits, Nothing
<1>10. QED
    BY <1>7, <1>8, <1>9 DEF PoolFits

LEMMA FailureKeeps ==
    ASSUME IInv, NEW t \in Tasks, Failure(t)
    PROVE  IInv' /\ Newer
<1>1. PICK hold \in [Tasks -> Held] : Inv(hold)
    BY DEF IInv
<1>2. /\ Shape(hold) /\ SlotsFit(hold) /\ PoolFits(hold) /\ MutexesFit(hold) /\ LocksFit(hold)
      /\ VersionsFit(hold) /\ RolesFit(hold)
      /\ todo \in [Tasks -> Seq(Ops)] /\ hold \in [Tasks -> Held] /\ None \notin Tasks
    BY <1>1, SchemaReloadAssumption DEF Inv, Shape
<1>3. /\ todo[t] # <<>> /\ failures' = failures + 1 /\ UNCHANGED <<versions, runs>>
      /\ Head(todo[t]) \in {"config", "begin", "end", "save", "grant", "disable", "query", "read",
                            "metaQuery", "icsGet", "roles"}
      /\ slots' = slots \ {t} /\ preset' = (IF preset = t THEN None ELSE preset)
      /\ ics' = IF ics = t THEN None ELSE ics
      /\ conns' = [conns EXCEPT ![t] = 0] /\ (free' = free \/ free' = free + conns[t])
    BY DEF Failure, ConfigFails, CallFails, ReadFailsLocked, Fail, At, Leave, Rollback
<1>4. PICK op \in Ops : op = Head(todo[t])
    BY <1>2, <1>3, Doing
<1>5. May(hold[t], op)
    BY <1>2, <1>3, <1>4, Doing
<1>6. PICK W \in SUBSET Tasks : W = IF ReadFailsLocked(t) THEN waiting ELSE {}
    BY <1>2 DEF LocksFit
<1>7. t \notin W /\ t \notin waiting
    BY <1>2, <1>3, <1>6 DEF LocksFit
<1>8. \A u \in W : /\ todo[u] # <<>> /\ Head(todo[u]) = "rlock"
                   /\ After(hold[u], "rlock") \in Held
                   /\ Fits(Tail(todo[u]), After(hold[u], "rlock"))
                   /\ Tail(todo[u]) \in Seq(Ops)
  <2>1. TAKE u \in W
  <2>2. todo[u] # <<>> /\ Head(todo[u]) = "rlock"
      BY <1>2, <1>6 DEF LocksFit
  <2>3. /\ After(hold[u], Head(todo[u])) \in Held
        /\ Fits(Tail(todo[u]), After(hold[u], Head(todo[u])))
      BY <1>2, <2>2, Doing
  <2>4. Tail(todo[u]) \in Seq(Ops)
      BY <2>3 DEF Fits, Piece
  <2>5. QED
      BY <2>2, <2>3, <2>4
<1>9. /\ Nothing \in Held /\ Nothing.keeps = {} /\ Nothing.conns = 0 /\ Nothing.reads = 0
      /\ Nothing.owes = {}
    BY DEF Nothing, Held
<1> DEFINE q == [u \in Tasks |-> IF u = t THEN Nothing
                                 ELSE IF u \in W THEN After(hold[u], "rlock") ELSE hold[u]]
<1>10. /\ q \in [Tasks -> Held] /\ q[t] = Nothing
       /\ \A u \in W : q[u] = After(hold[u], "rlock")
       /\ \A u \in Tasks \ ({t} \cup W) : q[u] = hold[u]
    BY <1>2, <1>7, <1>8, <1>9
<1> HIDE DEF q
<1>11. \A u \in W : /\ q[u].keeps = hold[u].keeps /\ q[u].conns = hold[u].conns
                    /\ q[u].owes = hold[u].owes /\ q[u].reads = hold[u].reads + 1
  <2>1. TAKE u \in W
  <2>2. hold[u] \in Held
      BY <1>2
  <2>3. QED
      BY <1>10, <2>2, AfterRLock
<1>12. \A u \in Tasks \ {t} : /\ q[u].keeps = hold[u].keeps /\ q[u].conns = hold[u].conns
                              /\ q[u].owes = hold[u].owes
    BY <1>10, <1>11
<1>13. Shape(q)'
  <2>1. todo' = [u \in Tasks |-> IF u = t THEN <<>> ELSE IF u \in W THEN Tail(todo[u]) ELSE todo[u]]
      BY <1>2, <1>6 DEF Failure, ConfigFails, CallFails, ReadFailsLocked
  <2>2. todo' \in [Tasks -> Seq(Ops)]
      BY <1>2, <1>8, <2>1
  <2>3. \A u \in Tasks : Fits(todo'[u], q[u])
    <3>1. TAKE u \in Tasks
    <3>2. CASE u = t
        BY <1>9, <1>10, <2>1, <3>2, PieceEmpty DEF Fits
    <3>3. CASE u \in W
        BY <1>7, <1>8, <1>10, <2>1, <3>3
    <3>4. CASE u \notin W \cup {t}
        BY <1>2, <1>10, <2>1, <3>4 DEF Shape
    <3>5. QED
        BY <3>2, <3>3, <3>4
  <2>4. QED
      BY <1>10, <2>2, <2>3 DEF Shape
<1>14. SlotsFit(q)' /\ PoolFits(q)'
    BY <1>2, <1>3, <1>10, <1>12, SlotsFail, PoolFails
<1>15. MutexesFit(q)'
  <2>1. \A u \in Tasks : /\ "preset" \in q[u].keeps <=> u # t /\ "preset" \in hold[u].keeps
                         /\ "ics" \in q[u].keeps <=> u # t /\ "ics" \in hold[u].keeps
      BY <1>9, <1>10, <1>12
  <2>2. /\ preset' \in Tasks \cup {None} /\ ics' \in Tasks \cup {None}
        /\ \A u \in Tasks : (preset' = u <=> u # t /\ preset = u) /\ (ics' = u <=> u # t /\ ics = u)
      BY <1>2, <1>3 DEF MutexesFit
  <2>3. QED
      BY <1>2, <2>1, <2>2 DEF MutexesFit
<1>16. LocksFit(q)'
  <2>1. \A u \in Tasks : /\ "next" \in q[u].keeps => "next" \in hold[u].keeps /\ u # t
                         /\ "lock" \in q[u].keeps => "lock" \in hold[u].keeps /\ u # t
      BY <1>10, <1>12 DEF Nothing
  <2>2. \A u \in Tasks \ {t} : /\ "next" \in hold[u].keeps => "next" \in q[u].keeps
                               /\ "lock" \in hold[u].keeps => "lock" \in q[u].keeps
      BY <1>12
  <2>3. CASE ReadFailsLocked(t)
    <3>1. /\ writer = t /\ op = "read" /\ W = waiting
          /\ writer' = None /\ waiting' = {} /\ left' = left
          /\ readers' = [u \in Tasks |-> IF u \in W THEN readers[u] + 1 ELSE readers[u]]
        BY <1>4, <1>6, <2>3 DEF ReadFailsLocked, GiveBackLock, Fail, At
    <3>2. "lock" \in hold[t].keeps
        BY <1>5, <3>1 DEF May, InLock
    <3>3. readers[t] = 0
        BY <1>2, <3>2 DEF LocksFit
    <3>4. \A u \in Tasks : "next" \notin q[u].keeps /\ "lock" \notin q[u].keeps
        BY <1>2, <2>1, <3>1 DEF LocksFit
    <3>5. readers' \in [Tasks -> Nat] /\ \A u \in Tasks : readers'[u] = q[u].reads
      <4>1. readers \in [Tasks -> Nat] /\ \A u \in Tasks : readers[u] = hold[u].reads
          BY <1>2 DEF LocksFit
      <4>2. readers' \in [Tasks -> Nat]
          BY <3>1, <4>1
      <4>3. readers'[t] = q[t].reads
          BY <1>7, <1>9, <1>10, <3>1, <3>3
      <4>4. \A u \in Tasks \ {t} : readers'[u] = q[u].reads
          BY <1>10, <1>11, <3>1, <4>1
      <4>5. QED
          BY <4>2, <4>3, <4>4
    <3>6. QED
        BY <1>2, <3>1, <3>4, <3>5 DEF LocksFit
  <2>4. CASE CallFails(t) /\ ~ReadFailsLocked(t)
    <3>1. /\ readers' = [readers EXCEPT ![t] = 0] /\ left' = (left \/ writer = t)
          /\ UNCHANGED <<writer, waiting>> /\ todo' = [todo EXCEPT ![t] = <<>>] /\ W = {}
        BY <1>6, <2>4 DEF CallFails
    <3>2. readers' \in [Tasks -> Nat] /\ \A u \in Tasks : readers'[u] = q[u].reads
        BY <1>2, <1>10, <3>1 DEF LocksFit, Nothing
    <3>3. \A u \in waiting : todo'[u] = todo[u]
        BY <1>2, <1>7, <3>1 DEF LocksFit
    <3>4. left' \in BOOLEAN /\ (left => left') /\ (writer = t => left')
        BY <1>2, <3>1 DEF LocksFit
    <3>5. \A u \in Tasks : "lock" \in q[u].keeps => \A w \in Tasks : readers'[w] = 0
        BY <1>2, <2>1, <3>1 DEF LocksFit
    <3>6. \A u \in Tasks : writer' = u /\ ~left' => "next" \in q[u].keeps \/ "lock" \in q[u].keeps
        BY <1>2, <2>2, <3>1, <3>4 DEF LocksFit
    <3>7. QED
        BY <1>2, <2>1, <3>1, <3>2, <3>3, <3>4, <3>5, <3>6 DEF LocksFit
  <2>5. CASE ConfigFails(t) /\ ~ReadFailsLocked(t)
    <3>1. UNCHANGED locks /\ op = "config" /\ todo' = [todo EXCEPT ![t] = <<>>] /\ W = {}
        BY <1>4, <1>6, <2>5 DEF ConfigFails, Fail, At
    <3>2. hold[t].reads = 0 /\ "next" \notin hold[t].keeps /\ "lock" \notin hold[t].keeps
        BY <1>5, <3>1 DEF May, Within, InLock
    <3>3. \A u \in Tasks : readers[u] = q[u].reads
      <4>1. \A u \in Tasks : readers[u] = hold[u].reads
          BY <1>2 DEF LocksFit
      <4>2. QED
          BY <1>9, <1>10, <3>1, <3>2, <4>1
    <3>4. \A u \in waiting : todo'[u] = todo[u]
        BY <1>2, <1>7, <3>1 DEF LocksFit
    <3>5. \A u \in Tasks : writer = u /\ ~left => "next" \in q[u].keeps \/ "lock" \in q[u].keeps
        BY <1>2, <2>2, <3>2 DEF LocksFit
    <3>6. QED
        BY <1>2, <2>1, <3>1, <3>3, <3>4, <3>5 DEF LocksFit, locks
  <2>6. QED
      BY <2>3, <2>4, <2>5 DEF Failure
<1>17. UNCHANGED <<stored, seen, maps, json, icsField, access, roles, enabled, seenRoles, granted,
                   crossed, runs>>
    BY <1>3 DEF versions, schema, login
<1>18. VersionsFit(q)' /\ Newer
  <2>1. UNCHANGED <<db, dropped, cached, relics, json, icsField, access, seen>>
      BY <1>17 DEF stored, maps
  <2>2. Relics' = Relics
      BY <2>1 DEF Relics
  <2>3. \A u \in Tasks : /\ "schema" \in q[u].keeps => "schema" \in hold[u].keeps
                         /\ "access" \in q[u].keeps => "access" \in hold[u].keeps
      BY <1>10, <1>12 DEF Nothing
  <2>4. QED
      BY <1>2, <2>1, <2>2, <2>3 DEF VersionsFit, Newer
<1>19. RolesFit(q)'
  <2>1. "put" \in hold[t].owes => op = "roles" /\ "roles" \in hold[t].owes
      BY <1>3, <1>4, <1>5 DEF May
  <2>2. seenRoles[t] = 0 /\ q[t].owes = {}
      BY <1>2, <1>10, <2>1 DEF RolesFit, Nothing
  <2>3. \A u \in Tasks : seenRoles'[u] # 0 <=> "put" \in q[u].owes /\ "roles" \notin q[u].owes
      BY <1>2, <1>12, <1>17, <2>2 DEF RolesFit
  <2>4. \A u \in Tasks : "roles" \in q[u].owes => "put" \in q[u].owes
      BY <1>2, <1>12, <2>2 DEF RolesFit
  <2>5. QED
      BY <1>2, <1>3, <1>17, <2>3, <2>4 DEF RolesFit
<1>20. Comes(q)' /\ RolesCome(q)'
  <2>1. failures' # 0
      BY <1>2, <1>3 DEF RolesFit
  <2>2. QED
      BY <2>1 DEF Comes, RolesCome
<1>21. Inv(q)'
    BY <1>13, <1>14, <1>15, <1>16, <1>18, <1>19, <1>20 DEF Inv
<1>22. QED
    BY <1>10, <1>18, <1>21 DEF IInv

LEMMA RunKeeps ==
    ASSUME OrderlyPrograms, IInv, NEW t \in Tasks, Run(t)
    PROVE  IInv' /\ Newer
<1>1. PICK hold \in [Tasks -> Held] : Inv(hold)
    BY DEF IInv
<1>2. PICK p \in Programs : todo' = [todo EXCEPT ![t] = p]
    BY DEF Run
<1>3. /\ todo[t] = <<>> /\ runs' = runs + 1
      /\ UNCHANGED <<slots, pool, locks, mutexes, versions, failures>>
    BY DEF Run
<1>4. Fits(p, Nothing) /\ p \in Seq(Ops)
    BY DEF OrderlyPrograms, Orderly, Fits, Piece
<1>5. hold[t] = Nothing
    BY <1>1, <1>3, Doing DEF Inv
<1>6. Shape(hold)'
    BY <1>1, <1>2, <1>4, <1>5 DEF Inv, Shape
<1>7. UNCHANGED <<free, conns, preset, ics, readers, writer, waiting, left, db, dropped, seen, cached,
                  relics, json, icsField, access, roles, enabled, seenRoles, granted, crossed>>
    BY <1>3 DEF pool, locks, mutexes, versions, schema, stored, maps, login
<1>8. SlotsFit(hold)' /\ MutexesFit(hold)' /\ Comes(hold)' /\ RolesCome(hold)' /\ Newer
  <2>1. /\ SlotsFit(hold)' /\ MutexesFit(hold)'
      BY <1>1, <1>3, <1>7 DEF Inv, SlotsFit, MutexesFit
  <2>2. Comes(hold)' /\ RolesCome(hold)'
      BY <1>1, <1>3, <1>7 DEF Inv, Comes, RolesCome, SchemaComes, JsonComes, IcsComes, AccessComes
  <2>3. Newer
      BY <1>1, <1>7 DEF Inv, Newer, VersionsFit
  <2>4. QED
      BY <2>1, <2>2, <2>3
<1>9. PoolFits(hold)'
  <2>1. Taken' = Taken
      BY <1>7 DEF Taken
  <2>2. QED
      BY <1>1, <1>7, <2>1 DEF Inv, PoolFits
<1>10. LocksFit(hold)'
  <2>1. t \notin waiting
      BY <1>1, <1>3 DEF Inv, LocksFit
  <2>2. \A u \in waiting : todo'[u] = todo[u]
      BY <1>1, <1>2, <2>1 DEF Inv, LocksFit, Shape
  <2>3. QED
      BY <1>1, <1>7, <2>2 DEF Inv, LocksFit
<1>11. VersionsFit(hold)'
  <2>1. Relics' = Relics
      BY <1>7 DEF Relics
  <2>2. QED
      BY <1>1, <1>7, <2>1 DEF Inv, VersionsFit
<1>12. RolesFit(hold)'
    BY <1>1, <1>3, <1>7 DEF Inv, RolesFit
<1>13. Inv(hold)'
    BY <1>6, <1>8, <1>9, <1>10, <1>11, <1>12 DEF Inv
<1>14. QED
    BY <1>1, <1>8, <1>13 DEF IInv

LEMMA InitFits == Init => IInv
<1> SUFFICES ASSUME Init PROVE IInv
    OBVIOUS
<1> DEFINE hold == [t \in Tasks |-> Nothing]
<1>1. /\ Nothing \in Held /\ Nothing.keeps = {} /\ Nothing.conns = 0 /\ Nothing.reads = 0
      /\ Nothing.owes = {}
    BY DEF Nothing, Held
<1>2. hold \in [Tasks -> Held] /\ \A t \in Tasks : hold[t] = Nothing
    BY <1>1
<1> HIDE DEF hold
<1>3. Shape(hold)
  <2>1. Fits(<<>>, Nothing)
      BY <1>1, PieceEmpty DEF Fits
  <2>2. QED
      BY <1>2, <2>1 DEF Init, Shape
<1>4. SlotsFit(hold)
    BY <1>2, FS_EmptySet, SchemaReloadAssumption DEF Init, SlotsFit, Nothing
<1>5. PoolFits(hold)
  <2>1. Taken = {}
      BY DEF Init, Taken
  <2>2. QED
      BY <1>2, <2>1, FS_EmptySet, SchemaReloadAssumption DEF Init, PoolFits, Nothing
<1>6. MutexesFit(hold) /\ LocksFit(hold)
  <2>1. \A t \in Tasks : hold[t].keeps = {} /\ hold[t].reads = 0 /\ t # None
      BY <1>1, <1>2, SchemaReloadAssumption
  <2>2. MutexesFit(hold)
      BY <2>1 DEF Init, MutexesFit
  <2>3. /\ readers = [t \in Tasks |-> 0] /\ writer = None /\ waiting = {} /\ left = FALSE
      BY DEF Init
  <2>4. LocksFit(hold)
      BY <2>1, <2>3 DEF LocksFit
  <2>5. QED
      BY <2>2, <2>4
<1>7. VersionsFit(hold)
  <2>1. Relics = {}
      BY DEF Init, Relics
  <2>2. QED
      BY <1>2, <2>1 DEF Init, VersionsFit, Nothing
<1>8. RolesFit(hold) /\ Comes(hold) /\ RolesCome(hold)
  <2>1. \A t \in Tasks : hold[t].owes = {}
      BY <1>1, <1>2
  <2>2. Comes(hold) /\ RolesCome(hold)
      BY <2>1 DEF Init, Comes, SchemaComes, JsonComes, IcsComes, AccessComes, RolesCome
  <2>3. /\ seenRoles = [t \in Tasks |-> 0] /\ roles = 1 /\ enabled = TRUE /\ crossed = FALSE
        /\ granted = 0 /\ runs = 0 /\ failures = 0
      BY DEF Init
  <2>4. RolesFit(hold)
    <3>1. enabled \in BOOLEAN /\ crossed \in BOOLEAN
        BY <2>3
    <3>2. /\ roles \in Nat /\ roles # 0 /\ granted \in Nat /\ runs \in Nat /\ failures \in Nat
          /\ seenRoles \in [Tasks -> Nat] /\ \A t \in Tasks : seenRoles[t] = 0
        BY <2>3
    <3>3. \A t \in Tasks : /\ seenRoles[t] # 0 <=> "put" \in hold[t].owes /\ "roles" \notin hold[t].owes
                           /\ "roles" \in hold[t].owes => "put" \in hold[t].owes
        BY <2>1, <3>2
    <3>4. QED
        BY <3>1, <3>2, <3>3 DEF RolesFit
  <2>5. QED
      BY <2>2, <2>4
<1>9. QED
    BY <1>2, <1>3, <1>4, <1>5, <1>6, <1>7, <1>8 DEF IInv, Inv

LEMMA NextKeeps == ASSUME OrderlyPrograms, IInv, [Next]_vars PROVE IInv' /\ Newer
<1>1. CASE \E t \in Tasks : Run(t) \/ Step(t) \/ Failure(t)
    BY <1>1, RunKeeps, StepKeeps, FailureKeeps
<1>2. CASE UNCHANGED vars
  <2>1. PICK hold \in [Tasks -> Held] : Inv(hold)
      BY DEF IInv
  <2>2. UNCHANGED <<todo, slots, free, conns, preset, ics, readers, writer, waiting, left, db,
                    dropped, seen, cached, relics, json, icsField, access, roles, enabled,
                    seenRoles, granted, crossed, runs, failures>>
      BY <1>2 DEF vars, pool, locks, mutexes, versions, schema, stored, maps, login
  <2>3. Taken' = Taken /\ Relics' = Relics
      BY <2>2 DEF Taken, Relics
  <2>4. Shape(hold)' /\ SlotsFit(hold)' /\ PoolFits(hold)' /\ MutexesFit(hold)' /\ LocksFit(hold)'
      BY <2>1, <2>2, <2>3 DEF Inv, Shape, SlotsFit, PoolFits, MutexesFit, LocksFit
  <2>5. VersionsFit(hold)' /\ RolesFit(hold)' /\ Comes(hold)' /\ RolesCome(hold)' /\ Newer
    <3>1. VersionsFit(hold)' /\ RolesFit(hold)' /\ Newer
        BY <2>1, <2>2, <2>3 DEF Inv, VersionsFit, RolesFit, Newer
    <3>2. Comes(hold)' /\ RolesCome(hold)'
        BY <2>1, <2>2 DEF Inv, Comes, RolesCome, SchemaComes, JsonComes, IcsComes, AccessComes
    <3>3. QED
        BY <3>1, <3>2
  <2>6. QED
      BY <2>1, <2>4, <2>5 DEF Inv, IInv
<1>3. QED
    BY <1>1, <1>2 DEF Next

-----------------------------------------------------------------------------
(* Theorems                                                                  *)

LEMMA Invariance == ASSUME OrderlyPrograms PROVE Spec => []IInv
<1>1. Init => IInv
    BY InitFits
<1>2. IInv /\ [Next]_vars => IInv'
    BY NextKeeps
<1>3. QED
    BY <1>1, <1>2, PTL DEF Spec

LEMMA InvTypes == IInv => TypeOK
<1> SUFFICES ASSUME IInv PROVE TypeOK
    OBVIOUS
<1>1. PICK hold \in [Tasks -> Held] : Inv(hold)
    BY DEF IInv
<1>2. todo \in [Tasks -> Seq(Ops)]
    BY <1>1 DEF Inv, Shape
<1>3. slots \subseteq Tasks /\ Cardinality(slots) <= RequestLimit
    BY <1>1 DEF Inv, SlotsFit
<1>4. free \in 0 .. PoolSize /\ conns \in [Tasks -> Nat]
  <2>1. Cardinality(Taken) \in Nat /\ free \in Nat /\ free + Cardinality(Taken) <= PoolSize
      BY <1>1, FS_CardinalityType DEF Inv, PoolFits
  <2>2. conns \in [Tasks -> 0 .. 2] /\ 0 .. 2 \subseteq Nat
      BY <1>1 DEF Inv, PoolFits
  <2>3. QED
      BY <2>1, <2>2, SchemaReloadAssumption
<1>5. /\ readers \in [Tasks -> Nat]
      /\ writer \in Tasks \cup {None} /\ waiting \subseteq Tasks /\ left \in BOOLEAN
      /\ preset \in Tasks \cup {None} /\ ics \in Tasks \cup {None}
    BY <1>1 DEF Inv, LocksFit, MutexesFit
<1>6. /\ db \in Nat /\ cached \in Nat /\ json \in Nat /\ icsField \in Nat /\ access \in Nat
      /\ seen \in [Tasks -> Nat] /\ dropped \subseteq 1 .. db /\ relics = Relics
    BY <1>1 DEF Inv, VersionsFit
<1>7. dropped \subseteq Nat /\ relics \subseteq Nat
  <2>1. \A v \in 1 .. db : v \in Nat
      BY <1>6
  <2>2. relics \subseteq dropped
      BY <1>6 DEF Relics
  <2>3. \A v \in dropped : v \in Nat
      BY <1>6, <2>1
  <2>4. QED
      BY <2>2, <2>3
<1>8. /\ roles \in Nat /\ enabled \in BOOLEAN /\ seenRoles \in [Tasks -> Nat] /\ granted \in Nat
      /\ crossed \in BOOLEAN /\ runs \in Nat /\ failures \in Nat
    BY <1>1 DEF Inv, RolesFit
<1>9. QED
    BY <1>2, <1>3, <1>4, <1>5, <1>6, <1>7, <1>8 DEF TypeOK

\* For any number of tasks that run orderly programs the state keeps its types;
\* among them, that never are more slots or connections taken than there are.
THEOREM TypeCorrect == ASSUME OrderlyPrograms PROVE Spec => []TypeOK
<1>1. Spec => []IInv
    BY Invariance
<1>2. QED
    BY <1>1, InvTypes, PTL

\* However many reloads overlap: a schema is never stored over a newer one, since
\* what is read under the lock is stored before the lock is given up, and what is
\* built is of the cache for as long as the read lock is held.
THEOREM CacheGoesForward == ASSUME OrderlyPrograms PROVE Spec => CacheNeverGoesBack
<1>1. Spec => []IInv
    BY Invariance
<1>2. IInv /\ [Next]_vars => [cached' >= cached /\ json' >= json /\ access' >= access]_vars
    BY NextKeeps DEF Newer
<1>3. QED
    BY <1>1, <1>2, PTL DEF Spec, CacheNeverGoesBack

LEMMA Rest ==
    ASSUME NEW hold, Inv(hold), \A t \in Tasks : Idle(t)
    PROVE  \A t \in Tasks : hold[t].keeps = {} /\ hold[t].owes = {} /\ seenRoles[t] = 0
<1> SUFFICES ASSUME NEW t \in Tasks
             PROVE  hold[t].keeps = {} /\ hold[t].owes = {} /\ seenRoles[t] = 0
    OBVIOUS
<1>1. hold[t] = Nothing
    BY Doing DEF Inv, Idle
<1>2. hold[t].keeps = {} /\ hold[t].owes = {}
    BY <1>1 DEF Nothing
<1>3. QED
    BY <1>2 DEF Inv, RolesFit

\* Once all tasks have come to their end and no call of the database has failed,
\* the cache, its JSON, the calendar fields and the access of the login are of the
\* schema in the database: whoever saved reads it later, under the lock.  And of
\* all entities that were deleted the maps have kept what they had.
THEOREM CacheSettles == ASSUME OrderlyPrograms PROVE Spec => []SettledCacheIsCurrent
<1>1. Spec => []IInv
    BY Invariance
<1>2. ASSUME IInv PROVE SettledCacheIsCurrent
  <2>1. PICK hold \in [Tasks -> Held] : Inv(hold)
      BY <1>2 DEF IInv
  <2>2. SUFFICES ASSUME failures = 0, \A t \in Tasks : Idle(t)
                 PROVE  /\ cached = db /\ json = db /\ access \in {0, db} /\ icsField \in {0, db}
                        /\ relics = dropped
      BY DEF SettledCacheIsCurrent
  <2>3. \A t \in Tasks : hold[t].keeps = {} /\ hold[t].owes = {}
      BY <2>1, <2>2, Rest
  <2>4. cached = db /\ json = cached /\ icsField \in {0, db} /\ access \in {0, cached}
      BY <2>1, <2>2, <2>3 DEF Inv, Comes, SchemaComes, JsonComes, IcsComes, AccessComes
  <2>5. dropped \subseteq 1 .. db /\ relics = Relics /\ db \in Nat
      BY <2>1 DEF Inv, VersionsFit
  <2>6. relics = dropped
    <3>1. \A v \in 1 .. db : v <= db
        BY <2>5
    <3>2. \A v \in dropped : v <= cached
        BY <2>4, <2>5, <3>1
    <3>3. QED
        BY <2>5, <3>2 DEF Relics
  <2>7. QED
      BY <2>4, <2>6
<1>3. QED
    BY <1>1, <1>2, PTL

\* The access of an active login is of its last roles once all tasks have come to
\* their end: whoever changes the roles renews the access afterwards.
THEOREM AccessSettles == ASSUME OrderlyPrograms PROVE Spec => []SettledAccessIsCurrent
<1>1. Spec => []IInv
    BY Invariance
<1>2. ASSUME IInv PROVE SettledAccessIsCurrent
  <2>1. PICK hold \in [Tasks -> Held] : Inv(hold)
      BY <1>2 DEF IInv
  <2>2. SUFFICES ASSUME failures = 0, ~crossed, enabled, \A t \in Tasks : Idle(t), access # 0
                 PROVE  granted = roles
      BY DEF SettledAccessIsCurrent
  <2>3. \A t \in Tasks : hold[t].owes = {} /\ seenRoles[t] = 0
      BY <2>1, <2>2, Rest
  <2>4. roles # 0 /\ RolesCome(hold)
      BY <2>1 DEF Inv, RolesFit
  <2>5. QED
      BY <2>2, <2>3, <2>4 DEF RolesCome
<1>3. QED
    BY <1>1, <1>2, PTL

\* Tasks that run orderly programs never wait for each other in a circle unless
\* there is no free connection, the lock stayed with a task that failed, or a task
\* with a read lock waits for a second one.  With a connection to be had whoever
\* has a mutex goes on, so does the writer if no reader is left, and so does a
\* reader; then nobody waits for the lock, and whoever has a slot goes on.
THEOREM NobodyElseWaitsInACircle == ASSUME OrderlyPrograms PROVE Spec => []NoOtherCircle
<1>1. Spec => []IInv
    BY Invariance
<1>2. ASSUME IInv PROVE NoOtherCircle
  <2>1. PICK hold \in [Tasks -> Held] : Inv(hold)
      BY <1>2 DEF IInv
  <2>2. /\ Shape(hold) /\ SlotsFit(hold) /\ MutexesFit(hold) /\ LocksFit(hold)
        /\ None \notin Tasks
      BY <2>1, SchemaReloadAssumption DEF Inv
  <2>3. SUFFICES ASSUME NEW b \in Tasks, ~Idle(b), \A t \in Tasks : Idle(t) \/ Waits(t),
                        free # 0, ~left, ~ \E t \in waiting : readers[t] # 0
                 PROVE  FALSE
      BY DEF NoOtherCircle
  <2>4. ASSUME NEW t \in Tasks, todo[t] # <<>>
        PROVE  \/ Head(todo[t]) = "slot" /\ ~SlotFree
               \/ Head(todo[t]) = "rlock" /\ writer # None /\ t \in waiting
               \/ Head(todo[t]) = "lock" /\ writer # None
               \/ Head(todo[t]) = "drain" /\ \E u \in Tasks : readers[u] # 0
               \/ Head(todo[t]) \in {"presetLock", "preset"} /\ preset # None
               \/ Head(todo[t]) = "icsLock" /\ ics # None
    <3>1. Waits(t)
        BY <2>3, <2>4 DEF Idle
    <3>2. QED
        BY <2>3, <3>1 DEF Waits, At
  <2>5. preset = None
    <3>1. SUFFICES ASSUME preset # None PROVE FALSE
        OBVIOUS
    <3>2. preset \in Tasks /\ "preset" \in hold[preset].keeps
        BY <2>2, <3>1 DEF MutexesFit
    <3>3. todo[preset] # <<>> /\ Head(todo[preset]) \in {"query", "presetUnlock"}
        BY <2>2, <3>2, Doing DEF Within
    <3>4. QED
        BY <2>4, <3>2, <3>3
  <2>6. ics = None
    <3>1. SUFFICES ASSUME ics # None PROVE FALSE
        OBVIOUS
    <3>2. ics \in Tasks /\ "ics" \in hold[ics].keeps
        BY <2>2, <3>1 DEF MutexesFit
    <3>3. todo[ics] # <<>> /\ Head(todo[ics]) \in {"icsGet", "icsReset", "icsUnlock"}
        BY <2>2, <3>2, Doing DEF Within
    <3>4. QED
        BY <2>4, <3>2, <3>3
  <2>7. \A u \in Tasks : readers[u] = 0
    <3>1. SUFFICES ASSUME NEW u \in Tasks, readers[u] # 0 PROVE FALSE
        OBVIOUS
    <3>2. hold[u].reads # 0
        BY <2>2, <3>1 DEF LocksFit
    <3>3. todo[u] # <<>>
        BY <2>2, <3>2, Doing DEF Nothing
    <3>4. Head(todo[u]) \notin {"slot", "lock", "drain"}
        BY <2>2, <3>2, <3>3, Doing DEF May
    <3>5. Head(todo[u]) = "rlock" /\ u \in waiting
        BY <2>4, <2>5, <2>6, <3>3, <3>4
    <3>6. QED
        BY <2>3, <3>1, <3>5
  <2>8. writer = None
    <3>1. SUFFICES ASSUME writer # None PROVE FALSE
        OBVIOUS
    <3>2. writer \in Tasks /\ ("next" \in hold[writer].keeps \/ "lock" \in hold[writer].keeps)
        BY <2>2, <2>3, <3>1 DEF LocksFit
    <3>3. todo[writer] # <<>> /\ Head(todo[writer]) \in InLock \cup {"drain"}
        BY <2>2, <3>2, Doing DEF Within
    <3>4. QED
        BY <2>4, <2>7, <3>2, <3>3 DEF InLock
  <2>9. ~SlotFree
      BY <2>3, <2>4, <2>5, <2>6, <2>7, <2>8 DEF Idle
  <2>10. slots # {}
    <3>1. SUFFICES ASSUME slots = {} PROVE FALSE
        OBVIOUS
    <3>2. Cardinality(slots) = 0
        BY <3>1, FS_EmptySet
    <3>3. RequestLimit \in Nat /\ RequestLimit # 0
        BY SchemaReloadAssumption
    <3>4. 0 < RequestLimit
        BY <3>3
    <3>5. QED
        BY <2>9, <3>2, <3>4 DEF SlotFree
  <2>11. PICK s \in slots : s \in Tasks /\ "slot" \in hold[s].keeps
      BY <2>2, <2>10 DEF SlotsFit
  <2>12. todo[s] # <<>> /\ Head(todo[s]) \in Ops \ {"slot"}
      BY <2>2, <2>11, Doing DEF Within
  <2>13. QED
      BY <2>4, <2>5, <2>6, <2>7, <2>8, <2>11, <2>12
<1>3. QED
    BY <1>1, <1>2, PTL

=============================================================================
