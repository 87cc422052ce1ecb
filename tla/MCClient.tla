------------------------------ MODULE MCClient ------------------------------
(* Instances of Client. *)
EXTENDS Client, TLC

CONSTANTS m1

LoginWith(admin, collections, keep, token, f) ==
    [admin |-> admin, collections |-> collections, keep |-> keep, token |-> token,
     may |-> [x \in Bounded |-> IF x \in DOMAIN f THEN f[x] ELSE 0]]

\* an admin and a user that stay logged in, and a user that does not
AdminStays(f) == LoginWith(TRUE, TRUE, TRUE, TRUE, f)
UserStays(f)  == LoginWith(FALSE, FALSE, TRUE, TRUE, f)
UserComes(f)  == LoginWith(FALSE, FALSE, FALSE, FALSE, f)

Unplanned == Bounded \ {"schema", "news", "undated"}

\* any two of what is not news, or news with a lost connection, or two changes of
\* the schema, of which one may not be dated
AnyTwo ==
    UNION {{AdminStays(x :> 1 @@ y :> 1), UserComes(x :> 1 @@ y :> 1)} : x, y \in Unplanned}
    \cup {AdminStays("news" :> 1 @@ "break" :> 1), UserStays("schema" :> 1 @@ "break" :> 1),
          UserStays("schema" :> 2 @@ "undated" :> 1)}
=============================================================================
