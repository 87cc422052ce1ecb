--------------------------- MODULE MCSchemaReload ---------------------------
(* What a node runs at once, and two of its programs that collide.           *)
EXTENDS SchemaReload, TLC

CONSTANTS t1, t2, t3

Handlers == {Save(<<"metaQuery">>), SchemaChangedElsewhere, Request(GetAccess),
             Request(SetData), Request(SetLoggedData), Api, IcsDownload,
             Request(ImportLogin), Request(ImportInactive), Background}

Logging == {Save(<<>>), Request(SetLoggedData)}

Symmetry == Permutations(Tasks)
=============================================================================
