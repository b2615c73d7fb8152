-------------------------------- MODULE MCLoader --------------------------------
(***************************************************************************)
(* Projects of four names for Loader.  The hashes put a under the second    *)
(* slot of a table of two and b under the first, in front of the walk over  *)
(* a; the third file makes the table grow to four slots, where c comes      *)
(* first and b behind a.                                                    *)
(***************************************************************************)
EXTENDS Loader, TLC

CONSTANTS a, b, c, none

MCHash == (a :> 1) @@ (b :> 2) @@ (c :> 4) @@ (none :> 3)

\* A use tries one or two names; under none there is never a file.
Tried == {<<a>>, <<b>>, <<c>>, <<none>>, <<none, c>>}

UpTo(most) == UNION {[1..n -> Tried] : n \in 0..most}

\* c may be missing, empty, wrong or in order; the others are.
Disk(ofC) == (a :> "fine") @@ (b :> "fine") @@ (c :> ofC) @@ (none :> "absent")

MCProjects ==
  [args : {<<a>>, <<a, c>>},
   uses : {(a :> p) @@ (b :> q) @@ (c :> r) @@ (none :> <<>>) :
             p \in UpTo(2), q \in UpTo(1), r \in UpTo(1)},
   disk : {Disk(d) : d \in {"absent", "empty", "broken", "fine"}}]
================================================================================
