--------------------------------- MODULE MCNasm ---------------------------------
(***************************************************************************)
(* Interpreter and backend in lockstep, on the generated code of programs    *)
(* both can handle.                                                          *)
(***************************************************************************)
EXTENDS MCIr, Lockstep

PortablePrograms == {Compiled(p) : p \in BalancedSources}

\* The code of these programs is such that the two can be compared.
ASSUME PortableAssumption == \A p \in PortablePrograms : Native_(p)

================================================================================
