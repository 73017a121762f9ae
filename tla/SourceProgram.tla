--------------------------- MODULE SourceProgram ---------------------------
(***************************************************************************)
(* What the lifted function has to do: run the original instructions on    *)
(* the argument it is called with.  This is the abstract specification     *)
(* that LiftedExecution is shown to implement.                             *)
(***************************************************************************)
EXTENDS Machine

VARIABLES code,   \* the function's instructions
          at,     \* the program counter; NotCalled before the call, 0 after
          state   \* registers and memory; NotCalled before the call

NotCalled == [reg |-> <<>>, mem |-> <<>>]

SInit == at = 1 /\ state = NotCalled

\* the caller passes an argument
Call(i) ==
    /\ state = NotCalled
    /\ state' = InitialState(i)
    /\ UNCHANGED <<code, at>>

\* one instruction
Execute ==
    /\ state # NotCalled
    /\ at # 0
    /\ LET ins == Fetch(code, at)
       IN /\ Executable(ins)
          /\ state' = Effect(ins, state)
          /\ at' = NextPC(ins, at, state)
    /\ UNCHANGED code

SNext == Execute \/ \E i \in Inputs : Call(i)

svars == <<code, at, state>>

SSpec == SInit /\ [][SNext]_svars
=============================================================================
