---------------------------- MODULE MC_Commands ----------------------------
(***************************************************************************)
(* The two command-line programs whose code is in cmd/geth/consolecmd.go,  *)
(* checked in one model: the geth console commands (Console) and the       *)
(* puppeth genesis wizard (Genesis).  They run as separate processes and   *)
(* share no state, so a behaviour of the pair is an interleaving of one    *)
(* behaviour of each, and each keeps its own invariants.                   *)
(***************************************************************************)
CONSTANTS
  Commands, MaxFiles,
  Precompiles, AddrInputs, PreFund, ChainIds, ExtraLens, ForkInputs,
  Default, NoGenesis, NoFile, MaxSteps

VARIABLES
  cmd, pc, node, cons, deferred, left, aborter,
  conf, file, crashed, steps

C == INSTANCE Console
G == INSTANCE Genesis

cvars == <<cmd, pc, node, cons, deferred, left, aborter>>
gvars == <<conf, file, crashed, steps>>
vars == <<cvars, gvars>>

Init == C!Init /\ G!Init

Next == (C!Next /\ UNCHANGED gvars) \/ (G!Next /\ UNCHANGED cvars)

Spec == Init /\ [][Next]_vars

\* the console's invariants (Console.tla)
ConsoleBeforeNode == C!ConsoleBeforeNode
TornDown == C!TornDown
=============================================================================
