------------------------------- MODULE MCCore -------------------------------
(***************************************************************************)
(* The two halves of the core, each against anything the other may do:     *)
(* the pipeline behind any frontend, and the frontend before any issue     *)
(* stage.  One half moves, the other keeps its initial state.              *)
(***************************************************************************)
EXTENDS MCPipeline, Frontend, TLC

VARIABLES
    half

(* Three lines for the two ways of one set, of two pairs each (the code    *)
(* has 256 sets, lines of four pairs); pc 0 is in the first, 4 in the      *)
(* second, 8 in the third.                                                 *)
Round(jumps) ==
    [p \in FetchPCs |-> IF p \in DOMAIN jumps THEN jumps[p] ELSE {(p + 1) % Cardinality(FetchPCs)}]
Text == [flow |-> Round(<<>>), targets |-> {}, fences |-> {}, traps |-> {}, stores |-> {}, faults |-> {}]

(* A branch that goes either way and a jump back, with a predictor that    *)
(* may see a jump in every pair.                                           *)
JumpText == [Text EXCEPT !.flow = Round(1 :> {2, 5} @@ 5 :> {0}), !.targets = {5}]
(* A round that rewrites its own line and ends in a fence.i, and a trap    *)
(* ahead of it: the jump at the end may be reached while the trap is under *)
(* way.                                                                    *)
WriteText == [Text EXCEPT !.flow = Round(3 :> {0}), !.stores = {1}, !.traps = {2}, !.fences = {3}]
(* Straight on, through three lines of which one may fail and trap.        *)
FailText == [Text EXCEPT !.faults = {5}, !.traps = {5}]
MCGarbage == [pc |-> Cardinality(FetchPCs), version |-> 0]
MCTexts == {JumpText, WriteText, FailText}

CoreInit ==
    /\ half \in {"issue", "front"}
    /\ Init /\ FrontInit
    /\ half = "issue" => text = FailText /\ ~fe.mmu /\ tagRam[0][0] = NoTag
    /\ half = "front" => ~mie /\ prog = CHOOSE p \in Programs : TRUE
CoreNext ==
    /\ half' = half
    /\ \/ half = "issue" /\ Next /\ UNCHANGED frontVars
       \/ half = "front" /\ FrontNext /\ UNCHANGED vars
coreVars == <<half, vars, frontVars>>
CoreSafety == CoreInit /\ [][CoreNext]_coreVars
CoreServed ==
    /\ half' = half
    /\ \/ half = "issue" /\ Answered /\ UNCHANGED frontVars
       \/ half = "front" /\ Served /\ UNCHANGED vars
CoreSpec == CoreSafety /\ WF_coreVars(CoreServed)

(* The expected word always comes again, whatever the predictor says and   *)
(* however often the fetch is sent elsewhere: fetching an address twice or *)
(* beyond a jump costs time only.  (Of the half that moves; Drains holds   *)
(* of a pipeline that stands still.)                                       *)
IsFed == []<>(half = "front" => MayIssue)
=============================================================================
