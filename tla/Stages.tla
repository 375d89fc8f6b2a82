------------------------------- MODULE Stages -------------------------------
(***************************************************************************)
(* The stages that take what one source sends and give it to one sink:     *)
(* flat_map, whose elements come from further sources, or one of the       *)
(* operators that pass elements on (Operators).                            *)
(***************************************************************************)
EXTENDS MCFlatMap

CONSTANTS Operations, Limits, Supply

ASSUME StagesAssumption ==
  /\ Operations \subseteq {"map", "take", "take_while", "do_finally", "timeout"}
  /\ Limits \subseteq Nat /\ Supply \in Nat

VARIABLES
  stage,   \* "flat_map" or "operator"
  op, limit, wants, upstream, asked, given, taken, forwarded, calls, end, gone, inside, ran,
  alarm, expired, freed

O == INSTANCE Operators

operatorVars == <<op, limit, wants, upstream, asked, given, taken, forwarded, calls, end, gone,
                  inside, ran, alarm, expired, freed>>
stageVars == <<vars, stage, operatorVars>>

\* of the stage that is not there one state is enough
StagesInit ==
  /\ stage \in {"flat_map", "operator"}
  /\ Init /\ O!Init
  /\ stage = "operator" => demand = CHOOSE d \in Demands : TRUE
  /\ op # "take" \/ stage = "flat_map" => limit = CHOOSE l \in Limits : TRUE
  /\ stage = "flat_map" =>
       /\ op = (CHOOSE o \in Operations : TRUE) /\ wants = "all" /\ upstream.kind = "empty"

OfFlatMap(A) == stage = "flat_map" /\ A /\ UNCHANGED <<stage, operatorVars>>
OfOperator(A) == stage = "operator" /\ A /\ UNCHANGED <<stage, vars>>

StagesNext == OfFlatMap(Next) \/ OfOperator(O!Next)

\* calls return, sinks go on asking, and a source that is asked sends or ends, but
\* for the one behind a timeout, whose timer expires
StagesSpec ==
  /\ StagesInit /\ [][StagesNext]_stageVars
  /\ WF_stageVars(OfFlatMap(Runs)) /\ WF_stageVars(OfFlatMap(SinkRequests))
  /\ WF_stageVars(OfFlatMap(Outer)) /\ WF_stageVars(OfFlatMap(Inner))
  /\ WF_stageVars(OfOperator(O!Returns)) /\ WF_stageVars(OfOperator(O!Ask))
  /\ WF_stageVars(OfOperator(O!Timer))
  /\ WF_stageVars(OfOperator(O!Served /\ O!Answer))

(***************************************************************************)
(* Properties                                                              *)
(***************************************************************************)
\* What a stage promises in every state.
StagesSafety ==
  /\ Safety
  /\ O!Safety

\* Every stream through an operator ends if the source answers and the sink goes on
\* asking; take(0) is the exception, it neither asks nor ends.  With timeout it ends
\* even if the source does not answer.
OperatorsEnd == stage = "operator" /\ (op = "take" => limit > 0) ~> end # "" \/ freed # ""

\* A stage promises what Stream does, and comes to its end.
StagesEnding ==
  /\ Ending
  /\ O!KeepsPromise
  /\ OperatorsEnd
=============================================================================
