---------------------------- MODULE MCPipelineRun ----------------------------
(* Small instances of PipelineRun: a review line, a branch with a join, and *)
(* versions of them that differ in one declaration.                         *)
EXTENDS PipelineRun

AllValues == {"yes", "no"}

Agent(name, inputs) ==
  [kind |-> "agent", name |-> name, inputs |-> inputs,
   when |-> [agent |-> None, holds |-> {}], gated |-> FALSE, rated |-> FALSE,
   reads |-> FALSE, model |-> 1, schema |-> AllValues, sources |-> <<>>,
   policy |-> None]
JoinOf(name, sources, policy, inputs) ==
  [Agent(name, inputs) EXCEPT !.kind = "join", !.sources = sources,
     !.policy = policy]
When(n, agent, holds) == [n EXCEPT !.when = [agent |-> agent, holds |-> holds]]
Gated(n) == [n EXCEPT !.gated = TRUE]
Rates(n) == [n EXCEPT !.rated = TRUE]
Reads(n) == [n EXCEPT !.reads = TRUE]

(* A rated step, a gated step, and a step that only runs after a yes.      *)
Only(n, vs) == [n EXCEPT !.schema = vs]
ReviewLine == <<Rates(Agent("score", <<>>)),
                Only(Gated(Agent("draft", <<"score">>)), {"yes"}),
                When(Agent("send", <<"draft">>), "score", {"yes"})>>

(* A condition, a step behind it, and an exclusive join that merges the    *)
(* branch with its alternative.                                            *)
Branch == <<Agent("triage", <<>>),
            When(Agent("deep", <<"triage">>), "triage", {"yes"}),
            Gated(Agent("check", <<"deep">>)),
            When(Agent("quick", <<"triage">>), "triage", {"no"}),
            Only(JoinOf("merge", <<"check", "quick">>, "exactly_one", <<>>),
                 {"yes"}),
            Agent("close", <<>>)>>

(* A condition on an agent that a cascade may skip, and a join that needs a *)
(* step that may be skipped.                                                *)
Dangling == <<Agent("triage", <<>>),
              When(Agent("deep", <<"triage">>), "triage", {"yes"}),
              Agent("check", <<"deep">>),
              Rates(When(Agent("note", <<"triage">>), "check", {"yes"})),
              JoinOf("sum", <<"check", "note">>, "all_present", <<"check">>)>>

(* An untrusted reader among the sources of every kind of join.            *)
TaintedJoins ==
  <<Agent("plan", <<>>), Reads(Gated(Agent("fetch", <<"plan">>))),
    JoinOf("both", <<"fetch", "plan">>, "all_present", <<"plan", "fetch">>),
    JoinOf("one", <<"both", "plan">>, "first_by_priority", <<>>),
    Agent("act", <<"one", "plan">>), When(Agent("file", <<"act">>), "one", {"yes"})>>

(* Redeployments: another model of a step, another topology.               *)
Line == <<Agent("score", <<>>), Agent("draft", <<"score">>),
          Agent("send", <<"draft">>)>>
Lines == {Line, [Line EXCEPT ![1].model = 2], [Line EXCEPT ![2].model = 2],
          [Line EXCEPT ![3].inputs = <<"score">>]}

Setup(versions, suspendable) ==
  [versions |-> versions, low |-> {"no"}, unusable |-> {}, rating |-> FALSE,
   async |-> FALSE, store |-> TRUE, suspendable |-> suspendable]

Review == [Setup({ReviewLine}, {"draft"}) EXCEPT !.rating = TRUE]
ReviewSetup == {Review}
AllSetups ==
  {Review,
   [Review EXCEPT !.store = FALSE, !.suspendable = {"score"}],
   [Setup({Branch, Dangling}, {}) EXCEPT !.rating = TRUE, !.async = TRUE,
      !.low = {"yes"}, !.unusable = {"no"}],
   Setup({TaintedJoins}, {"fetch"}),
   Setup(Lines, {})}
=============================================================================
