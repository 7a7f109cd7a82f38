---------------------------- MODULE MCRatchetGate ----------------------------
(* Pipelines of a scoring step, a step with tools and a writing step.        *)
EXTENDS RatchetGate

Step(n, mod, ts, f, r, conf, w) ==
  [name |-> n, model |-> mod, tools |-> ts, fields |-> f, requires |-> r,
   confident |-> conf, accepts |-> w]

Fetcher == Step("fetch", FALSE, {"db"}, {1}, {1}, FALSE, 1)
Mailer == Step("fetch", FALSE, {"db", "mail"}, {1}, {1}, FALSE, 1)
Scorer == Step("score", TRUE, {}, {1, 2}, {1, 2}, TRUE, 1)
LaxScorer == Step("score", TRUE, {}, {1, 2}, {2}, TRUE, 1)
WideScorer == Step("score", TRUE, {}, {1, 2}, {1, 2}, TRUE, 2)
Looper == Step("loop", TRUE, {"web"}, {1}, {1}, FALSE, 1)
Writer == Step("write", TRUE, {}, {1, 2}, {1}, FALSE, 1)
LongWriter == Step("write", TRUE, {}, {1, 2, 3}, {1}, FALSE, 1)
LaxWriter == Step("write", TRUE, {}, {1, 2}, {2}, FALSE, 1)
Stale == Step("score", TRUE, {}, {1}, {}, FALSE, 1)

Live == {Fetcher, Mailer, Scorer, LaxScorer, WideScorer, Looper, Writer, LongWriter,
         LaxWriter}

Of(steps, threshold, policy) ==
  [steps |-> steps, threshold |-> threshold, policy |-> policy]

Full == Of(<<Fetcher, Scorer, Looper, Writer>>, TRUE, "none")
Proposals == {
  Full,
  Of(<<Fetcher, Scorer, Looper, Writer>>, FALSE, "none"),
  Of(<<Fetcher, Scorer, Looper, Writer>>, TRUE, "sync"),
  Of(<<Fetcher, Scorer, Writer>>, TRUE, "none"),
  Of(<<Fetcher, Scorer, LongWriter>>, TRUE, "none"),
  Of(<<Fetcher, Scorer, LaxWriter>>, TRUE, "none"),
  Of(<<Mailer, Scorer, Looper, Writer>>, TRUE, "none"),
  Of(<<Fetcher, LaxScorer, Writer>>, TRUE, "none"),
  Of(<<Fetcher, WideScorer, Looper, Writer>>, TRUE, "none"),
  Of(<<Scorer, Writer>>, TRUE, "none"),
  Of(<<Fetcher, Looper, Scorer>>, TRUE, "none"),
  Of(<<Fetcher, Stale, Writer>>, TRUE, "none")}

Bundle(names, tools) == [responses |-> names, tools |-> tools, scripts |-> {}]
Mocks == Bundle({"score", "write"}, {"db"})
LoopMocks == Bundle({"score", "write"}, {"db", "web"})
Callers == {Mocks, LoopMocks}

Seed(m) == [manifest |-> m, bundle |-> Mocks]
Escalating == Of(<<Fetcher, Scorer, Looper, Writer>>, TRUE, "sync")
SeededFrom == {Seed(Full), Seed(Escalating)}
=============================================================================
