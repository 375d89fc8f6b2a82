----------------------------- MODULE MCFlatMap -----------------------------
(* Values of FlatMap's constants for TLC. *)
EXTENDS FlatMap, TLC

\* threaded_worker and process, over results that may be empty; a sink that
\* takes one element after the other and may cancel when it has enough
TakesAll == "all" :> "never" @@ "one" :> "settled"
EmptyResults == "all" :> {"inner"} @@ "one" :> {}
=============================================================================
