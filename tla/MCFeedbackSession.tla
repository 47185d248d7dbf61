-------------------------- MODULE MCFeedbackSession --------------------------
(* An instance of FeedbackSession for TLC. *)
EXTENDS FeedbackSession, TLC

\* Every context uses the same allocators.
OneAllocator == [x \in Contexts |-> "arena"]
=============================================================================
