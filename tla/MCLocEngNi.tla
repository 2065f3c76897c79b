----------------------------- MODULE MCLocEngNi -----------------------------
(* Both sessions, a user who accepts or denies, two requests and an engine  *)
(* that goes down twice: two threads can meet on one session.              *)
EXTENDS LocEngNi

MCAnswers == {"ACCEPT", "DENY"}
=============================================================================
