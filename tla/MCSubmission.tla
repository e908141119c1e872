---------------------------- MODULE MCSubmission ----------------------------
(***************************************************************************)
(* A small instance of Submission for TLC: one request, the ways to write  *)
(* it, and the requests that differ from it in one respect.                *)
(***************************************************************************)
EXTENDS Submission

Plain == [json |-> TRUE, key |-> "k1", correlation |-> "c1", bodyKey |-> "",
          bodyCorrelation |-> "", body |-> "b1", layout |-> "compact",
          wellFormed |-> TRUE, target |-> "t1"]

MCRequests ==
  {Plain,
   [Plain EXCEPT !.bodyKey = "k1", !.bodyCorrelation = "c1",
                 !.layout = "indented"],
   [Plain EXCEPT !.correlation = "c2"],
   [Plain EXCEPT !.body = "b2"],
   [Plain EXCEPT !.target = NoTarget],
   [Plain EXCEPT !.key = "k2"],
   [Plain EXCEPT !.bodyKey = "k2"], [Plain EXCEPT !.bodyCorrelation = "c2"],
   [Plain EXCEPT !.key = ""], [Plain EXCEPT !.correlation = ""],
   [Plain EXCEPT !.json = FALSE], [Plain EXCEPT !.body = "invalid"],
   [Plain EXCEPT !.wellFormed = FALSE]}
=============================================================================
