----------------------------- MODULE MCSubmission -----------------------------
(* Submission with two requests of type url, a text request that carries    *)
(* the URL as well, and one that does not.                                  *)
EXTENDS Submission

CONSTANTS r1, r2, r3, r4

FourRequests == {r1, r2, r3, r4}
ThreeUrls == {r1, r2, r3}
TwoLookups == {r1, r2}
===============================================================================
