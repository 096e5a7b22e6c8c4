---- MODULE MCCodingAgent ----
EXTENDS CodingAgent, TLC
CallSymmetry == Permutations(Resumes)
====
