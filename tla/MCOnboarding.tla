---------------------------- MODULE MCOnboarding ----------------------------
(* Two people, two organizations, and no difference between them.           *)
EXTENDS Onboarding, TLC

Alike == Permutations(Users) \cup Permutations(Orgs) \cup Permutations(Names)
         \cup Permutations(Workers)
=============================================================================
