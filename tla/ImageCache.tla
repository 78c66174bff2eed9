------------------------------ MODULE ImageCache -----------------------------
(* What builds promise the deployments that start them.                     *)
(*                                                                          *)
(* A build that returns an image returns one that was put into the registry *)
(* before; its answer is its last word; what was put there under a tag may  *)
(* be replaced, but a tag never loses the fact that it was built.           *)
CONSTANTS Builds, Tags

VARIABLES published, answer

cacheVars == <<published, answer>>

CacheInit ==
  /\ published = {}
  /\ answer = [d \in Builds |-> "none"]

Begin(d) ==
  /\ answer[d] = "none"
  /\ answer' = [answer EXCEPT ![d] = "open"]
  /\ UNCHANGED published

Publish(t) ==
  /\ published' = published \cup {t}
  /\ UNCHANGED answer

Return(d, t) ==
  /\ answer[d] = "open"
  /\ t \in published
  /\ answer' = [answer EXCEPT ![d] = t]
  /\ UNCHANGED published

GiveUp(d) ==
  /\ answer[d] = "open"
  /\ answer' = [answer EXCEPT ![d] = "failed"]
  /\ UNCHANGED published

CacheNext ==
  \/ \E d \in Builds : Begin(d) \/ GiveUp(d) \/ \E t \in Tags : Return(d, t)
  \/ \E t \in Tags : Publish(t)

CacheSpec == CacheInit /\ [][CacheNext]_cacheVars

=============================================================================
