---------------------------- MODULE TenantsProofs -----------------------------
(* Accounts, repositories and databases, for any users, names and requests. *)
EXTENDS Tenants, TLAPS

Pcs     == AccountPcs \cup RepoPcs \cup DatabasePcs
LinkPcs == {"findCreds", "createCreds", "updateCreds"}

ReqOK == req \in [Requests -> RequestType(Pcs)]

(* A request that is at work has a user, and is a link when its step is one *)
(* of a link; where a project was found or made there is one.               *)
ShapesOK ==
  \A q \in Requests :
    /\ AtWork(q) => req[q].user \in Users
    /\ AtWork(q) => (req[q].kind = "link" <=> req[q].pc \in LinkPcs)
    /\ req[q].pc \in {"resolved", "findDefault"} => project[req[q].user] # "none"

(* A project that is not of a set-up spoils it.                             *)
SetupsOK == (\A u \in Users : project[u] = "plain" => u \in spoilt) /\ DefaultUnlessTaken

Linking(q, u) == req[q].pc \in LinkPcs /\ req[q].user = u

(* The links of a user one by one: each carries a token of the account that *)
(* the user's row names, and finds the credentials as it left them.         *)
LinksOf(u) ==
  /\ \A q, r \in Requests : Linking(q, u) /\ Linking(r, u) => q = r
  /\ \A q \in Requests : Linking(q, u) => req[q].token.of = github[u]
  /\ \A q \in Requests : Linking(q, u) /\ At(q, "createCreds") => creds[u] = NoToken
  /\ (\A q \in Requests : ~Linking(q, u)) => creds[u].of = github[u]

LinksOK == \A u \in Users \ mixed : LinksOf(u)

AInv == ReqOK /\ AccountTypeOK /\ ShapesOK /\ SetupsOK /\ LinksOK

-----------------------------------------------------------------------------
(* Requests.                                                                *)

(* One request goes on.                                                     *)
Moved(q) == ReqOK' /\ \A p \in Requests \ {q} : req'[p] = req[p]

LEMMA ReqTypes ==
  ASSUME ReqOK, NEW q \in Requests
  PROVE  /\ req[q] \in RequestType(Pcs) /\ req[q].pc \in Pcs /\ req[q].kind \in Kinds
         /\ req[q].user \in Users \cup {NoUser} /\ req[q].token \in Tokens
         /\ NewRequest \in RequestType(Pcs) /\ NoToken \in Tokens
         /\ NewRequest.user = NoUser /\ NewRequest.token = NoToken
  BY DEF ReqOK, RequestType, NewRequest, NoToken, Tokens, Kinds, Pcs, AccountPcs

LEMMA Moves ==
  ASSUME ReqOK, NEW q \in Requests, NEW r \in RequestType(Pcs),
         req' = [req EXCEPT ![q] = r]
  PROVE  Moved(q) /\ req'[q] = r
  BY DEF ReqOK, Moved

LEMMA GotoMoves ==
  ASSUME ReqOK, NEW q \in Requests, NEW pc \in Pcs, Goto(q, pc)
  PROVE  /\ Moved(q) /\ req'[q].pc = pc
         /\ pc # "ended" => /\ req'[q].kind = req[q].kind /\ req'[q].user = req[q].user
                            /\ req'[q].token = req[q].token
<1> DEFINE r == IF pc = "ended" THEN [NewRequest EXCEPT !.pc = pc] ELSE [req[q] EXCEPT !.pc = pc]
<1>1. CASE pc = "ended"
  <2>1. r \in RequestType(Pcs) /\ r.pc = pc
    BY <1>1, ReqTypes DEF RequestType
  <2>2. req' = [req EXCEPT ![q] = r]
    BY <1>1 DEF Goto
  <2> HIDE DEF r
  <2> QED BY <1>1, <2>1, <2>2, Moves
<1>2. CASE pc # "ended"
  <2>1. /\ r \in RequestType(Pcs) /\ r.pc = pc /\ r.kind = req[q].kind
        /\ r.user = req[q].user /\ r.token = req[q].token
    BY <1>2, ReqTypes DEF RequestType
  <2>2. req' = [req EXCEPT ![q] = r]
    BY <1>2 DEF Goto
  <2> HIDE DEF r
  <2> QED BY <1>2, <2>1, <2>2, Moves
<1> QED BY <1>1, <1>2

LEMMA BeginMoves ==
  ASSUME ReqOK, NEW q \in Requests, NEW u \in Users, NEW kind \in Kinds, NEW pc \in Pcs,
         Begin(q, u, kind, pc)
  PROVE  /\ Moved(q) /\ At(q, "new")
         /\ req'[q].pc = pc /\ req'[q].kind = kind /\ req'[q].user = u
<1> DEFINE r1 == [req[q] EXCEPT !.pc = pc]
           r2 == [r1 EXCEPT !.kind = kind]
           r  == [req[q] EXCEPT !.pc = pc, !.kind = kind, !.user = u]
<1>1. r1 \in RequestType(Pcs) /\ r = [r2 EXCEPT !.user = u]
  BY ReqTypes DEF RequestType
<1>2. r.pc = pc /\ r.kind = kind /\ r.user = u
  BY ReqTypes DEF RequestType
<1>3. req' = [req EXCEPT ![q] = r]
  BY DEF Begin
<1> HIDE DEF r1
<1>4. r2 \in RequestType(Pcs)
  BY <1>1 DEF RequestType
<1> HIDE DEF r2
<1>5. [r2 EXCEPT !.user = u] \in RequestType(Pcs)
  BY <1>4 DEF RequestType
<1> HIDE DEF r
<1> QED BY <1>1, <1>2, <1>3, <1>5, Moves DEF Begin, IsNext

-----------------------------------------------------------------------------
(* Accounts.                                                                *)

LEMMA LinksOfKept ==
  ASSUME NEW u \in Users, LinksOf(u), github'[u] = github[u], creds'[u] = creds[u],
         \A p \in Requests : /\ Linking(p, u)' <=> Linking(p, u)
                             /\ Linking(p, u) => /\ req'[p].token = req[p].token
                                                 /\ req'[p].pc = req[p].pc
  PROVE  LinksOf(u)'
  BY DEF LinksOf, At

(* A step of q that is not one of a link.                                   *)
LEMMA LinksKept ==
  ASSUME LinksOK, NEW q \in Requests, Moved(q), UNCHANGED <<github, creds>>,
         mixed \subseteq mixed', req[q].pc \notin LinkPcs, req'[q].pc \notin LinkPcs
  PROVE  LinksOK'
<1> SUFFICES ASSUME NEW u \in Users \ mixed' PROVE LinksOf(u)'
  BY DEF LinksOK
<1>1. \A p \in Requests : /\ Linking(p, u)' <=> Linking(p, u)
                          /\ Linking(p, u) => /\ req'[p].token = req[p].token
                                              /\ req'[p].pc = req[p].pc
  <2> SUFFICES ASSUME NEW p \in Requests
               PROVE  /\ Linking(p, u)' <=> Linking(p, u)
                      /\ Linking(p, u) => req'[p].token = req[p].token /\ req'[p].pc = req[p].pc
    OBVIOUS
  <2>1. CASE p = q
    BY <2>1 DEF Linking
  <2>2. CASE p # q
    BY <2>2 DEF Linking, Moved
  <2> QED BY <2>1, <2>2
<1> QED BY <1>1, LinksOfKept DEF LinksOK

(* Users log in as they did, and may be spoilt.                             *)
LEMMA SetupsKept ==
  ASSUME SetupsOK, NEW q \in Requests, Moved(q), UNCHANGED <<user, project, setup>>,
         spoilt \subseteq spoilt', req[q].pc # "trigger" \/ req[q].user \in spoilt'
  PROVE  SetupsOK'
<1>1. \A u \in Users : project'[u] = "plain" => u \in spoilt'
  BY DEF SetupsOK
<1>2. DefaultUnlessTaken'
  <2> SUFFICES ASSUME NEW u \in user' \ spoilt', project'[u] # "default" PROVE LoggingIn(u)'
    BY DEF DefaultUnlessTaken
  <2>1. LoggingIn(u)
    BY DEF SetupsOK, DefaultUnlessTaken
  <2>2. CASE setup[u] = "running"
    BY <2>2 DEF LoggingIn
  <2>3. ASSUME NEW p \in Requests, At(p, "trigger"), req[p].user = u PROVE LoggingIn(u)'
    <3>1. p # q
      BY <2>3 DEF At
    <3> QED BY <2>3, <3>1 DEF Moved, LoggingIn, At
  <2> QED BY <2>1, <2>2, <2>3 DEF LoggingIn
<1> QED BY <1>1, <1>2 DEF SetupsOK

LEMMA ShapesKept ==
  ASSUME ShapesOK, NEW q \in Requests, Moved(q),
         \A u \in Users : project[u] # "none" => project'[u] # "none",
         req'[q].pc \notin {"new", "ended"} =>
           /\ req'[q].user \in Users
           /\ req'[q].kind = "link" <=> req'[q].pc \in LinkPcs
           /\ req'[q].pc \in {"resolved", "findDefault"} => project'[req'[q].user] # "none"
  PROVE  ShapesOK'
<1> SUFFICES ASSUME NEW p \in Requests
             PROVE  /\ AtWork(p)' => req'[p].user \in Users
                    /\ AtWork(p)' => (req'[p].kind = "link" <=> req'[p].pc \in LinkPcs)
                    /\ req'[p].pc \in {"resolved", "findDefault"} =>
                         project'[req'[p].user] # "none"
  BY DEF ShapesOK
<1>1. CASE p = q
  BY <1>1 DEF AtWork
<1>2. CASE p # q
  <2>1. req'[p] = req[p]
    BY <1>2 DEF Moved
  <2> QED BY <2>1 DEF ShapesOK, AtWork
<1> QED BY <1>1, <1>2

(* A step of q outside accounts, or one that leaves them alone.             *)
LEMMA AccountsKept ==
  ASSUME AInv, NEW q \in Requests, Moved(q),
         UNCHANGED <<user, github, creds, project, setup, spoilt, mixed>>,
         req[q].pc \notin LinkPcs \cup {"trigger"}, req'[q].pc \notin LinkPcs,
         req'[q].pc \notin {"new", "ended"} =>
           /\ req'[q].user \in Users /\ req'[q].kind # "link"
           /\ req'[q].pc \in {"resolved", "findDefault"} => project[req'[q].user] # "none"
  PROVE  AInv'
<1>1. ShapesOK'
  BY ShapesKept DEF AInv
<1>2. SetupsOK'
  BY SetupsKept DEF AInv
<1>3. LinksOK'
  BY LinksKept DEF AInv
<1>4. AccountTypeOK' /\ ReqOK'
  BY DEF AInv, AccountTypeOK, Moved
<1> QED BY <1>1, <1>2, <1>3, <1>4 DEF AInv

LEMMA LoginInv ==
  ASSUME AInv, NEW q \in Requests, NEW u \in Users, GetOrCreateUser(q, u)
  PROVE  AInv'
<1>1. /\ Moved(q) /\ At(q, "new")
      /\ req'[q].pc = "createUser" /\ req'[q].kind = "login" /\ req'[q].user = u
  BY BeginMoves DEF GetOrCreateUser, AInv, Pcs, AccountPcs, Kinds
<1>2. UNCHANGED <<user, github, creds, project, setup, spoilt, mixed>>
  BY DEF GetOrCreateUser
<1> QED BY <1>1, <1>2, AccountsKept DEF At, LinkPcs

LEMMA CreateFirebaseUserInv ==
  ASSUME AInv, NEW q \in Requests, CreateFirebaseUser(q)
  PROVE  AInv'
<1> DEFINE u == req[q].user
<1>0. /\ req[q].pc = "createUser" /\ u \in Users /\ req[q].kind # "link"
      /\ UNCHANGED <<github, creds, project, setup, spoilt, mixed>> /\ ReqOK
  BY DEF CreateFirebaseUser, At, AInv, ShapesOK, AtWork, LinkPcs
<1>1. CASE u \in user
  <2>1. Goto(q, "ended") /\ user' = user
    BY <1>1 DEF CreateFirebaseUser
  <2>2. Moved(q) /\ req'[q].pc = "ended"
    BY <1>0, <2>1, GotoMoves DEF Pcs, AccountPcs
  <2> QED BY <1>0, <2>1, <2>2, AccountsKept DEF LinkPcs
<1>2. CASE u \notin user
  <2>1. Goto(q, "trigger") /\ user' = user \cup {u}
    BY <1>2 DEF CreateFirebaseUser
  <2>2. Moved(q) /\ req'[q].pc = "trigger" /\ req'[q].user = u /\ req'[q].kind = req[q].kind
    BY <1>0, <2>1, GotoMoves DEF Pcs, AccountPcs
  <2>3. ShapesOK'
    BY <1>0, <2>2, ShapesKept DEF AInv, LinkPcs
  <2>4. LinksOK'
    BY <1>0, <2>2, LinksKept DEF AInv, LinkPcs
  <2>5. SetupsOK'
    <3>1. \A v \in Users : project'[v] = "plain" => v \in spoilt'
      BY <1>0 DEF AInv, SetupsOK
    <3>2. DefaultUnlessTaken'
      <4> SUFFICES ASSUME NEW v \in user' \ spoilt', project'[v] # "default"
                   PROVE  LoggingIn(v)'
        BY DEF DefaultUnlessTaken
      <4>1. CASE v = u
        BY <2>2, <4>1 DEF LoggingIn, At
      <4>2. CASE v # u
        <5>1. LoggingIn(v)
          BY <1>0, <2>1, <4>2 DEF AInv, SetupsOK, DefaultUnlessTaken
        <5>2. CASE setup[v] = "running"
          BY <1>0, <5>2 DEF LoggingIn
        <5>3. ASSUME NEW p \in Requests, At(p, "trigger"), req[p].user = v
              PROVE  LoggingIn(v)'
          <6>1. p # q
            BY <1>0, <5>3 DEF At
          <6> QED BY <2>2, <5>3, <6>1 DEF Moved, LoggingIn, At
        <5> QED BY <5>1, <5>2, <5>3 DEF LoggingIn
      <4> QED BY <4>1, <4>2
    <3> QED BY <3>1, <3>2 DEF SetupsOK
  <2>6. AccountTypeOK' /\ ReqOK'
    BY <1>0, <2>1, <2>2 DEF AInv, AccountTypeOK, Moved
  <2> QED BY <2>3, <2>4, <2>5, <2>6 DEF AInv
<1> QED BY <1>1, <1>2

LEMMA TriggerInv ==
  ASSUME AInv, NEW q \in Requests, TriggerAccountSetup(q)
  PROVE  AInv'
<1> DEFINE u == req[q].user
<1>0. /\ req[q].pc = "trigger" /\ u \in Users /\ ReqOK
      /\ UNCHANGED <<user, github, creds, project, spoilt, mixed>>
      /\ setup' = [setup EXCEPT ![u] = "running"]
      /\ setup \in [Users -> {"none", "running", "closed"}]
  BY DEF TriggerAccountSetup, At, AInv, AccountTypeOK, ShapesOK, AtWork
<1>1. Moved(q) /\ req'[q].pc = "ended"
  BY <1>0, GotoMoves DEF TriggerAccountSetup, Pcs, AccountPcs
<1>2. ShapesOK'
  BY <1>0, <1>1, ShapesKept DEF AInv
<1>3. LinksOK'
  BY <1>0, <1>1, LinksKept DEF AInv, LinkPcs
<1>4. SetupsOK'
  <2>1. \A v \in Users : project'[v] = "plain" => v \in spoilt'
    BY <1>0 DEF AInv, SetupsOK
  <2>2. DefaultUnlessTaken'
    <3> SUFFICES ASSUME NEW v \in user' \ spoilt', project'[v] # "default" PROVE LoggingIn(v)'
      BY DEF DefaultUnlessTaken
    <3>0. v \in Users
      BY <1>0 DEF AInv, AccountTypeOK
    <3>1. LoggingIn(v)
      BY <1>0 DEF AInv, SetupsOK, DefaultUnlessTaken
    <3>2. CASE setup[v] = "running" \/ v = u
      BY <1>0, <3>0, <3>2 DEF LoggingIn
    <3>3. ASSUME NEW p \in Requests, At(p, "trigger"), req[p].user = v, v # u
          PROVE  LoggingIn(v)'
      BY <1>1, <3>3 DEF Moved, LoggingIn, At
    <3> QED BY <3>1, <3>2, <3>3 DEF LoggingIn
  <2> QED BY <2>1, <2>2 DEF SetupsOK
<1>5. AccountTypeOK' /\ ReqOK'
  BY <1>0, <1>1 DEF AInv, AccountTypeOK, Moved
<1> QED BY <1>2, <1>3, <1>4, <1>5 DEF AInv

(* Links are as they were when the requests are.                            *)
LEMMA LinksSame ==
  ASSUME LinksOK, UNCHANGED <<req, github, creds>>, mixed \subseteq mixed'
  PROVE  LinksOK'
  BY DEF LinksOK, LinksOf, Linking, At

LEMMA CreateDefaultProjectInv ==
  ASSUME AInv, NEW u \in Users, CreateDefaultProject(u)
  PROVE  AInv'
<1>0. /\ UNCHANGED <<user, github, creds, setup, req, spoilt, mixed>>
      /\ project' = [project EXCEPT ![u] = "default"]
      /\ project \in [Users -> {"none", "plain", "default"}]
  BY DEF CreateDefaultProject, AInv, AccountTypeOK
<1>1. ShapesOK'
  BY <1>0 DEF AInv, ShapesOK, AtWork
<1>2. LinksOK'
  BY <1>0, LinksSame DEF AInv
<1>3. SetupsOK'
  BY <1>0 DEF AInv, AccountTypeOK, SetupsOK, DefaultUnlessTaken, LoggingIn, At
<1>4. AccountTypeOK' /\ ReqOK'
  BY <1>0 DEF AInv, AccountTypeOK, ReqOK
<1> QED BY <1>1, <1>2, <1>3, <1>4 DEF AInv

LEMMA SetupClosesInv ==
  ASSUME AInv, NEW u \in Users, SetupCloses(u)
  PROVE  AInv'
<1>0. /\ UNCHANGED <<user, github, creds, project, req, mixed>>
      /\ setup' = [setup EXCEPT ![u] = "closed"]
      /\ setup \in [Users -> {"none", "running", "closed"}]
      /\ project \in [Users -> {"none", "plain", "default"}]
      /\ spoilt' \subseteq Users /\ spoilt \subseteq spoilt'
      /\ project[u] # "none" \/ u \in spoilt'
  BY DEF SetupCloses, AInv, AccountTypeOK
<1>1. ShapesOK'
  BY <1>0 DEF AInv, ShapesOK, AtWork
<1>2. LinksOK'
  BY <1>0, LinksSame DEF AInv
<1>3. SetupsOK'
  <2>1. \A v \in Users : project'[v] = "plain" => v \in spoilt'
    BY <1>0 DEF AInv, SetupsOK
  <2>2. DefaultUnlessTaken'
    <3> SUFFICES ASSUME NEW v \in user' \ spoilt', project'[v] # "default" PROVE LoggingIn(v)'
      BY DEF DefaultUnlessTaken
    <3>1. v \in Users /\ LoggingIn(v)
      BY <1>0 DEF AInv, AccountTypeOK, SetupsOK, DefaultUnlessTaken
    <3>2. v # u
      BY <1>0, <2>1, <3>1 DEF AInv, SetupsOK
    <3>3. setup'[v] = setup[v]
      BY <1>0, <3>1, <3>2
    <3> QED BY <1>0, <3>1, <3>3 DEF LoggingIn, At
  <2> QED BY <2>1, <2>2 DEF SetupsOK
<1>4. AccountTypeOK' /\ ReqOK'
  BY <1>0 DEF AInv, AccountTypeOK, ReqOK
<1> QED BY <1>1, <1>2, <1>3, <1>4 DEF AInv

LEMMA GetProjectByRefInv ==
  ASSUME AInv, NEW q \in Requests, NEW u \in Users, NEW kind \in Kinds,
         GetProjectByRef(q, u, kind)
  PROVE  AInv'
<1> DEFINE pc == IF project[u] = "none" THEN "createProject" ELSE "resolved"
<1>1. pc \in Pcs /\ pc \in {"createProject", "resolved"} /\ (pc = "resolved" => project[u] # "none")
  BY DEF Pcs, AccountPcs
<1>2. /\ kind # "link" /\ Begin(q, u, kind, pc)
      /\ UNCHANGED <<user, github, creds, project, setup, spoilt, mixed>>
  BY DEF GetProjectByRef
<1> HIDE DEF pc
<1>3. /\ Moved(q) /\ At(q, "new")
      /\ req'[q].pc = pc /\ req'[q].kind = kind /\ req'[q].user = u
  BY <1>1, <1>2, BeginMoves DEF AInv
<1> QED BY <1>1, <1>2, <1>3, AccountsKept DEF At, LinkPcs

LEMMA CreateProjectInv ==
  ASSUME AInv, NEW q \in Requests, CreateProject(q)
  PROVE  AInv'
<1> DEFINE u == req[q].user
<1>0. /\ req[q].pc = "createProject" /\ u \in Users /\ req[q].kind # "link"
      /\ UNCHANGED <<user, github, creds, setup, mixed>> /\ ReqOK
      /\ project \in [Users -> {"none", "plain", "default"}]
  BY DEF CreateProject, At, AInv, AccountTypeOK, ShapesOK, AtWork, LinkPcs
<1>1. CASE project[u] = "none"
  <2>1. /\ Goto(q, "resolved") /\ project' = [project EXCEPT ![u] = "plain"]
        /\ spoilt' = spoilt \cup {u}
    BY <1>1 DEF CreateProject
  <2>2. Moved(q) /\ req'[q].pc = "resolved" /\ req'[q].user = u /\ req'[q].kind = req[q].kind
    BY <1>0, <2>1, GotoMoves DEF Pcs, AccountPcs
  <2>3. ShapesOK'
    BY <1>0, <2>1, <2>2, ShapesKept DEF AInv, LinkPcs
  <2>4. LinksOK'
    BY <1>0, <2>2, LinksKept DEF AInv, LinkPcs
  <2>5. SetupsOK'
    <3>1. \A v \in Users : project'[v] = "plain" => v \in spoilt'
      BY <1>0, <2>1 DEF AInv, SetupsOK
    <3>2. DefaultUnlessTaken'
      <4> SUFFICES ASSUME NEW v \in user' \ spoilt', project'[v] # "default"
                   PROVE  LoggingIn(v)'
        BY DEF DefaultUnlessTaken
      <4>1. LoggingIn(v)
        BY <1>0, <2>1 DEF AInv, AccountTypeOK, SetupsOK, DefaultUnlessTaken
      <4>2. CASE setup[v] = "running"
        BY <1>0, <4>2 DEF LoggingIn
      <4>3. ASSUME NEW p \in Requests, At(p, "trigger"), req[p].user = v
            PROVE  LoggingIn(v)'
        BY <1>0, <2>2, <4>3 DEF Moved, LoggingIn, At
      <4> QED BY <4>1, <4>2, <4>3 DEF LoggingIn
    <3> QED BY <3>1, <3>2 DEF SetupsOK
  <2>6. AccountTypeOK' /\ ReqOK'
    BY <1>0, <2>1, <2>2 DEF AInv, AccountTypeOK, Moved
  <2> QED BY <2>3, <2>4, <2>5, <2>6 DEF AInv
<1>2. CASE project[u] # "none"
  <2>1. Goto(q, "ended") /\ UNCHANGED <<project, spoilt>>
    BY <1>2 DEF CreateProject
  <2>2. Moved(q) /\ req'[q].pc = "ended"
    BY <1>0, <2>1, GotoMoves DEF Pcs, AccountPcs
  <2> QED BY <1>0, <2>1, <2>2, AccountsKept DEF LinkPcs
<1> QED BY <1>1, <1>2

(* What the steps of a link leave alone.                                    *)
LEMMA LinkStep ==
  ASSUME AInv, NEW q \in Requests, Moved(q), UNCHANGED <<user, project, setup>>,
         spoilt' = spoilt, req[q].pc # "trigger",
         req'[q].pc \in LinkPcs => req'[q].user \in Users /\ req'[q].kind = "link",
         req'[q].pc \in LinkPcs \cup {"ended"}, LinksOK', AccountTypeOK'
  PROVE  AInv'
<1>1. ShapesOK'
  BY ShapesKept DEF AInv, LinkPcs
<1>2. SetupsOK'
  BY SetupsKept DEF AInv
<1> QED BY <1>1, <1>2 DEF AInv, Moved

(* The links of the users other than that of q.                             *)
LEMMA OtherLinks ==
  ASSUME LinksOK, NEW q \in Requests, Moved(q), NEW u, mixed \subseteq mixed',
         \A v \in Users \ {u} : github'[v] = github[v] /\ creds'[v] = creds[v],
         req[q].pc \in LinkPcs => req[q].user = u, req'[q].pc \in LinkPcs => req'[q].user = u
  PROVE  \A v \in Users \ mixed' : v # u => LinksOf(v)'
<1> SUFFICES ASSUME NEW v \in Users \ mixed', v # u PROVE LinksOf(v)'
  OBVIOUS
<1>1. \A p \in Requests : /\ Linking(p, v)' <=> Linking(p, v)
                          /\ Linking(p, v) => req'[p].token = req[p].token /\ req'[p].pc = req[p].pc
  <2> SUFFICES ASSUME NEW p \in Requests
               PROVE  /\ Linking(p, v)' <=> Linking(p, v)
                      /\ Linking(p, v) => req'[p].token = req[p].token /\ req'[p].pc = req[p].pc
    OBVIOUS
  <2>1. CASE p = q
    BY <2>1 DEF Linking
  <2>2. CASE p # q
    BY <2>2 DEF Linking, Moved
  <2> QED BY <2>1, <2>2
<1> QED BY <1>1, LinksOfKept DEF LinksOK

LEMMA LinkGitHubInv ==
  ASSUME AInv, NEW q \in Requests, NEW u \in Users, NEW t \in Tokens, LinkGitHub(q, u, t)
  PROVE  AInv'
<1> DEFINE r == [pc |-> "findCreds", kind |-> "link", user |-> u, token |-> t]
<1>1. /\ r \in RequestType(Pcs) /\ req' = [req EXCEPT ![q] = r] /\ At(q, "new")
  BY DEF LinkGitHub, RequestType, Pcs, AccountPcs, Kinds, IsNext
<1>2. Moved(q) /\ req'[q] = r
  BY <1>1, Moves DEF AInv
<1>3. /\ UNCHANGED <<user, creds, project, setup, spoilt>>
      /\ github' = [github EXCEPT ![u] = t.of]
      /\ github \in [Users -> GitHubAccounts \cup {NoGitHub}]
      /\ mixed' = IF Others(q, u, "link") # {} THEN mixed \cup {u} ELSE mixed
      /\ mixed \subseteq Users
  BY DEF LinkGitHub, AInv, AccountTypeOK
<1>4. AccountTypeOK'
  <2>1. t.of \in GitHubAccounts \cup {NoGitHub}
    BY DEF Tokens
  <2> QED BY <1>3, <2>1 DEF AInv, AccountTypeOK
<1>5. LinksOK'
  <2>1. mixed \subseteq mixed'
    BY <1>3
  <2>2. \A v \in Users \ mixed' : v # u => LinksOf(v)'
    BY <1>1, <1>2, <1>3, <2>1, OtherLinks DEF AInv, At, LinkPcs
  <2>3. u \notin mixed' => LinksOf(u)'
    <3> SUFFICES ASSUME u \notin mixed' PROVE LinksOf(u)'
      OBVIOUS
    <3>1. \A p \in Requests \ {q} : ~(AtWork(p) /\ req[p].user = u /\ req[p].kind = "link")
      BY <1>3 DEF Others
    <3>2. \A p \in Requests \ {q} : ~Linking(p, u)
      BY <3>1 DEF AInv, ShapesOK, Linking, AtWork, LinkPcs
    <3>3. \A p \in Requests \ {q} : ~Linking(p, u)'
      BY <1>2, <3>2 DEF Moved, Linking
    <3>4. Linking(q, u)' /\ ~At(q, "createCreds")' /\ req'[q].token.of = github'[u]
      BY <1>2, <1>3 DEF Linking, LinkPcs, At
    <3> QED BY <3>3, <3>4 DEF LinksOf
  <2> QED BY <2>2, <2>3 DEF LinksOK
<1>6. req'[q].user = u /\ req'[q].kind = "link" /\ req'[q].pc = "findCreds"
  BY <1>2
<1> QED BY <1>1, <1>2, <1>3, <1>4, <1>5, <1>6, LinkStep DEF At, LinkPcs

(* A link that goes on, and one that is done.                               *)
LEMMA LinkGoesOn ==
  ASSUME AInv, NEW q \in Requests, NEW u \in Users, Linking(q, u), Moved(q),
         UNCHANGED <<github, creds>>, mixed \subseteq mixed',
         req'[q].pc \in {"createCreds", "updateCreds"}, req'[q].user = u,
         u \notin mixed' => req'[q].token.of = github[u],
         req'[q].pc = "createCreds" => creds[u] = NoToken
  PROVE  LinksOK'
<1>1. \A v \in Users \ mixed' : v # u => LinksOf(v)'
  BY OtherLinks DEF AInv, Linking
<1>2. u \notin mixed' => LinksOf(u)'
  <2> SUFFICES ASSUME u \notin mixed' PROVE LinksOf(u)'
    OBVIOUS
  <2>1. LinksOf(u)
    BY DEF AInv, LinksOK
  <2>2. \A p \in Requests \ {q} : ~Linking(p, u)
    BY <2>1 DEF LinksOf
  <2>3. \A p \in Requests \ {q} : ~Linking(p, u)'
    BY <2>2 DEF Moved, Linking
  <2>4. Linking(q, u)'
    BY DEF Linking, LinkPcs
  <2> QED BY <2>3, <2>4 DEF LinksOf, At
<1> QED BY <1>1, <1>2 DEF LinksOK

LEMMA LinkEnds ==
  ASSUME AInv, NEW q \in Requests, NEW u \in Users, Linking(q, u), Moved(q),
         github' = github, \A v \in Users \ {u} : creds'[v] = creds[v],
         mixed \subseteq mixed', req'[q].pc = "ended",
         u \notin mixed' => creds'[u].of = github[u]
  PROVE  LinksOK'
<1>1. \A v \in Users \ mixed' : v # u => LinksOf(v)'
  BY OtherLinks DEF AInv, Linking, LinkPcs
<1>2. u \notin mixed' => LinksOf(u)'
  <2> SUFFICES ASSUME u \notin mixed' PROVE LinksOf(u)'
    OBVIOUS
  <2>1. LinksOf(u)
    BY DEF AInv, LinksOK
  <2>2. \A p \in Requests \ {q} : ~Linking(p, u)
    BY <2>1 DEF LinksOf
  <2>3. \A p \in Requests : ~Linking(p, u)'
    BY <2>2 DEF Moved, Linking, LinkPcs
  <2> QED BY <2>3 DEF LinksOf
<1> QED BY <1>1, <1>2 DEF LinksOK

LEMMA LinkShape ==
  ASSUME AInv, NEW q \in Requests, req[q].pc \in LinkPcs
  PROVE  /\ req[q].user \in Users /\ req[q].kind = "link" /\ Linking(q, req[q].user)
         /\ creds \in [Users -> Tokens] /\ mixed \subseteq Users
         /\ req[q].user \notin mixed => LinksOf(req[q].user)
  BY DEF AInv, ShapesOK, AtWork, LinkPcs, Linking, AccountTypeOK, LinksOK

LEMMA FindCredsInv ==
  ASSUME AInv, NEW q \in Requests, FindCreds(q)
  PROVE  AInv'
<1> DEFINE u == req[q].user
<1>0. /\ req[q].pc = "findCreds" /\ u \in Users /\ req[q].kind = "link" /\ Linking(q, u)
      /\ UNCHANGED <<user, github, creds, project, setup, spoilt>> /\ ReqOK
      /\ creds \in [Users -> Tokens] /\ mixed \subseteq Users
      /\ u \notin mixed => LinksOf(u)
  BY LinkShape DEF FindCreds, At, AInv, LinkPcs
<1>1. u \notin mixed => req[q].token.of = github[u]
  BY <1>0 DEF LinksOf
<1>2. CASE \/ creds[u] = NoToken /\ Goto(q, "createCreds") /\ UNCHANGED mixed
           \/ Goto(q, "updateCreds") /\ UNCHANGED mixed
  <2>1. PICK pc \in {"createCreds", "updateCreds"} :
          Goto(q, pc) /\ mixed' = mixed /\ (pc = "createCreds" => creds[u] = NoToken)
    BY <1>2
  <2>2. /\ Moved(q) /\ req'[q].pc = pc /\ req'[q].user = u /\ req'[q].kind = "link"
        /\ req'[q].token = req[q].token
    BY <1>0, <2>1, GotoMoves DEF Pcs, AccountPcs
  <2>3. LinksOK'
    BY <1>0, <1>1, <2>1, <2>2, LinkGoesOn
  <2>4. AccountTypeOK'
    BY <1>0, <2>1 DEF AInv, AccountTypeOK
  <2> QED BY <1>0, <2>1, <2>2, <2>3, <2>4, LinkStep DEF LinkPcs
<1>3. CASE /\ req' = [req EXCEPT ![q].pc = "updateCreds", ![q].token = creds[u]]
           /\ mixed' = IF creds[u].of # req[q].token.of THEN mixed \cup {u} ELSE mixed
  <2> DEFINE r1 == [req[q] EXCEPT !.pc = "updateCreds"]
             r  == [req[q] EXCEPT !.pc = "updateCreds", !.token = creds[u]]
  <2>1. r1 \in RequestType(Pcs) /\ r = [r1 EXCEPT !.token = creds[u]]
    BY ReqTypes, <1>0 DEF RequestType, Pcs, AccountPcs
  <2>2. r.pc = "updateCreds" /\ r.user = u /\ r.kind = "link" /\ r.token = creds[u]
    BY ReqTypes, <1>0 DEF RequestType
  <2>3. req' = [req EXCEPT ![q] = r]
    BY <1>0, <1>3 DEF ReqOK
  <2> HIDE DEF r1
  <2>4. [r1 EXCEPT !.token = creds[u]] \in RequestType(Pcs)
    BY <1>0, <2>1 DEF RequestType
  <2> HIDE DEF r
  <2>5. Moved(q) /\ req'[q] = r
    BY <1>0, <2>1, <2>3, <2>4, Moves
  <2>6. mixed \subseteq mixed' /\ mixed' \subseteq Users
        /\ (u \notin mixed' => creds[u].of = req[q].token.of)
    BY <1>0, <1>3
  <2>7. LinksOK'
    BY <1>0, <1>1, <2>2, <2>5, <2>6, LinkGoesOn
  <2>8. AccountTypeOK'
    BY <1>0, <2>6 DEF AInv, AccountTypeOK
  <2> QED BY <1>0, <2>2, <2>5, <2>7, <2>8, LinkStep DEF LinkPcs
<1> QED BY <1>2, <1>3 DEF FindCreds

LEMMA CreateGitHubCredsInv ==
  ASSUME AInv, NEW q \in Requests, CreateGitHubCreds(q)
  PROVE  AInv'
<1> DEFINE u == req[q].user
<1>0. /\ req[q].pc = "createCreds" /\ u \in Users /\ Linking(q, u)
      /\ UNCHANGED <<user, github, project, setup, spoilt, mixed>> /\ ReqOK
      /\ creds \in [Users -> Tokens]
      /\ u \notin mixed => LinksOf(u)
  BY LinkShape DEF CreateGitHubCreds, At, AInv, LinkPcs
<1>1. u \notin mixed => req[q].token.of = github[u] /\ creds[u] = NoToken
  BY <1>0 DEF LinksOf, At
<1>2. creds' = [creds EXCEPT ![u] = IF creds[u] = NoToken THEN req[q].token ELSE creds[u]]
  BY DEF CreateGitHubCreds
<1>3. Moved(q) /\ req'[q].pc = "ended"
  BY <1>0, GotoMoves DEF CreateGitHubCreds, Pcs, AccountPcs
<1>4. LinksOK'
  BY <1>0, <1>1, <1>2, <1>3, LinkEnds
<1>5. AccountTypeOK'
  BY <1>0, <1>2, ReqTypes DEF AInv, AccountTypeOK
<1> QED BY <1>0, <1>3, <1>4, <1>5, LinkStep DEF LinkPcs

LEMMA UpdateGitHubOAuthTokenInv ==
  ASSUME AInv, NEW q \in Requests, UpdateGitHubOAuthToken(q)
  PROVE  AInv'
<1> DEFINE u == req[q].user
<1>0. /\ req[q].pc = "updateCreds" /\ u \in Users /\ Linking(q, u)
      /\ UNCHANGED <<user, github, project, setup, spoilt, mixed>> /\ ReqOK
      /\ creds \in [Users -> Tokens]
      /\ u \notin mixed => LinksOf(u)
  BY LinkShape DEF UpdateGitHubOAuthToken, At, AInv, LinkPcs
<1>1. u \notin mixed => req[q].token.of = github[u]
  BY <1>0 DEF LinksOf
<1>2. creds' = [creds EXCEPT ![u] = req[q].token]
  BY DEF UpdateGitHubOAuthToken
<1>3. Moved(q) /\ req'[q].pc = "ended"
  BY <1>0, GotoMoves DEF UpdateGitHubOAuthToken, Pcs, AccountPcs
<1>4. LinksOK'
  BY <1>0, <1>1, <1>2, <1>3, LinkEnds
<1>5. AccountTypeOK'
  BY <1>0, <1>2, ReqTypes DEF AInv, AccountTypeOK
<1> QED BY <1>0, <1>3, <1>4, <1>5, LinkStep DEF LinkPcs

LEMMA AccountRequestFailsInv ==
  ASSUME AInv, NEW q \in Requests, AccountRequestFails(q)
  PROVE  AInv'
<1> DEFINE u == req[q].user
<1>0. /\ AtWork(q) /\ u \in Users /\ (req[q].kind = "link" <=> req[q].pc \in LinkPcs)
      /\ UNCHANGED <<user, github, creds, project, setup>> /\ ReqOK
      /\ spoilt \subseteq Users /\ mixed \subseteq Users
      /\ spoilt' = (IF At(q, "trigger") THEN spoilt \cup {u} ELSE spoilt)
      /\ mixed' = (IF req[q].kind = "link" THEN mixed \cup {u} ELSE mixed)
  BY DEF AccountRequestFails, AInv, ShapesOK, AccountTypeOK
<1>1. Moved(q) /\ req'[q].pc = "ended"
  BY <1>0, GotoMoves DEF AccountRequestFails, Pcs, AccountPcs
<1>2. ShapesOK'
  BY <1>0, <1>1, ShapesKept DEF AInv
<1>3. SetupsOK'
  BY <1>0, <1>1, SetupsKept DEF AInv, At
<1>4. LinksOK'
  <2>1. CASE req[q].pc \in LinkPcs
    <3>1. Linking(q, u) /\ u \in mixed'
      BY <1>0, <2>1 DEF Linking
    <3> QED BY <1>0, <1>1, <3>1, LinkEnds
  <2>2. CASE req[q].pc \notin LinkPcs
    BY <1>0, <1>1, <2>2, LinksKept DEF AInv, LinkPcs
  <2> QED BY <2>1, <2>2
<1>5. AccountTypeOK' /\ ReqOK'
  BY <1>0, <1>1 DEF AInv, AccountTypeOK, Moved
<1> QED BY <1>2, <1>3, <1>4, <1>5 DEF AInv

LEMMA AccountNextInv == AInv /\ AccountNext => AInv'
<1> SUFFICES ASSUME AInv, AccountNext PROVE AInv'
  OBVIOUS
<1>1. ASSUME NEW q \in Requests, AccountStep(q) PROVE AInv'
  BY <1>1, CreateFirebaseUserInv, TriggerInv, CreateProjectInv, FindCredsInv,
     CreateGitHubCredsInv, UpdateGitHubOAuthTokenInv, AccountRequestFailsInv DEF AccountStep
<1>2. ASSUME NEW q \in Requests, NEW u \in Users,
             \/ GetOrCreateUser(q, u)
             \/ \E kind \in Kinds : GetProjectByRef(q, u, kind)
             \/ \E t \in Tokens : LinkGitHub(q, u, t)
      PROVE  AInv'
  BY <1>2, LoginInv, GetProjectByRefInv, LinkGitHubInv
<1>3. ASSUME NEW u \in Users, CreateDefaultProject(u) \/ SetupCloses(u) PROVE AInv'
  BY <1>3, CreateDefaultProjectInv, SetupClosesInv
<1> QED BY <1>1, <1>2, <1>3 DEF AccountNext

LEMMA AccountInitInv == AccountInit => AInv
<1> SUFFICES ASSUME AccountInit PROVE AInv
  OBVIOUS
<1>1. NewRequest \in RequestType(Pcs) /\ NewRequest.pc = "new" /\ NoToken \in Tokens
      /\ NoToken.of = NoGitHub
  BY DEF NewRequest, RequestType, Pcs, AccountPcs, Kinds, NoToken, Tokens
<1>2. ReqOK /\ AccountTypeOK
  BY <1>1 DEF AccountInit, ReqOK, AccountTypeOK
<1>3. ShapesOK
  BY <1>1 DEF AccountInit, ShapesOK, AtWork
<1>4. SetupsOK
  BY DEF AccountInit, SetupsOK, DefaultUnlessTaken
<1>5. LinksOK
  BY <1>1 DEF AccountInit, LinksOK, LinksOf, Linking, LinkPcs
<1> QED BY <1>2, <1>3, <1>4, <1>5 DEF AInv

(* What the steps of accounts do to the requests: one goes on, outside the  *)
(* steps of repositories and databases.                                     *)
Outside == RepoPcs \cup DatabasePcs

AccountMove ==
  /\ spoilt \subseteq spoilt'
  /\ \/ UNCHANGED req
     \/ \E q \in Requests : /\ Moved(q) /\ req[q].pc \notin Outside \cup {"ended"}
                            /\ req'[q].pc \notin Outside

LEMMA GotoIsAccountMove ==
  ASSUME ReqOK, NEW q \in Requests, NEW pc \in AccountPcs, Goto(q, pc),
         req[q].pc \in AccountPcs \ {"ended"}, spoilt \subseteq spoilt'
  PROVE  AccountMove
<1>1. Moved(q) /\ req'[q].pc = pc
  BY GotoMoves DEF Pcs
<1> QED BY <1>1 DEF AccountMove, Outside, AccountPcs, RepoPcs, DatabasePcs

LEMMA AccountNextMoves == AInv /\ AccountNext => AccountMove
<1> SUFFICES ASSUME AInv, AccountNext PROVE AccountMove
  OBVIOUS
<1>0. ReqOK
  BY DEF AInv
<1>1. ASSUME NEW q \in Requests, AccountStep(q) PROVE AccountMove
  <2>1. CASE FindCreds(q)
    <3>1. spoilt' = spoilt /\ req[q].pc = "findCreds"
      BY <2>1 DEF FindCreds, At
    <3>2. CASE \E pc \in {"createCreds", "updateCreds"} : Goto(q, pc)
      BY <1>0, <3>1, <3>2, GotoIsAccountMove DEF AccountPcs
    <3>3. CASE req' = [req EXCEPT ![q].pc = "updateCreds", ![q].token = creds[req[q].user]]
      <4>1. req'[q].pc = "updateCreds" /\ \A p \in Requests \ {q} : req'[p] = req[p]
        BY <1>0, <3>3, ReqTypes DEF ReqOK, RequestType
      <4>2. AInv'
        BY <2>1, FindCredsInv
      <4> QED BY <3>1, <4>1, <4>2
             DEF AInv, Moved, AccountMove, Outside, RepoPcs, DatabasePcs
    <3> QED BY <2>1, <3>2, <3>3 DEF FindCreds
  <2>2. CASE ~FindCreds(q)
    <3>1. \E pc \in {"ended", "trigger", "resolved"} : Goto(q, pc)
      BY <1>1, <2>2 DEF AccountStep, CreateFirebaseUser, TriggerAccountSetup, CreateProject,
                        CreateGitHubCreds, UpdateGitHubOAuthToken, AccountRequestFails
    <3>2. req[q].pc \in AccountPcs \ {"ended"} /\ spoilt \subseteq spoilt'
      BY <1>1, <2>2 DEF AccountStep, CreateFirebaseUser, TriggerAccountSetup, CreateProject,
                        CreateGitHubCreds, UpdateGitHubOAuthToken, AccountRequestFails, At,
                        AccountPcs, AtWork
    <3> QED BY <1>0, <3>1, <3>2, GotoIsAccountMove DEF AccountPcs
  <2> QED BY <2>1, <2>2
<1>2. ASSUME NEW q \in Requests, NEW u \in Users, NEW kind \in Kinds,
             GetOrCreateUser(q, u) \/ GetProjectByRef(q, u, kind)
      PROVE  AccountMove
  <2>1. \E pc \in {"createUser", "createProject", "resolved"}, k \in Kinds : Begin(q, u, k, pc)
    BY <1>2 DEF GetOrCreateUser, GetProjectByRef, Kinds
  <2>2. Moved(q) /\ At(q, "new") /\ req'[q].pc \in {"createUser", "createProject", "resolved"}
    BY <1>0, <2>1, BeginMoves DEF Pcs, AccountPcs
  <2>3. spoilt' = spoilt
    BY <1>2 DEF GetOrCreateUser, GetProjectByRef
  <2> QED BY <2>2, <2>3 DEF AccountMove, At, Outside, RepoPcs, DatabasePcs
<1>3. ASSUME NEW q \in Requests, NEW u \in Users, NEW t \in Tokens, LinkGitHub(q, u, t)
      PROVE  AccountMove
  <2> DEFINE r == [pc |-> "findCreds", kind |-> "link", user |-> u, token |-> t]
  <2>1. /\ r \in RequestType(Pcs) /\ req' = [req EXCEPT ![q] = r] /\ At(q, "new")
        /\ spoilt' = spoilt
    BY <1>3 DEF LinkGitHub, RequestType, Pcs, AccountPcs, Kinds, IsNext
  <2>2. Moved(q) /\ req'[q] = r
    BY <1>0, <2>1, Moves
  <2> QED BY <2>1, <2>2 DEF AccountMove, At, Outside, RepoPcs, DatabasePcs
<1>4. ASSUME NEW u \in Users, CreateDefaultProject(u) \/ SetupCloses(u) PROVE AccountMove
  BY <1>4 DEF CreateDefaultProject, SetupCloses, AccountMove
<1> QED BY <1>1, <1>2, <1>3, <1>4 DEF AccountNext, Kinds

-----------------------------------------------------------------------------
(* Repositories.                                                            *)

(* What a request at a step of repositories works with.                     *)
RepoWorkOK ==
  \A q \in Requests :
    /\ req[q].pc = "createToken" => repoReq[q].id \in RepoIds
    /\ req[q].pc \in {"revokeTokens", "deleteRepo"} => repoReq[q].id \in revoked

(* The name of a user who had one picked at a time, and what lies under it. *)
Named(q, u) == req[q].pc \in {"findRepo", "insertRepo"} /\ req[q].user = u

Naming(q, u) == req[q].pc = "setUsername" /\ req[q].user = u

NamesOf(u) ==
  /\ \A q, r \in Requests : Naming(q, u) /\ Naming(r, u) => q = r
  /\ \A q \in Requests : Naming(q, u) =>
       username[u] = NoUsername /\ repoReq[q].owner # NoUsername
  /\ \A q \in Requests : Named(q, u) =>
       repoReq[q].owner = username[u] /\ username[u] # NoUsername
  /\ \A i \in RepoIds : LiveRepo(i) /\ repo[i].user = u =>
       repo[i].owner = username[u] /\ username[u] # NoUsername

NamesOK == \A u \in Users \ renamed : NamesOf(u)

OwnersOK == \A i \in RepoIds : LiveRepo(i) => repo[i].user \in Users

RInv == RepoTypeOK /\ RepoWorkOK /\ NamesOK /\ OwnersOK /\ RemoteWorks /\ ServiceFindsDefault

LEMMA ReposKept ==
  ASSUME RInv, UNCHANGED repoVars, spoilt \subseteq spoilt',
         \/ UNCHANGED req
         \/ \E q \in Requests : /\ Moved(q) /\ req[q].pc \notin RepoPcs
                                /\ req'[q].pc \notin RepoPcs
  PROVE  RInv'
<1>0. /\ UNCHANGED <<username, repo, token, repoReq, renamed, revoked, answered, refused>>
  BY DEF repoVars, historyVars
<1>1. \A p \in Requests : req'[p] = req[p] \/ req'[p].pc \notin RepoPcs
  BY DEF Moved
<1>2. RepoTypeOK' /\ OwnersOK' /\ RemoteWorks' /\ ServiceFindsDefault'
  BY <1>0 DEF RInv, RepoTypeOK, OwnersOK, RemoteWorks, ServiceFindsDefault, LiveRepo
<1>3. RepoWorkOK'
  BY <1>0, <1>1 DEF RInv, RepoWorkOK, RepoPcs
<1>4. NamesOK'
  <2> SUFFICES ASSUME NEW u \in Users \ renamed PROVE NamesOf(u)'
    BY <1>0 DEF NamesOK
  <2>1. \A p \in Requests : /\ Naming(p, u)' => Naming(p, u)
                            /\ Named(p, u)' => Named(p, u)
    BY <1>1 DEF Naming, Named, RepoPcs
  <2>2. NamesOf(u)
    BY DEF RInv, NamesOK
  <2> QED BY <1>0, <2>1, <2>2 DEF NamesOf, LiveRepo
<1> QED BY <1>2, <1>3, <1>4 DEF RInv

(* A step of a request to a repository.                                     *)
LEMMA RepoStepMoves ==
  ASSUME AInv, RepoTypeOK, NEW q \in Requests, NEW pc \in RepoPcs \cup {"resolved"},
         NEW next \in RepoPcs \cup {"ended"}, NEW work \in RepoRequestType,
         RepoStep(q, pc, next, work), next = "findDefault" => pc = "resolved"
  PROVE  /\ AInv' /\ Moved(q) /\ req[q].pc = pc /\ req'[q].pc = next
         /\ req[q].user \in Users
         /\ next # "ended" => req'[q].user = req[q].user
         /\ repoReq' \in [Requests -> RepoRequestType] /\ repoReq'[q] = work
         /\ \A p \in Requests \ {q} : repoReq'[p] = repoReq[p]
         /\ spoilt' = spoilt /\ project' = project
<1>1. /\ req[q].pc = pc /\ Goto(q, next) /\ repoReq' = [repoReq EXCEPT ![q] = work]
      /\ UNCHANGED <<user, github, creds, project, setup, spoilt, mixed>>
  BY DEF RepoStep, At
<1>2. /\ Moved(q) /\ req'[q].pc = next
      /\ next # "ended" => req'[q].user = req[q].user /\ req'[q].kind = req[q].kind
  BY <1>1, GotoMoves DEF AInv, Pcs, AccountPcs
<1>3. /\ req[q].user \in Users /\ req[q].kind # "link"
      /\ pc = "resolved" => project[req[q].user] # "none"
      /\ pc \notin LinkPcs \cup {"trigger"} /\ next \notin LinkPcs
  BY <1>1 DEF AInv, ShapesOK, AtWork, RepoPcs, LinkPcs
<1>4. AInv'
  BY <1>1, <1>2, <1>3, AccountsKept DEF RepoPcs
<1>5. /\ repoReq' \in [Requests -> RepoRequestType] /\ repoReq'[q] = work
      /\ \A p \in Requests \ {q} : repoReq'[p] = repoReq[p]
  BY <1>1 DEF RepoTypeOK
<1> QED BY <1>1, <1>2, <1>3, <1>4, <1>5

(* The work of the other requests, and the names of the other users.        *)
LEMMA OtherWork ==
  ASSUME RInv, NEW q \in Requests, Moved(q), revoked \subseteq revoked',
         \A p \in Requests \ {q} : repoReq'[p] = repoReq[p],
         req'[q].pc = "createToken" => repoReq'[q].id \in RepoIds,
         req'[q].pc \in {"revokeTokens", "deleteRepo"} => repoReq'[q].id \in revoked'
  PROVE  RepoWorkOK'
<1> SUFFICES ASSUME NEW p \in Requests
             PROVE  /\ req'[p].pc = "createToken" => repoReq'[p].id \in RepoIds
                    /\ req'[p].pc \in {"revokeTokens", "deleteRepo"} =>
                         repoReq'[p].id \in revoked'
  BY DEF RepoWorkOK
<1>1. CASE p = q
  BY <1>1
<1>2. CASE p # q
  BY <1>2 DEF RInv, RepoWorkOK, Moved
<1> QED BY <1>1, <1>2

LEMMA NamesOfKept ==
  ASSUME NEW u, NamesOf(u), username'[u] = username[u],
         \A p \in Requests : Naming(p, u)' =>
           Naming(p, u) /\ repoReq'[p].owner = repoReq[p].owner,
         \A p \in Requests : Named(p, u)' =>
           repoReq'[p].owner = username[u] /\ username[u] # NoUsername,
         \A i \in RepoIds : (LiveRepo(i) /\ repo[i].user = u)' =>
           repo'[i].owner = username[u] /\ username[u] # NoUsername
  PROVE  NamesOf(u)'
  BY DEF NamesOf

(* A request that picks no name and inserts no row.                         *)
LEMMA NamesKept ==
  ASSUME RInv, NEW q \in Requests, Moved(q), UNCHANGED <<username, renamed>>,
         \A p \in Requests \ {q} : repoReq'[p] = repoReq[p],
         \A i \in RepoIds : LiveRepo(i)' => LiveRepo(i) /\ repo'[i] = repo[i],
         req'[q].pc # "setUsername",
         req'[q].pc \in {"findRepo", "insertRepo"} /\ req'[q].user \in Users \ renamed =>
           /\ repoReq'[q].owner = username[req'[q].user]
           /\ username[req'[q].user] # NoUsername
  PROVE  NamesOK'
<1> SUFFICES ASSUME NEW u \in Users \ renamed PROVE NamesOf(u)'
  BY DEF NamesOK
<1>0. NamesOf(u)
  BY DEF RInv, NamesOK
<1>1. ASSUME NEW p \in Requests, Naming(p, u)'
      PROVE  Naming(p, u) /\ repoReq'[p].owner = repoReq[p].owner
  BY <1>1 DEF Naming, Moved
<1>2. ASSUME NEW p \in Requests, Named(p, u)'
      PROVE  repoReq'[p].owner = username[u] /\ username[u] # NoUsername
  <2>1. CASE p = q
    BY <1>2, <2>1 DEF Named
  <2>2. CASE p # q
    BY <1>0, <1>2, <2>2 DEF Named, Moved, NamesOf
  <2> QED BY <2>1, <2>2
<1>3. \A i \in RepoIds : (LiveRepo(i) /\ repo[i].user = u)' =>
        repo'[i].owner = username[u] /\ username[u] # NoUsername
  BY <1>0 DEF NamesOf
<1> QED BY <1>0, <1>1, <1>2, <1>3, NamesOfKept

(* A request that leaves names and rows alone.                              *)
LEMMA RepoQuiet ==
  ASSUME RInv, NEW q \in Requests, Moved(q), UNCHANGED <<username, repo, renamed>>,
         repoReq' \in [Requests -> RepoRequestType],
         \A p \in Requests \ {q} : repoReq'[p] = repoReq[p],
         req'[q].pc # "setUsername",
         req'[q].pc \in {"findRepo", "insertRepo"} /\ req'[q].user \in Users \ renamed =>
           /\ repoReq'[q].owner = username[req'[q].user]
           /\ username[req'[q].user] # NoUsername,
         req'[q].pc = "createToken" => repoReq'[q].id \in RepoIds,
         req'[q].pc \in {"revokeTokens", "deleteRepo"} => repoReq'[q].id \in revoked',
         revoked \subseteq revoked', token' \subseteq RepoIds, revoked' \subseteq RepoIds,
         answered' \subseteq RepoIds, refused' \subseteq Users,
         RemoteWorks', ServiceFindsDefault'
  PROVE  RInv'
<1>1. RepoWorkOK'
  BY OtherWork
<1>2. NamesOK'
  BY NamesKept DEF LiveRepo
<1>3. RepoTypeOK' /\ OwnersOK'
  BY DEF RInv, RepoTypeOK, OwnersOK, LiveRepo
<1> QED BY <1>1, <1>2, <1>3 DEF RInv

LEMMA RepoWorkTypes ==
  ASSUME RepoTypeOK, NEW q \in Requests
  PROVE  /\ repoReq[q] \in RepoRequestType /\ NoRepoRequest \in RepoRequestType
         /\ \A i \in RepoIds : /\ [repoReq[q] EXCEPT !.id = i] \in RepoRequestType
                               /\ [repoReq[q] EXCEPT !.id = i].id = i
         /\ \A n \in Usernames : [owner |-> n, id |-> 0] \in RepoRequestType
  BY DEF RepoTypeOK, RepoRequestType, NoRepoRequest

(* A request that leaves also the tokens and the histories alone.           *)
LEMMA RepoStill ==
  ASSUME RInv, UNCHANGED <<repo, token, revoked, answered, refused>>, spoilt' = spoilt
  PROVE  /\ RemoteWorks' /\ ServiceFindsDefault'
         /\ token' \subseteq RepoIds /\ revoked' \subseteq RepoIds
         /\ answered' \subseteq RepoIds /\ refused' \subseteq Users
  BY DEF RInv, RepoTypeOK, RemoteWorks, ServiceFindsDefault, LiveRepo

Both == AInv /\ RInv

LEMMA ResolveUsernameInv ==
  ASSUME Both, NEW q \in Requests, ResolveUsername(q)
  PROVE  Both'
<1> DEFINE u == req[q].user
<1>1. PICK n \in Usernames : RepoStep(q, "resolved", "setUsername", [owner |-> n, id |-> 0])
  BY DEF ResolveUsername
<1>2. /\ UNCHANGED <<username, repo, token, revoked, answered, refused>>
      /\ username[u] = NoUsername
      /\ renamed' = IF \E r \in Requests \ {q} : At(r, "setUsername") /\ req[r].user = u
                      THEN renamed \cup {u} ELSE renamed
  BY DEF ResolveUsername, historyVars
<1>3. [owner |-> n, id |-> 0] \in RepoRequestType /\ RepoTypeOK
  BY RepoWorkTypes DEF Both, RInv
<1>4. /\ AInv' /\ Moved(q) /\ req[q].pc = "resolved" /\ req'[q].pc = "setUsername"
      /\ u \in Users /\ req'[q].user = u
      /\ repoReq' \in [Requests -> RepoRequestType] /\ repoReq'[q] = [owner |-> n, id |-> 0]
      /\ \A p \in Requests \ {q} : repoReq'[p] = repoReq[p]
      /\ spoilt' = spoilt
  BY <1>1, <1>3, RepoStepMoves DEF Both, RepoPcs
<1>5. NamesOK'
  <2> SUFFICES ASSUME NEW v \in Users \ renamed' PROVE NamesOf(v)'
    BY DEF NamesOK
  <2>0. NamesOf(v)
    BY <1>2 DEF Both, RInv, NamesOK
  <2>1. \A p \in Requests : Named(p, v)' => Named(p, v) /\ repoReq'[p] = repoReq[p]
    BY <1>4 DEF Named, Moved
  <2>2. \A p \in Requests \ {q} : Naming(p, v)' => Naming(p, v) /\ repoReq'[p] = repoReq[p]
    BY <1>4 DEF Naming, Moved
  <2>3. CASE v # u
    <3>1. ~Naming(q, v)'
      BY <1>4, <2>3 DEF Naming
    <3> QED BY <1>2, <2>0, <2>1, <2>2, <3>1 DEF NamesOf, LiveRepo
  <2>4. CASE v = u
    <3>1. \A p \in Requests \ {q} : ~Naming(p, v)
      BY <1>2, <2>4 DEF Naming, At
    <3>2. repoReq'[q].owner = n /\ n # NoUsername
      BY <1>4, UsernamesOK
    <3> QED BY <1>2, <2>0, <2>1, <2>2, <2>4, <3>1, <3>2 DEF NamesOf, LiveRepo
  <2> QED BY <2>3, <2>4
<1>6. RepoWorkOK'
  BY <1>2, <1>4, OtherWork DEF Both
<1>7. RepoTypeOK' /\ OwnersOK' /\ RemoteWorks' /\ ServiceFindsDefault'
  BY <1>2, <1>4 DEF Both, RInv, RepoTypeOK, OwnersOK, RemoteWorks, ServiceFindsDefault, LiveRepo
<1> QED BY <1>4, <1>5, <1>6, <1>7 DEF Both, RInv

LEMMA UsernameKnownInv ==
  ASSUME Both, NEW q \in Requests, UsernameKnown(q)
  PROVE  Both'
<1> DEFINE u == req[q].user
           w == [owner |-> username[u], id |-> 0]
<1>1. /\ RepoStep(q, "resolved", "findRepo", w) /\ username[u] # NoUsername
      /\ UNCHANGED <<username, repo, token, renamed, revoked, answered, refused>>
  BY DEF UsernameKnown, historyVars
<1>2. u \in Users
  BY <1>1 DEF Both, AInv, ShapesOK, AtWork, RepoStep, At
<1>3. w \in RepoRequestType /\ w.owner = username[u] /\ RepoTypeOK
  BY <1>2 DEF Both, RInv, RepoTypeOK, RepoRequestType
<1> HIDE DEF w
<1>4. /\ AInv' /\ Moved(q) /\ req'[q].pc = "findRepo" /\ req'[q].user = u
      /\ repoReq' \in [Requests -> RepoRequestType] /\ repoReq'[q] = w
      /\ \A p \in Requests \ {q} : repoReq'[p] = repoReq[p]
      /\ spoilt' = spoilt
  BY <1>1, <1>3, RepoStepMoves DEF Both, RepoPcs
<1> QED BY <1>1, <1>3, <1>4, RepoQuiet, RepoStill DEF Both

LEMMA SetGiteaUsernameInv ==
  ASSUME Both, NEW q \in Requests, SetGiteaUsername(q)
  PROVE  Both'
<1> DEFINE u == req[q].user
           n == repoReq[q].owner
<1>0. /\ UNCHANGED <<repo, token, renamed, revoked, answered, refused>> /\ RepoTypeOK
      /\ repoReq[q] \in RepoRequestType /\ NoRepoRequest \in RepoRequestType
  BY RepoWorkTypes DEF SetGiteaUsername, historyVars, Both, RInv
<1>1. CASE RepoStep(q, "setUsername", "ended", NoRepoRequest) /\ UNCHANGED username
  <2>1. /\ AInv' /\ Moved(q) /\ req'[q].pc = "ended"
        /\ repoReq' \in [Requests -> RepoRequestType]
        /\ \A p \in Requests \ {q} : repoReq'[p] = repoReq[p]
        /\ spoilt' = spoilt
    BY <1>0, <1>1, RepoStepMoves DEF Both, RepoPcs
  <2> QED BY <1>0, <1>1, <2>1, RepoQuiet, RepoStill DEF Both
<1>2. CASE /\ RepoStep(q, "setUsername", "findRepo", repoReq[q])
           /\ username' = [username EXCEPT ![u] = n]
  <2>1. /\ AInv' /\ Moved(q) /\ req[q].pc = "setUsername" /\ req'[q].pc = "findRepo"
        /\ u \in Users /\ req'[q].user = u
        /\ repoReq' \in [Requests -> RepoRequestType]
        /\ \A p \in Requests : repoReq'[p] = repoReq[p]
        /\ spoilt' = spoilt
    BY <1>0, <1>2, RepoStepMoves DEF Both, RepoPcs
  <2>2. /\ n \in Usernames \cup {NoUsername} /\ username \in [Users -> Usernames \cup {NoUsername}]
        /\ username'[u] = n /\ \A v \in Users \ {u} : username'[v] = username[v]
    BY <1>0, <1>2, <2>1 DEF RepoTypeOK, RepoRequestType
  <2>3. NamesOK'
    <3> SUFFICES ASSUME NEW v \in Users \ renamed PROVE NamesOf(v)'
      BY <1>0 DEF NamesOK
    <3>0. NamesOf(v)
      BY DEF Both, RInv, NamesOK
    <3>1. \A p \in Requests : Naming(p, v)' => p # q /\ Naming(p, v)
      BY <2>1 DEF Naming, Moved
    <3>2. \A p \in Requests \ {q} : Named(p, v)' => Named(p, v)
      BY <2>1 DEF Named, Moved
    <3>3. CASE v # u
      <4>1. ~Named(q, v)'
        BY <2>1, <3>3 DEF Named
      <4> QED BY <1>0, <2>1, <2>2, <3>0, <3>1, <3>2, <3>3, <4>1 DEF NamesOf, LiveRepo
    <3>4. CASE v = u
      <4>1. Naming(q, v)
        BY <2>1, <3>4 DEF Naming
      <4>2. /\ username[v] = NoUsername /\ n # NoUsername
            /\ \A p \in Requests : ~Naming(p, v)'
            /\ \A p \in Requests : ~Named(p, v)
            /\ \A i \in RepoIds : ~(LiveRepo(i) /\ repo[i].user = v)
        BY <3>0, <3>1, <4>1 DEF NamesOf
      <4> QED BY <1>0, <2>1, <2>2, <3>2, <3>4, <4>2 DEF NamesOf, LiveRepo
    <3> QED BY <3>3, <3>4
  <2>4. RepoWorkOK'
    BY <1>0, <2>1, OtherWork DEF Both
  <2>5. RepoTypeOK' /\ OwnersOK'
    BY <1>0, <1>2, <2>1, <2>2 DEF Both, RInv, RepoTypeOK, OwnersOK, LiveRepo
  <2> QED BY <1>0, <2>1, <2>3, <2>4, <2>5, RepoStill DEF Both, RInv
<1> QED BY <1>1, <1>2 DEF SetGiteaUsername

LEMMA FindRepoInv ==
  ASSUME Both, NEW q \in Requests, FindRepo(q)
  PROVE  Both'
<1> DEFINE u == req[q].user
<1>0. /\ UNCHANGED <<username, repo, token, renamed, revoked, answered, refused>> /\ RepoTypeOK
      /\ req[q].pc = "findRepo" /\ RInv /\ u \in Users
  BY DEF FindRepo, historyVars, Both, AInv, ShapesOK, AtWork, RInv, RepoStep, At
<1>1. PICK next \in {"createToken", "insertRepo"}, w \in RepoRequestType :
        /\ RepoStep(q, "findRepo", next, w)
        /\ next = "createToken" => w.id \in RepoIds
        /\ next = "insertRepo" => w = repoReq[q]
  BY <1>0, RepoWorkTypes DEF FindRepo, RepoOf
<1>2. /\ AInv' /\ Moved(q) /\ req'[q].pc = next /\ req'[q].user = u
      /\ repoReq' \in [Requests -> RepoRequestType] /\ repoReq'[q] = w
      /\ \A p \in Requests \ {q} : repoReq'[p] = repoReq[p]
      /\ spoilt' = spoilt
  BY <1>0, <1>1, RepoStepMoves DEF Both, RepoPcs
<1>3. u \in Users \ renamed => repoReq[q].owner = username[u] /\ username[u] # NoUsername
  BY <1>0 DEF RInv, NamesOK, NamesOf, Named
<1>4. RemoteWorks' /\ ServiceFindsDefault'
  BY <1>0, <1>2, RepoStill
<1> QED BY <1>0, <1>1, <1>2, <1>3, <1>4, RepoQuiet, RepoStill DEF Both

LEMMA CreateInternalRepoInv ==
  ASSUME Both, NEW q \in Requests, CreateInternalRepo(q)
  PROVE  Both'
<1> DEFINE u == req[q].user
<1>0. /\ UNCHANGED <<username, token, renamed, revoked, answered, refused>> /\ RepoTypeOK
      /\ req[q].pc = "insertRepo" /\ RInv /\ u \in Users
      /\ repoReq[q] \in RepoRequestType /\ NoRepoRequest \in RepoRequestType
  BY RepoWorkTypes
     DEF CreateInternalRepo, historyVars, Both, AInv, ShapesOK, AtWork, RInv, RepoStep, At
<1>1. CASE RepoStep(q, "insertRepo", "ended", NoRepoRequest) /\ UNCHANGED repo
  <2>1. /\ AInv' /\ Moved(q) /\ req'[q].pc = "ended"
        /\ repoReq' \in [Requests -> RepoRequestType]
        /\ \A p \in Requests \ {q} : repoReq'[p] = repoReq[p]
        /\ spoilt' = spoilt
    BY <1>0, <1>1, RepoStepMoves DEF Both, RepoPcs
  <2> QED BY <1>0, <1>1, <2>1, RepoQuiet, RepoStill DEF Both
<1>2. ASSUME NEW i \in RepoIds, repo[i].state = "absent",
             repo' = [repo EXCEPT ![i] = [state |-> "live", user |-> u,
                                          owner |-> repoReq[q].owner]],
             RepoStep(q, "insertRepo", "createToken", [repoReq[q] EXCEPT !.id = i])
      PROVE  Both'
  <2> DEFINE w == [repoReq[q] EXCEPT !.id = i]
  <2>0. w \in RepoRequestType /\ w.id = i /\ RepoStep(q, "insertRepo", "createToken", w)
    BY <1>0, <1>2, RepoWorkTypes
  <2> HIDE DEF w
  <2>1. /\ AInv' /\ Moved(q) /\ req'[q].pc = "createToken" /\ req'[q].user = u
        /\ repoReq' \in [Requests -> RepoRequestType] /\ repoReq'[q].id = i
        /\ \A p \in Requests \ {q} : repoReq'[p] = repoReq[p]
        /\ spoilt' = spoilt
    BY <1>0, <1>2, <2>0, RepoStepMoves DEF Both, RepoPcs
  <2>2. /\ repo'[i].state = "live" /\ repo'[i].user = u /\ repo'[i].owner = repoReq[q].owner
        /\ \A j \in RepoIds \ {i} : repo'[j] = repo[j]
        /\ repo' \in [RepoIds -> RepoType] /\ ~LiveRepo(i)
    BY <1>0, <1>2 DEF RepoTypeOK, RepoType, RepoRequestType, LiveRepo
  <2>3. NamesOK'
    <3> SUFFICES ASSUME NEW v \in Users \ renamed PROVE NamesOf(v)'
      BY <1>0 DEF NamesOK
    <3>0. NamesOf(v)
      BY <1>0 DEF RInv, NamesOK
    <3>1. \A p \in Requests : Naming(p, v)' => p # q /\ Naming(p, v)
      BY <2>1 DEF Naming, Moved
    <3>2. \A p \in Requests : Named(p, v)' => p # q /\ Named(p, v)
      BY <2>1 DEF Named, Moved
    <3>3. v = u => repoReq[q].owner = username[v] /\ username[v] # NoUsername
      BY <1>0, <3>0 DEF NamesOf, Named
    <3>4. ASSUME NEW j \in RepoIds, (LiveRepo(j) /\ repo[j].user = v)'
          PROVE  repo'[j].owner = username[v] /\ username[v] # NoUsername
      <4>1. CASE j = i
        BY <2>2, <3>3, <3>4, <4>1
      <4>2. CASE j # i
        BY <2>2, <3>0, <3>4, <4>2 DEF NamesOf, LiveRepo
      <4> QED BY <4>1, <4>2
    <3>5. \A p \in Requests : Naming(p, v)' => Naming(p, v) /\ repoReq'[p].owner = repoReq[p].owner
      BY <2>1, <3>1
    <3>6. \A p \in Requests : Named(p, v)' =>
            repoReq'[p].owner = username[v] /\ username[v] # NoUsername
      BY <2>1, <3>0, <3>2 DEF NamesOf
    <3> QED BY <1>0, <3>0, <3>4, <3>5, <3>6, NamesOfKept
  <2>4. RepoWorkOK'
    BY <1>0, <2>1, OtherWork
  <2>5. RepoTypeOK' /\ OwnersOK' /\ RemoteWorks' /\ ServiceFindsDefault'
    <3>1. \A j \in RepoIds : LiveRepo(j) => LiveRepo(j)'
      BY <2>2 DEF LiveRepo
    <3>2. OwnersOK'
      BY <1>0, <2>2 DEF RInv, OwnersOK, LiveRepo
    <3> QED BY <1>0, <2>1, <2>2, <3>1, <3>2
           DEF RInv, RepoTypeOK, RemoteWorks, ServiceFindsDefault
  <2> QED BY <2>1, <2>3, <2>4, <2>5 DEF Both, RInv
<1> QED BY <1>1, <1>2 DEF CreateInternalRepo

LEMMA CreateTokenInv ==
  ASSUME Both, NEW q \in Requests, CreateToken(q)
  PROVE  Both'
<1> DEFINE i == repoReq[q].id
<1>0. /\ UNCHANGED <<username, repo, renamed, revoked, refused>> /\ RepoTypeOK
      /\ RepoStep(q, "createToken", "ended", NoRepoRequest) /\ req[q].pc = "createToken"
      /\ RInv /\ NoRepoRequest \in RepoRequestType
  BY RepoWorkTypes DEF CreateToken, Both, RInv, RepoStep, At
<1>1. /\ AInv' /\ Moved(q) /\ req'[q].pc = "ended"
      /\ repoReq' \in [Requests -> RepoRequestType]
      /\ \A p \in Requests \ {q} : repoReq'[p] = repoReq[p]
      /\ spoilt' = spoilt
  BY <1>0, RepoStepMoves DEF Both, RepoPcs
<1>2. i \in RepoIds
  BY <1>0 DEF RInv, RepoWorkOK
<1>3. /\ RemoteWorks' /\ ServiceFindsDefault' /\ token' \subseteq RepoIds
      /\ answered' \subseteq RepoIds /\ revoked' \subseteq RepoIds /\ refused' \subseteq Users
  BY <1>0, <1>1, <1>2
     DEF CreateToken, RInv, RepoTypeOK, RemoteWorks, ServiceFindsDefault, LiveRepo
<1> QED BY <1>0, <1>1, <1>3, RepoQuiet DEF Both

(* GetPushToken and DeleteRepo begin.                                       *)
LEMMA RepoBegins ==
  ASSUME Both, NEW q \in Requests, NEW i \in RepoIds, LiveRepo(i),
         NEW pc \in {"createToken", "revokeTokens"}, Begin(q, repo[i].user, "repo", pc),
         repoReq' = [repoReq EXCEPT ![q].id = i],
         UNCHANGED <<user, github, creds, project, setup, spoilt, mixed>>
  PROVE  /\ AInv' /\ Moved(q) /\ req'[q].pc = pc
         /\ repoReq' \in [Requests -> RepoRequestType] /\ repoReq'[q].id = i
         /\ \A p \in Requests \ {q} : repoReq'[p] = repoReq[p]
<1>1. repo[i].user \in Users
  BY DEF Both, RInv, OwnersOK
<1>2. /\ Moved(q) /\ At(q, "new")
      /\ req'[q].pc = pc /\ req'[q].kind = "repo" /\ req'[q].user = repo[i].user
  BY <1>1, BeginMoves DEF Both, AInv, Pcs, RepoPcs, Kinds
<1>3. AInv'
  BY <1>1, <1>2, AccountsKept DEF Both, At, LinkPcs
<1>4. /\ repoReq' \in [Requests -> RepoRequestType] /\ repoReq'[q].id = i
      /\ \A p \in Requests \ {q} : repoReq'[p] = repoReq[p]
  <2>1. [repoReq[q] EXCEPT !.id = i] \in RepoRequestType /\ [repoReq[q] EXCEPT !.id = i].id = i
    BY RepoWorkTypes DEF Both, RInv
  <2> QED BY <2>1 DEF Both, RInv, RepoTypeOK
<1> QED BY <1>2, <1>3, <1>4

LEMMA GetPushTokenInv ==
  ASSUME Both, NEW q \in Requests, NEW i \in RepoIds, GetPushToken(q, i)
  PROVE  Both'
<1>1. /\ AInv' /\ Moved(q) /\ req'[q].pc = "createToken"
      /\ repoReq' \in [Requests -> RepoRequestType] /\ repoReq'[q].id = i
      /\ \A p \in Requests \ {q} : repoReq'[p] = repoReq[p]
  BY RepoBegins DEF GetPushToken
<1>2. /\ UNCHANGED <<username, repo, token, renamed, revoked, answered, refused>>
      /\ spoilt' = spoilt /\ RInv
  BY DEF GetPushToken, historyVars, Both
<1> QED BY <1>1, <1>2, RepoQuiet, RepoStill DEF Both

LEMMA DeleteRepoInv ==
  ASSUME Both, NEW q \in Requests, NEW i \in RepoIds, DeleteRepo(q, i)
  PROVE  Both'
<1>1. /\ AInv' /\ Moved(q) /\ req'[q].pc = "revokeTokens"
      /\ repoReq' \in [Requests -> RepoRequestType] /\ repoReq'[q].id = i
      /\ \A p \in Requests \ {q} : repoReq'[p] = repoReq[p]
  BY RepoBegins DEF DeleteRepo
<1>2. /\ UNCHANGED <<username, repo, token, renamed, answered, refused>>
      /\ revoked' = revoked \cup {i} /\ spoilt' = spoilt /\ RInv
  BY DEF DeleteRepo, Both
<1>3. /\ RemoteWorks' /\ ServiceFindsDefault' /\ token' \subseteq RepoIds
      /\ answered' \subseteq RepoIds /\ revoked' \subseteq RepoIds /\ refused' \subseteq Users
  BY <1>2 DEF RInv, RepoTypeOK, RemoteWorks, ServiceFindsDefault, LiveRepo
<1> QED BY <1>1, <1>2, <1>3, RepoQuiet DEF Both

LEMMA RevokeTokensByRepoIDInv ==
  ASSUME Both, NEW q \in Requests, RevokeTokensByRepoID(q)
  PROVE  Both'
<1> DEFINE i == repoReq[q].id
<1>0. /\ UNCHANGED <<username, repo, renamed, revoked, answered, refused>> /\ RepoTypeOK
      /\ RepoStep(q, "revokeTokens", "deleteRepo", repoReq[q]) /\ req[q].pc = "revokeTokens"
      /\ token' = token \ {i} /\ RInv /\ repoReq[q] \in RepoRequestType
  BY RepoWorkTypes DEF RevokeTokensByRepoID, historyVars, Both, RInv, RepoStep, At
<1>1. /\ AInv' /\ Moved(q) /\ req'[q].pc = "deleteRepo"
      /\ repoReq' \in [Requests -> RepoRequestType] /\ repoReq'[q] = repoReq[q]
      /\ \A p \in Requests \ {q} : repoReq'[p] = repoReq[p]
      /\ spoilt' = spoilt
  BY <1>0, RepoStepMoves DEF Both, RepoPcs
<1>2. i \in revoked
  BY <1>0 DEF RInv, RepoWorkOK
<1>3. /\ RemoteWorks' /\ ServiceFindsDefault' /\ token' \subseteq RepoIds
      /\ answered' \subseteq RepoIds /\ revoked' \subseteq RepoIds /\ refused' \subseteq Users
  BY <1>0, <1>1, <1>2 DEF RInv, RepoTypeOK, RemoteWorks, ServiceFindsDefault, LiveRepo
<1> QED BY <1>0, <1>1, <1>2, <1>3, RepoQuiet DEF Both

LEMMA DeleteInternalRepoInv ==
  ASSUME Both, NEW q \in Requests, DeleteInternalRepoByFullName(q)
  PROVE  Both'
<1> DEFINE i == repoReq[q].id
<1>0. /\ UNCHANGED <<username, renamed, revoked, answered, refused>> /\ RepoTypeOK
      /\ RepoStep(q, "deleteRepo", "ended", NoRepoRequest) /\ req[q].pc = "deleteRepo"
      /\ token' = token \ {i} /\ repo' = [repo EXCEPT ![i].state = "removed"]
      /\ RInv /\ NoRepoRequest \in RepoRequestType
  BY RepoWorkTypes DEF DeleteInternalRepoByFullName, historyVars, Both, RInv, RepoStep, At
<1>1. /\ AInv' /\ Moved(q) /\ req'[q].pc = "ended"
      /\ repoReq' \in [Requests -> RepoRequestType]
      /\ \A p \in Requests \ {q} : repoReq'[p] = repoReq[p]
      /\ spoilt' = spoilt
  BY <1>0, RepoStepMoves DEF Both, RepoPcs
<1>2. i \in revoked /\ i \in RepoIds
  BY <1>0 DEF RInv, RepoWorkOK, RepoTypeOK
<1>3. /\ \A j \in RepoIds \ {i} : repo'[j] = repo[j]
      /\ repo'[i].state = "removed" /\ repo' \in [RepoIds -> RepoType]
  BY <1>0, <1>2 DEF RepoTypeOK, RepoType
<1>4. \A j \in RepoIds : LiveRepo(j)' => LiveRepo(j) /\ repo'[j] = repo[j]
  BY <1>3 DEF LiveRepo
<1>5. NamesOK'
  BY <1>0, <1>1, <1>4, NamesKept
<1>6. RepoWorkOK'
  BY <1>0, <1>1, OtherWork
<1>7. RepoTypeOK'
  BY <1>0, <1>1, <1>3 DEF RepoTypeOK
<1>8. OwnersOK' /\ RemoteWorks' /\ ServiceFindsDefault'
  BY <1>0, <1>1, <1>2, <1>3, <1>4 DEF RInv, OwnersOK, RemoteWorks, ServiceFindsDefault, LiveRepo
<1> QED BY <1>1, <1>5, <1>6, <1>7, <1>8 DEF Both, RInv

LEMMA ResolveInternalRepoInv ==
  ASSUME Both, NEW q \in Requests, ResolveInternalRepo(q)
  PROVE  Both'
<1>0. /\ UNCHANGED <<username, repo, token, renamed, revoked, answered, refused>>
      /\ RepoTypeOK /\ RInv /\ NoRepoRequest \in RepoRequestType
  BY RepoWorkTypes DEF ResolveInternalRepo, historyVars, Both, RInv
<1>1. PICK next \in {"ended", "findDefault"} : RepoStep(q, "resolved", next, NoRepoRequest)
  BY DEF ResolveInternalRepo
<1>2. /\ AInv' /\ Moved(q) /\ req'[q].pc = next
      /\ repoReq' \in [Requests -> RepoRequestType]
      /\ \A p \in Requests \ {q} : repoReq'[p] = repoReq[p]
      /\ spoilt' = spoilt
  BY <1>0, <1>1, RepoStepMoves DEF Both, RepoPcs
<1> QED BY <1>0, <1>1, <1>2, RepoQuiet, RepoStill DEF Both

LEMMA GetDefaultProjectInv ==
  ASSUME Both, NEW q \in Requests, GetDefaultProject(q)
  PROVE  Both'
<1> DEFINE u == req[q].user
<1>0. /\ UNCHANGED <<username, repo, token, renamed, revoked, answered>>
      /\ RepoTypeOK /\ RInv /\ NoRepoRequest \in RepoRequestType
      /\ RepoStep(q, "findDefault", "ended", NoRepoRequest) /\ req[q].pc = "findDefault"
  BY RepoWorkTypes DEF GetDefaultProject, Both, RInv, RepoStep, At
<1>1. /\ AInv' /\ Moved(q) /\ req'[q].pc = "ended" /\ u \in Users
      /\ repoReq' \in [Requests -> RepoRequestType]
      /\ \A p \in Requests \ {q} : repoReq'[p] = repoReq[p]
      /\ spoilt' = spoilt
  BY <1>0, RepoStepMoves DEF Both, RepoPcs
<1>2. project[u] # "default" => u \in spoilt
  <2>1. project[u] # "none" /\ project[u] \in {"none", "plain", "default"}
    BY <1>0, <1>1 DEF Both, AInv, ShapesOK, AccountTypeOK
  <2> QED BY <1>1, <2>1 DEF Both, AInv, SetupsOK
<1>3. /\ RemoteWorks' /\ ServiceFindsDefault' /\ token' \subseteq RepoIds
      /\ answered' \subseteq RepoIds /\ revoked' \subseteq RepoIds /\ refused' \subseteq Users
  BY <1>0, <1>1, <1>2
     DEF GetDefaultProject, RInv, RepoTypeOK, RemoteWorks, ServiceFindsDefault, LiveRepo
<1> QED BY <1>0, <1>1, <1>3, RepoQuiet DEF Both

LEMMA RepoRequestFailsInv ==
  ASSUME Both, NEW q \in Requests, RepoRequestFails(q)
  PROVE  Both'
<1>0. /\ UNCHANGED <<username, repo, token, renamed, revoked, answered, refused>>
      /\ RepoTypeOK /\ RInv /\ NoRepoRequest \in RepoRequestType
      /\ RepoStep(q, req[q].pc, "ended", NoRepoRequest) /\ req[q].pc \in RepoPcs
  BY RepoWorkTypes DEF RepoRequestFails, historyVars, Both, RInv
<1>1. /\ AInv' /\ Moved(q) /\ req'[q].pc = "ended"
      /\ repoReq' \in [Requests -> RepoRequestType]
      /\ \A p \in Requests \ {q} : repoReq'[p] = repoReq[p]
      /\ spoilt' = spoilt
  BY <1>0, RepoStepMoves DEF Both
<1> QED BY <1>0, <1>1, RepoQuiet, RepoStill DEF Both

LEMMA RepoNextInv == Both /\ RepoNext => Both'
<1> SUFFICES ASSUME Both, RepoNext PROVE Both'
  OBVIOUS
<1>1. ASSUME NEW q \in Requests,
             \/ ResolveUsername(q) \/ UsernameKnown(q) \/ SetGiteaUsername(q)
             \/ FindRepo(q) \/ CreateInternalRepo(q) \/ CreateToken(q)
             \/ RevokeTokensByRepoID(q) \/ DeleteInternalRepoByFullName(q)
             \/ ResolveInternalRepo(q) \/ GetDefaultProject(q)
             \/ RepoRequestFails(q)
      PROVE  Both'
  BY <1>1, ResolveUsernameInv, UsernameKnownInv, SetGiteaUsernameInv, FindRepoInv,
     CreateInternalRepoInv, CreateTokenInv, RevokeTokensByRepoIDInv, DeleteInternalRepoInv,
     ResolveInternalRepoInv, GetDefaultProjectInv, RepoRequestFailsInv
<1>2. ASSUME NEW q \in Requests, NEW i \in RepoIds, GetPushToken(q, i) \/ DeleteRepo(q, i)
      PROVE  Both'
  BY <1>2, GetPushTokenInv, DeleteRepoInv
<1> QED BY <1>1, <1>2 DEF RepoNext

LEMMA RepoInitInv == AccountInit /\ RepoInit => RInv
<1> SUFFICES ASSUME AccountInit, RepoInit PROVE RInv
  OBVIOUS
<1>1. \A q \in Requests : req[q].pc = "new"
  BY DEF AccountInit, NewRequest
<1>2. \A i \in RepoIds : ~LiveRepo(i) /\ AbsentRepo \in RepoType
  BY DEF RepoInit, LiveRepo, AbsentRepo, RepoType
<1>3. NoRepoRequest \in RepoRequestType
  BY DEF NoRepoRequest, RepoRequestType
<1>4. RepoTypeOK
  BY <1>2, <1>3 DEF RepoInit, RepoTypeOK
<1>5. RepoWorkOK
  BY <1>1 DEF RepoWorkOK
<1>6. NamesOK
  BY <1>1, <1>2 DEF NamesOK, NamesOf, Naming, Named
<1>7. OwnersOK /\ RemoteWorks /\ ServiceFindsDefault
  BY <1>2 DEF RepoInit, OwnersOK, RemoteWorks, ServiceFindsDefault
<1> QED BY <1>4, <1>5, <1>6, <1>7 DEF RInv

(* What the steps of repositories do to the requests.                       *)
RepoMove ==
  \E q \in Requests : /\ Moved(q) /\ req[q].pc \notin DatabasePcs \cup {"ended"}
                      /\ req'[q].pc \notin DatabasePcs

LEMMA RepoNextMoves == Both /\ RepoNext => RepoMove
<1> SUFFICES ASSUME Both, RepoNext PROVE RepoMove
  OBVIOUS
<1>0. ReqOK
  BY DEF Both, AInv
<1>1. ASSUME NEW q \in Requests, NEW i \in RepoIds, GetPushToken(q, i) \/ DeleteRepo(q, i)
      PROVE  RepoMove
  <2>1. \E pc \in {"createToken", "revokeTokens"} : Begin(q, repo[i].user, "repo", pc)
    BY <1>1 DEF GetPushToken, DeleteRepo
  <2>2. repo[i].user \in Users
    BY <1>1 DEF GetPushToken, DeleteRepo, Both, RInv, OwnersOK
  <2>3. Moved(q) /\ At(q, "new") /\ req'[q].pc \in {"createToken", "revokeTokens"}
    BY <1>0, <2>1, <2>2, BeginMoves DEF Pcs, RepoPcs, Kinds
  <2> QED BY <2>3 DEF RepoMove, At, DatabasePcs
<1>2. ASSUME NEW q \in Requests,
             \/ ResolveUsername(q) \/ UsernameKnown(q) \/ SetGiteaUsername(q)
             \/ FindRepo(q) \/ CreateInternalRepo(q) \/ CreateToken(q)
             \/ RevokeTokensByRepoID(q) \/ DeleteInternalRepoByFullName(q)
             \/ ResolveInternalRepo(q) \/ GetDefaultProject(q)
             \/ RepoRequestFails(q)
      PROVE  RepoMove
  <2>1. PICK pc \in RepoPcs \cup {"resolved"}, next \in RepoPcs \cup {"ended"} :
          req[q].pc = pc /\ Goto(q, next)
    BY <1>2 DEF ResolveUsername, UsernameKnown, SetGiteaUsername, FindRepo, CreateInternalRepo,
                CreateToken, RevokeTokensByRepoID, DeleteInternalRepoByFullName,
                ResolveInternalRepo, GetDefaultProject, RepoRequestFails, RepoStep, At, RepoPcs
  <2>2. Moved(q) /\ req'[q].pc = next
    BY <1>0, <2>1, GotoMoves DEF Pcs, AccountPcs
  <2> QED BY <2>1, <2>2 DEF RepoMove, RepoPcs, DatabasePcs
<1> QED BY <1>1, <1>2 DEF RepoNext

-----------------------------------------------------------------------------
(* Databases.                                                               *)

Provisioning(q, d) ==
  req[q].pc \in {"createAuthToken", "saveResource", "compensate"} /\ Target(q) = d

Removing(q, d) ==
  req[q].pc \in {"deleteDatabase", "deleteRow", "compensate"} /\ Target(q) = d

Leaving(q, d) == req[q].pc = "deleteRow" /\ Target(q) = d

Row(r, d) == LiveResource(r) /\ TursoName[resource[r].user][resource[r].name] = d

(* A database on which no two deletions met and no fault fell: whoever is   *)
(* at work on it, its rows are the one it was created for, once that has    *)
(* been inserted, and the one that is about to be deleted.                  *)
OnDb(d) ==
  /\ \A q, r \in Requests : Removing(q, d) /\ Removing(r, d) => q = r
  /\ \A q \in Requests : Provisioning(q, d) => database[d] = q
  /\ \A q \in Requests : At(q, "deleteDatabase") /\ Target(q) = d =>
       database[d] = dbReq[q].id /\ ~Provisioning(dbReq[q].id, d)
  /\ \A q \in Requests : Leaving(q, d) => database[d] # dbReq[q].id
  /\ \A r \in Requests :
       Row(r, d) <=> \/ database[d] = r /\ ~Provisioning(r, d)
                     \/ \E q \in Requests : Leaving(q, d) /\ dbReq[q].id = r

DbsOK == \A d \in AtTurso \ crossed : OnDb(d)

(* Rows are inserted once, by their requests, and keep their names.         *)
RowsOK ==
  \A r \in Requests : resource[r].state # "absent" =>
    /\ resource[r].user \in Users /\ resource[r].name \in ResourceNames
    /\ req[r].pc \in {"compensate", "ended"}

DbWorkOK ==
  \A q \in Requests :
    /\ req[q].pc \in DatabasePcs => dbReq[q].name \in ResourceNames
    /\ req[q].pc \in {"deleteDatabase", "deleteRow"} =>
         /\ dbReq[q].id \in Requests /\ resource[dbReq[q].id].state # "absent"
         /\ resource[dbReq[q].id].user = req[q].user
         /\ resource[dbReq[q].id].name = dbReq[q].name

DInv == DatabaseTypeOK /\ DbsOK /\ RowsOK /\ DbWorkOK

(* Whoever works on d goes on working on it as before.                      *)
WorkSame(d) ==
  \A p \in Requests :
    /\ Provisioning(p, d)' <=> Provisioning(p, d)
    /\ Removing(p, d)' <=> Removing(p, d)
    /\ Leaving(p, d)' <=> Leaving(p, d)
    /\ (At(p, "deleteDatabase") /\ Target(p) = d)' <=> At(p, "deleteDatabase") /\ Target(p) = d
    /\ Removing(p, d) => dbReq'[p] = dbReq[p]

LEMMA OnDbKept ==
  ASSUME DbWorkOK, NEW d, OnDb(d), database'[d] = database[d], WorkSame(d),
         \A r \in Requests : Row(r, d)' <=> Row(r, d)
  PROVE  OnDb(d)'
<1>1. \A p \in Requests : /\ Leaving(p, d) => Removing(p, d)
                          /\ At(p, "deleteDatabase") /\ Target(p) = d =>
                               Removing(p, d) /\ dbReq[p].id \in Requests
  BY DEF Leaving, Removing, At, DbWorkOK
<1>2. \A q, r \in Requests : Removing(q, d)' /\ Removing(r, d)' => q = r
  BY DEF OnDb, WorkSame
<1>3. \A q \in Requests : Provisioning(q, d)' => database'[d] = q
  BY DEF OnDb, WorkSame
<1>4. \A q \in Requests : (At(q, "deleteDatabase") /\ Target(q) = d)' =>
        database'[d] = dbReq'[q].id /\ ~Provisioning(dbReq[q].id, d)'
  BY <1>1 DEF OnDb, WorkSame
<1>5. \A q \in Requests : Leaving(q, d)' => database'[d] # dbReq'[q].id
  BY <1>1 DEF OnDb, WorkSame
<1>6. \A r \in Requests :
        Row(r, d)' <=> \/ database'[d] = r /\ ~Provisioning(r, d)'
                       \/ \E q \in Requests : Leaving(q, d)' /\ dbReq'[q].id = r
  BY <1>1 DEF OnDb, WorkSame
<1> QED BY <1>2, <1>3, <1>4, <1>5, <1>6 DEF OnDb

LEMMA DatabasesKept ==
  ASSUME DInv, UNCHANGED databaseVars,
         \/ UNCHANGED req
         \/ \E q \in Requests : /\ Moved(q) /\ req[q].pc \notin DatabasePcs \cup {"ended"}
                                /\ req'[q].pc \notin DatabasePcs
  PROVE  DInv'
<1>0. UNCHANGED <<database, resource, dbReq, crossed>>
  BY DEF databaseVars
<1>1. \A p \in Requests : \/ req'[p] = req[p]
                          \/ /\ req[p].pc \notin DatabasePcs \cup {"ended"}
                             /\ req'[p].pc \notin DatabasePcs
  BY DEF Moved
<1>2. DatabaseTypeOK'
  BY <1>0 DEF DInv, DatabaseTypeOK
<1>3. RowsOK'
  BY <1>0, <1>1 DEF DInv, RowsOK, DatabasePcs
<1>4. DbWorkOK'
  BY <1>0, <1>1 DEF DInv, DbWorkOK, DatabasePcs
<1>5. DbsOK'
  <2> SUFFICES ASSUME NEW d \in AtTurso \ crossed PROVE OnDb(d)'
    BY <1>0 DEF DbsOK
  <2>1. OnDb(d)
    BY DEF DInv, DbsOK
  <2>2. WorkSame(d)
    BY <1>0, <1>1
       DEF WorkSame, Provisioning, Removing, Leaving, At, Target, DatabasePcs
  <2>3. \A r \in Requests : Row(r, d)' <=> Row(r, d)
    BY <1>0 DEF Row, LiveResource
  <2> QED BY <1>0, <2>1, <2>2, <2>3, OnDbKept DEF DInv
<1> QED BY <1>2, <1>3, <1>4, <1>5 DEF DInv

(* A request goes on with its database, or begins or ends with it.          *)
DbMoved(q) ==
  /\ Moved(q) /\ dbReq' \in [Requests -> DbRequestType]
  /\ \A p \in Requests \ {q} : dbReq'[p] = dbReq[p]

LEMMA DbTypes ==
  ASSUME DInv, NEW q \in Requests
  PROVE  /\ dbReq[q] \in DbRequestType /\ NoDbRequest \in DbRequestType
         /\ dbReq[q].name \in ResourceNames \cup {NoResource}
         /\ dbReq[q].id \in Requests \cup {NoRequest}
         /\ resource[q] \in ResourceType
         /\ NoRequest \notin Requests
  BY RequestsOK DEF DInv, DatabaseTypeOK, DbRequestType, NoDbRequest, NoRequest, Requests

LEMMA DbStepMoves ==
  ASSUME AInv, DInv, NEW q \in Requests, NEW pc \in DatabasePcs,
         NEW next \in DatabasePcs \cup {"ended"}, DatabaseStep(q, pc, next)
  PROVE  /\ AInv' /\ DbMoved(q) /\ req[q].pc = pc /\ req'[q].pc = next
         /\ req[q].user \in Users /\ dbReq[q].name \in ResourceNames /\ Target(q) \in AtTurso
         /\ next # "ended" => /\ req'[q].user = req[q].user /\ dbReq'[q] = dbReq[q]
                              /\ Target(q)' = Target(q)
         /\ UNCHANGED <<user, github, creds, project, setup, spoilt, mixed>>
<1>0. /\ req[q].pc = pc /\ Goto(q, next) /\ ReqOK
      /\ dbReq' = IF next = "ended" THEN [dbReq EXCEPT ![q] = NoDbRequest] ELSE dbReq
      /\ UNCHANGED <<user, github, creds, project, setup, spoilt, mixed>>
      /\ dbReq \in [Requests -> DbRequestType]
  BY DEF DatabaseStep, At, AInv, DInv, DatabaseTypeOK
<1>1. next \in Pcs
  BY DEF Pcs, AccountPcs
<1>2. /\ Moved(q) /\ req'[q].pc = next
      /\ next # "ended" => req'[q].kind = req[q].kind /\ req'[q].user = req[q].user
  BY <1>0, <1>1, GotoMoves
<1>3. req[q].user \in Users /\ req[q].kind # "link"
  BY <1>0 DEF AInv, ShapesOK, AtWork, LinkPcs, DatabasePcs
<1>4. dbReq[q].name \in ResourceNames
  BY <1>0 DEF DInv, DbWorkOK
<1>5. Target(q) \in AtTurso
  BY <1>3, <1>4, TursoNameOK DEF Target
<1>6. AInv'
  BY <1>0, <1>2, <1>3, AccountsKept DEF LinkPcs, DatabasePcs
<1>7. /\ dbReq' \in [Requests -> DbRequestType]
      /\ \A p \in Requests \ {q} : dbReq'[p] = dbReq[p]
      /\ next # "ended" => dbReq' = dbReq
  <2>1. CASE next = "ended"
    BY <1>0, <2>1, DbTypes
  <2>2. CASE next # "ended"
    BY <1>0, <2>2
  <2> QED BY <2>1, <2>2
<1>8. next # "ended" => Target(q)' = Target(q)
  BY <1>2, <1>7 DEF Target
<1> QED BY <1>0, <1>2, <1>3, <1>4, <1>5, <1>6, <1>7, <1>8 DEF DbMoved

LEMMA OtherRequests ==
  ASSUME NEW q \in Requests, DbMoved(q), NEW d, NEW p \in Requests \ {q}
  PROVE  /\ Provisioning(p, d)' <=> Provisioning(p, d)
         /\ Removing(p, d)' <=> Removing(p, d)
         /\ Leaving(p, d)' <=> Leaving(p, d)
         /\ (At(p, "deleteDatabase") /\ Target(p) = d)' <=> At(p, "deleteDatabase") /\ Target(p) = d
         /\ dbReq'[p] = dbReq[p]
<1>1. req'[p] = req[p] /\ dbReq'[p] = dbReq[p]
  BY DEF DbMoved, Moved
<1> QED BY <1>1 DEF Provisioning, Removing, Leaving, At, Target

(* A database that q did not work on and does not work on.                  *)
LEMMA OtherDbs ==
  ASSUME DInv, NEW q \in Requests, DbMoved(q), NEW d, OnDb(d), database'[d] = database[d],
         \A r \in Requests : Row(r, d)' <=> Row(r, d),
         req[q].pc \in DatabasePcs => Target(q) # d,
         req'[q].pc \in DatabasePcs => Target(q)' # d
  PROVE  OnDb(d)'
<1>1. WorkSame(d)
  <2> SUFFICES ASSUME NEW p \in Requests
               PROVE  /\ Provisioning(p, d)' <=> Provisioning(p, d)
                      /\ Removing(p, d)' <=> Removing(p, d)
                      /\ Leaving(p, d)' <=> Leaving(p, d)
                      /\ (At(p, "deleteDatabase") /\ Target(p) = d)'
                           <=> At(p, "deleteDatabase") /\ Target(p) = d
                      /\ Removing(p, d) => dbReq'[p] = dbReq[p]
    BY DEF WorkSame
  <2>1. CASE p = q
    BY <2>1 DEF Provisioning, Removing, Leaving, At, DatabasePcs
  <2>2. CASE p # q
    BY <2>2, OtherRequests
  <2> QED BY <2>1, <2>2
<1> QED BY <1>1, OnDbKept DEF DInv

LEMMA RowsKept ==
  ASSUME DInv, NEW q \in Requests, DbMoved(q), UNCHANGED resource,
         req[q].pc \notin {"compensate", "ended"} \/ req'[q].pc = "ended"
  PROVE  RowsOK'
<1> SUFFICES ASSUME NEW r \in Requests, resource[r].state # "absent"
             PROVE  /\ resource[r].user \in Users /\ resource[r].name \in ResourceNames
                    /\ req'[r].pc \in {"compensate", "ended"}
  BY DEF RowsOK
<1>1. /\ resource[r].user \in Users /\ resource[r].name \in ResourceNames
      /\ req[r].pc \in {"compensate", "ended"}
  BY DEF DInv, RowsOK
<1> QED BY <1>1 DEF DbMoved, Moved

LEMMA DbWorkKept ==
  ASSUME DInv, NEW q \in Requests, DbMoved(q),
         \A r \in Requests : resource[r].state # "absent" =>
           /\ resource'[r].state # "absent"
           /\ resource'[r].user = resource[r].user /\ resource'[r].name = resource[r].name,
         req'[q].pc \in DatabasePcs =>
           /\ dbReq'[q].name \in ResourceNames
           /\ req'[q].pc \in {"deleteDatabase", "deleteRow"} =>
                /\ dbReq'[q].id \in Requests /\ resource'[dbReq'[q].id].state # "absent"
                /\ resource'[dbReq'[q].id].user = req'[q].user
                /\ resource'[dbReq'[q].id].name = dbReq'[q].name
  PROVE  DbWorkOK'
<1> SUFFICES ASSUME NEW p \in Requests
             PROVE  /\ req'[p].pc \in DatabasePcs => dbReq'[p].name \in ResourceNames
                    /\ req'[p].pc \in {"deleteDatabase", "deleteRow"} =>
                         /\ dbReq'[p].id \in Requests /\ resource'[dbReq'[p].id].state # "absent"
                         /\ resource'[dbReq'[p].id].user = req'[p].user
                         /\ resource'[dbReq'[p].id].name = dbReq'[p].name
  BY DEF DbWorkOK
<1>1. CASE p = q
  BY <1>1 DEF DatabasePcs
<1>2. CASE p # q
  <2>1. req'[p] = req[p] /\ dbReq'[p] = dbReq[p]
    BY <1>2 DEF DbMoved, Moved
  <2> QED BY <2>1 DEF DInv, DbWorkOK
<1> QED BY <1>1, <1>2

(* A step of q on d is right when it is right for d.                        *)
LEMMA OneDb ==
  ASSUME DInv, NEW q \in Requests, DbMoved(q), NEW d \in AtTurso,
         database' \in [AtTurso -> Requests \cup {NoRequest}],
         resource' \in [Requests -> ResourceType],
         crossed \subseteq crossed', crossed' \subseteq AtTurso,
         \A e \in AtTurso \ {d} : database'[e] = database[e],
         \A e \in AtTurso \ {d}, r \in Requests : Row(r, e)' <=> Row(r, e),
         req[q].pc \in DatabasePcs => Target(q) = d,
         req'[q].pc \in DatabasePcs => Target(q)' = d,
         RowsOK', DbWorkOK', d \notin crossed' => OnDb(d)'
  PROVE  DInv'
<1>1. DatabaseTypeOK'
  BY DEF DatabaseTypeOK, DbMoved
<1>2. DbsOK'
  <2> SUFFICES ASSUME NEW e \in AtTurso \ crossed', e # d PROVE OnDb(e)'
    BY DEF DbsOK
  <2>1. OnDb(e)
    BY DEF DInv, DbsOK
  <2> QED BY <2>1, OtherDbs
<1> QED BY <1>1, <1>2 DEF DInv

LEMMA ProvisionDatabaseInv ==
  ASSUME AInv, DInv, NEW q \in Requests, NEW n \in ResourceNames, ProvisionDatabase(q, n)
  PROVE  AInv' /\ DInv'
<1>0. /\ req[q].pc = "resolved" /\ Goto(q, "createDatabase") /\ ReqOK
      /\ dbReq' = [dbReq EXCEPT ![q].name = n]
      /\ UNCHANGED <<user, github, creds, project, setup, spoilt, mixed>>
      /\ UNCHANGED <<database, resource, crossed>>
      /\ dbReq \in [Requests -> DbRequestType]
  BY DEF ProvisionDatabase, At, AInv, DInv, DatabaseTypeOK
<1>1. /\ Moved(q) /\ req'[q].pc = "createDatabase"
      /\ req'[q].kind = req[q].kind /\ req'[q].user = req[q].user
  BY <1>0, GotoMoves DEF Pcs, DatabasePcs
<1>2. req[q].user \in Users /\ req[q].kind # "link"
  BY <1>0 DEF AInv, ShapesOK, AtWork, LinkPcs
<1>3. AInv'
  BY <1>0, <1>1, <1>2, AccountsKept DEF LinkPcs
<1>4. /\ dbReq'[q].name = n /\ DbMoved(q)
  <2>1. [dbReq[q] EXCEPT !.name = n] \in DbRequestType /\ [dbReq[q] EXCEPT !.name = n].name = n
    BY DbTypes DEF DbRequestType
  <2> QED BY <1>0, <1>1, <2>1 DEF DbMoved
<1>5. PICK d \in AtTurso : Target(q)' = d
  BY <1>1, <1>2, <1>4, TursoNameOK DEF Target
<1>6. RowsOK'
  BY <1>0, <1>4, RowsKept
<1>7. DbWorkOK'
  BY <1>0, <1>1, <1>4, DbWorkKept
<1>8. \A e, r : Row(r, e)' <=> Row(r, e)
  BY <1>0 DEF Row, LiveResource
<1>9. d \notin crossed' => OnDb(d)'
  <2> SUFFICES ASSUME d \notin crossed PROVE OnDb(d)'
    BY <1>0
  <2>1. OnDb(d)
    BY <1>5 DEF DInv, DbsOK
  <2>2. WorkSame(d)
    <3> SUFFICES ASSUME NEW p \in Requests
                 PROVE  /\ Provisioning(p, d)' <=> Provisioning(p, d)
                        /\ Removing(p, d)' <=> Removing(p, d)
                        /\ Leaving(p, d)' <=> Leaving(p, d)
                        /\ (At(p, "deleteDatabase") /\ Target(p) = d)'
                             <=> At(p, "deleteDatabase") /\ Target(p) = d
                        /\ Removing(p, d) => dbReq'[p] = dbReq[p]
      BY DEF WorkSame
    <3>1. CASE p = q
      BY <1>0, <1>1, <3>1 DEF Provisioning, Removing, Leaving, At
    <3>2. CASE p # q
      BY <1>4, <3>2, OtherRequests
    <3> QED BY <3>1, <3>2
  <2> QED BY <1>0, <1>8, <2>1, <2>2, OnDbKept DEF DInv
<1>10. /\ database' \in [AtTurso -> Requests \cup {NoRequest}]
       /\ resource' \in [Requests -> ResourceType]
       /\ crossed' \subseteq AtTurso
  BY <1>0 DEF DInv, DatabaseTypeOK
<1>11. DInv'
  BY <1>0, <1>1, <1>4, <1>5, <1>6, <1>7, <1>8, <1>9, <1>10, OneDb DEF DatabasePcs
<1> QED BY <1>3, <1>11

LEMMA SameRows ==
  ASSUME UNCHANGED resource, NEW d
  PROVE  \A r \in Requests : Row(r, d)' <=> Row(r, d)
  BY DEF Row, LiveResource

(* The requests that work on a row are not those that have yet to insert one. *)
LEMMA RowIds ==
  ASSUME DInv, NEW q \in Requests, req[q].pc \in {"deleteDatabase", "deleteRow"}
  PROVE  /\ dbReq[q].id \in Requests /\ dbReq[q].id # NoRequest
         /\ resource[dbReq[q].id].state # "absent"
         /\ req[dbReq[q].id].pc \in {"compensate", "ended"}
  BY DbTypes DEF DInv, DbWorkOK, RowsOK

LEMMA CreateDatabaseInv ==
  ASSUME AInv, DInv, NEW q \in Requests, CreateDatabase(q)
  PROVE  AInv' /\ DInv'
<1>0. UNCHANGED <<resource, crossed>>
  BY DEF CreateDatabase
<1>00. PICK d \in {Target(q)} : TRUE
  OBVIOUS
<1>1. CASE /\ DatabaseStep(q, "createDatabase", "createAuthToken")
           /\ database[d] = NoRequest /\ database' = [database EXCEPT ![d] = q]
  <2>1. /\ AInv' /\ DbMoved(q)
        /\ req[q].pc = "createDatabase" /\ req'[q].pc = "createAuthToken"
        /\ req'[q].user = req[q].user /\ dbReq'[q] = dbReq[q]
        /\ Target(q) = d /\ Target(q)' = d /\ d \in AtTurso /\ dbReq[q].name \in ResourceNames
    BY <1>1, DbStepMoves DEF DatabasePcs
  <2>2. RowsOK'
    BY <1>0, <2>1, RowsKept
  <2>3. DbWorkOK'
    BY <1>0, <2>1, DbWorkKept
  <2>4. /\ database' \in [AtTurso -> Requests \cup {NoRequest}]
        /\ resource' \in [Requests -> ResourceType] /\ crossed' \subseteq AtTurso
        /\ database'[d] = q /\ \A e \in AtTurso \ {d} : database'[e] = database[e]
    BY <1>0, <1>1, <2>1 DEF DInv, DatabaseTypeOK
  <2>5. \A e : \A r \in Requests : Row(r, e)' <=> Row(r, e)
    BY <1>0, SameRows
  <2>6. ASSUME d \notin crossed' PROVE OnDb(d)'
    <3>0. OnDb(d) /\ NoRequest \notin Requests
      BY <1>0, <2>1, <2>6, DbTypes DEF DInv, DbsOK
    <3>1. \A s, t \in Requests : Removing(s, d)' /\ Removing(t, d)' => s = t
      BY <2>1, <3>0, OtherRequests DEF OnDb, Removing
    <3>2. \A s \in Requests : Provisioning(s, d)' => database'[d] = s
      BY <1>1, <2>1, <2>4, <3>0, OtherRequests DEF OnDb
    <3>3. \A s \in Requests : ~(At(s, "deleteDatabase") /\ Target(s) = d)'
      <4> SUFFICES ASSUME NEW s \in Requests, (At(s, "deleteDatabase") /\ Target(s) = d)'
                   PROVE  FALSE
        OBVIOUS
      <4>1. At(s, "deleteDatabase") /\ Target(s) = d
        BY <2>1, OtherRequests DEF At
      <4> QED BY <1>1, <3>0, <4>1, RowIds DEF OnDb, At
    <3>4. \A s \in Requests : Leaving(s, d)' => database'[d] # dbReq'[s].id
      BY <2>1, <2>4, OtherRequests, RowIds DEF Leaving
    <3>5. \A r \in Requests : Row(r, d)' <=>
            \/ database'[d] = r /\ ~Provisioning(r, d)'
            \/ \E s \in Requests : Leaving(s, d)' /\ dbReq'[s].id = r
      <4>1. \A r \in Requests : ~(database[d] = r) /\ ~(database'[d] = r /\ ~Provisioning(r, d)')
        BY <1>1, <2>1, <2>4, <3>0 DEF Provisioning
      <4>2. \A s \in Requests : /\ Leaving(s, d)' <=> Leaving(s, d)
                                /\ Leaving(s, d) => dbReq'[s] = dbReq[s]
        BY <2>1, OtherRequests DEF Leaving
      <4> QED BY <2>5, <3>0, <4>1, <4>2 DEF OnDb
    <3> QED BY <3>1, <3>2, <3>3, <3>4, <3>5 DEF OnDb
  <2> QED BY <1>0, <2>1, <2>2, <2>3, <2>4, <2>5, <2>6, OneDb
<1>2. CASE DatabaseStep(q, "createDatabase", "ended") /\ UNCHANGED database
  <2>1. /\ AInv' /\ DbMoved(q) /\ Target(q) = d /\ d \in AtTurso
        /\ req[q].pc = "createDatabase" /\ req'[q].pc = "ended"
    BY <1>2, DbStepMoves DEF DatabasePcs
  <2>2. RowsOK'
    BY <1>0, <2>1, RowsKept
  <2>3. DbWorkOK'
    BY <1>0, <2>1, DbWorkKept DEF DatabasePcs
  <2>4. /\ database' \in [AtTurso -> Requests \cup {NoRequest}]
        /\ resource' \in [Requests -> ResourceType] /\ crossed' \subseteq AtTurso
    BY <1>0, <1>2 DEF DInv, DatabaseTypeOK
  <2>5. \A e : \A r \in Requests : Row(r, e)' <=> Row(r, e)
    BY <1>0, SameRows
  <2>6. ASSUME d \notin crossed' PROVE OnDb(d)'
    <3>0. OnDb(d)
      BY <1>0, <2>1, <2>6 DEF DInv, DbsOK
    <3>1. WorkSame(d)
      <4> SUFFICES ASSUME NEW p \in Requests
                   PROVE  /\ Provisioning(p, d)' <=> Provisioning(p, d)
                          /\ Removing(p, d)' <=> Removing(p, d)
                          /\ Leaving(p, d)' <=> Leaving(p, d)
                          /\ (At(p, "deleteDatabase") /\ Target(p) = d)'
                               <=> At(p, "deleteDatabase") /\ Target(p) = d
                          /\ Removing(p, d) => dbReq'[p] = dbReq[p]
        BY DEF WorkSame
      <4>1. CASE p = q
        BY <2>1, <4>1 DEF Provisioning, Removing, Leaving, At
      <4>2. CASE p # q
        BY <2>1, <4>2, OtherRequests
      <4> QED BY <4>1, <4>2
    <3> QED BY <1>2, <2>5, <3>0, <3>1, OnDbKept DEF DInv
  <2> QED BY <1>0, <1>2, <2>1, <2>2, <2>3, <2>4, <2>5, <2>6, OneDb DEF DatabasePcs
<1> QED BY <1>1, <1>2 DEF CreateDatabase

LEMMA CreateAuthTokenInv ==
  ASSUME AInv, DInv, NEW q \in Requests, CreateAuthToken(q)
  PROVE  AInv' /\ DInv'
<1>0. /\ UNCHANGED <<database, resource, crossed>>
      /\ DatabaseStep(q, "createAuthToken",
           IF database[Target(q)] = NoRequest THEN "compensate" ELSE "saveResource")
  BY DEF CreateAuthToken
<1>00. PICK d \in {Target(q)} : TRUE
  OBVIOUS
<1>1. PICK next \in {"compensate", "saveResource"} :
        /\ DatabaseStep(q, "createAuthToken", next)
        /\ database[d] # NoRequest => next = "saveResource"
  BY <1>0, <1>00
<1>2. /\ AInv' /\ DbMoved(q)
      /\ req[q].pc = "createAuthToken" /\ req'[q].pc = next
      /\ req'[q].user = req[q].user /\ dbReq'[q] = dbReq[q]
      /\ Target(q) = d /\ Target(q)' = d /\ d \in AtTurso /\ dbReq[q].name \in ResourceNames
  BY <1>1, DbStepMoves DEF DatabasePcs
<1>3. RowsOK'
  BY <1>0, <1>2, RowsKept
<1>4. DbWorkOK'
  BY <1>0, <1>2, DbWorkKept
<1>5. /\ database' \in [AtTurso -> Requests \cup {NoRequest}]
      /\ resource' \in [Requests -> ResourceType] /\ crossed' \subseteq AtTurso
  BY <1>0 DEF DInv, DatabaseTypeOK
<1>6. \A e : \A r \in Requests : Row(r, e)' <=> Row(r, e)
  BY <1>0, SameRows
<1>7. ASSUME d \notin crossed' PROVE OnDb(d)'
  <2>0. OnDb(d) /\ database[d] = q
    BY <1>0, <1>2, <1>7 DEF DInv, DbsOK, OnDb, Provisioning
  <2>1. next = "saveResource"
    BY <1>1, <2>0, DbTypes
  <2>2. WorkSame(d)
    <3> SUFFICES ASSUME NEW p \in Requests
                 PROVE  /\ Provisioning(p, d)' <=> Provisioning(p, d)
                        /\ Removing(p, d)' <=> Removing(p, d)
                        /\ Leaving(p, d)' <=> Leaving(p, d)
                        /\ (At(p, "deleteDatabase") /\ Target(p) = d)'
                             <=> At(p, "deleteDatabase") /\ Target(p) = d
                        /\ Removing(p, d) => dbReq'[p] = dbReq[p]
      BY DEF WorkSame
    <3>1. CASE p = q
      BY <1>2, <2>1, <3>1 DEF Provisioning, Removing, Leaving, At
    <3>2. CASE p # q
      BY <1>2, <3>2, OtherRequests
    <3> QED BY <3>1, <3>2
  <2> QED BY <1>0, <1>6, <2>0, <2>2, OnDbKept DEF DInv
<1> QED BY <1>0, <1>2, <1>3, <1>4, <1>5, <1>6, <1>7, OneDb

(* The row of a request is inserted when there is none of that request.     *)
LEMMA Inserted ==
  ASSUME DInv, NEW q \in Requests, DbMoved(q), InsertRow(q), NEW d, Target(q) = d,
         req[q].pc = "saveResource", req'[q].pc \in {"compensate", "ended"},
         req[q].user \in Users, dbReq[q].name \in ResourceNames,
         req'[q].pc \in DatabasePcs => dbReq'[q].name \in ResourceNames
  PROVE  /\ resource' \in [Requests -> ResourceType]
         /\ resource[q].state = "absent"
         /\ \A e : Row(q, e)' <=> d = e
         /\ \A e : ~Row(q, e)
         /\ \A e : \A r \in Requests \ {q} : Row(r, e)' <=> Row(r, e)
         /\ RowsOK' /\ DbWorkOK'
<1> DEFINE new == [state |-> "live", user |-> req[q].user, name |-> dbReq[q].name]
<1>0. resource \in [Requests -> ResourceType] /\ resource' = [resource EXCEPT ![q] = new]
  BY DEF DInv, DatabaseTypeOK, InsertRow
<1>1. new \in ResourceType /\ TursoName[new.user][new.name] = d /\ new.state = "live"
      /\ new.user \in Users /\ new.name \in ResourceNames
  BY DEF ResourceType, Target
<1> HIDE DEF new
<1>2. /\ resource' \in [Requests -> ResourceType] /\ resource'[q] = new
      /\ \A r \in Requests \ {q} : resource'[r] = resource[r]
  BY <1>0, <1>1
<1>3. resource[q].state = "absent"
  BY DEF DInv, RowsOK
<1>4. /\ \A e : Row(q, e)' <=> d = e
      /\ \A e : ~Row(q, e)
      /\ \A e : \A r \in Requests \ {q} : Row(r, e)' <=> Row(r, e)
  BY <1>1, <1>2, <1>3 DEF Row, LiveResource
<1>5. RowsOK'
  <2> SUFFICES ASSUME NEW r \in Requests, resource'[r].state # "absent"
               PROVE  /\ resource'[r].user \in Users /\ resource'[r].name \in ResourceNames
                      /\ req'[r].pc \in {"compensate", "ended"}
    BY DEF RowsOK
  <2>1. CASE r = q
    BY <1>1, <1>2, <2>1
  <2>2. CASE r # q
    BY <1>2, <2>2 DEF DInv, RowsOK, DbMoved, Moved
  <2> QED BY <2>1, <2>2
<1>6. \A r \in Requests : resource[r].state # "absent" => resource'[r] = resource[r]
  BY <1>2, <1>3
<1>7. DbWorkOK'
  BY <1>6, DbWorkKept
<1> QED BY <1>2, <1>3, <1>4, <1>5, <1>7

LEMMA CreateResourceInv ==
  ASSUME AInv, DInv, NEW q \in Requests, CreateResource(q)
  PROVE  AInv' /\ DInv'
<1>0. UNCHANGED <<database, crossed>> /\ InsertRow(q) /\ DatabaseStep(q, "saveResource", "ended")
  BY DEF CreateResource
<1>00. PICK d \in {Target(q)} : TRUE
  OBVIOUS
<1>1. /\ AInv' /\ DbMoved(q) /\ Target(q) = d /\ d \in AtTurso
      /\ req[q].pc = "saveResource" /\ req'[q].pc = "ended"
      /\ req[q].user \in Users /\ dbReq[q].name \in ResourceNames
  BY <1>0, DbStepMoves DEF DatabasePcs
<1>2. /\ resource' \in [Requests -> ResourceType] /\ RowsOK' /\ DbWorkOK'
      /\ resource[q].state = "absent"
      /\ \A e : Row(q, e)' <=> d = e
      /\ \A e : ~Row(q, e)
      /\ \A e : \A r \in Requests \ {q} : Row(r, e)' <=> Row(r, e)
  BY <1>0, <1>1, Inserted DEF DatabasePcs
<1>3. /\ database' \in [AtTurso -> Requests \cup {NoRequest}] /\ crossed' \subseteq AtTurso
  BY <1>0 DEF DInv, DatabaseTypeOK
<1>4. ASSUME d \notin crossed' PROVE OnDb(d)'
  <2>0. OnDb(d) /\ database[d] = q
    BY <1>0, <1>1, <1>4 DEF DInv, DbsOK, OnDb, Provisioning
  <2>a. ~Removing(q, d)' /\ ~Provisioning(q, d)' /\ ~Leaving(q, d)' /\ ~Leaving(q, d)
        /\ ~(At(q, "deleteDatabase") /\ Target(q) = d)'
    BY <1>1 DEF Removing, Provisioning, Leaving, At
  <2>1. \A s, t \in Requests : Removing(s, d)' /\ Removing(t, d)' => s = t
    BY <1>1, <2>0, <2>a, OtherRequests DEF OnDb
  <2>2. \A s \in Requests : Provisioning(s, d)' => database'[d] = s
    BY <1>0, <1>1, <2>0, <2>a, OtherRequests DEF OnDb
  <2>3. \A s \in Requests : ~(At(s, "deleteDatabase") /\ Target(s) = d)'
    <3> SUFFICES ASSUME NEW s \in Requests, (At(s, "deleteDatabase") /\ Target(s) = d)'
                 PROVE  FALSE
      OBVIOUS
    <3>1. s # q /\ At(s, "deleteDatabase") /\ Target(s) = d
      BY <1>1, <2>a, OtherRequests
    <3> QED BY <1>1, <2>0, <3>1, RowIds DEF OnDb, At
  <2>4. \A s \in Requests : Leaving(s, d)' => database'[d] # dbReq'[s].id
    BY <1>0, <1>1, <2>0, <2>a, OtherRequests DEF OnDb
  <2>5. \A r \in Requests : Row(r, d)' <=>
          \/ database'[d] = r /\ ~Provisioning(r, d)'
          \/ \E s \in Requests : Leaving(s, d)' /\ dbReq'[s].id = r
    <3>1. \A s \in Requests : /\ Leaving(s, d)' <=> Leaving(s, d)
                              /\ Leaving(s, d) => dbReq'[s] = dbReq[s]
      BY <1>1, <2>a, OtherRequests
    <3>2. \A r \in Requests \ {q} : Row(r, d) <=> \E s \in Requests : Leaving(s, d) /\ dbReq[s].id = r
      BY <2>0 DEF OnDb
    <3> QED BY <1>0, <1>2, <2>0, <2>a, <3>1, <3>2
  <2> QED BY <2>1, <2>2, <2>3, <2>4, <2>5 DEF OnDb
<1>5. \A e \in AtTurso \ {d}, r \in Requests : Row(r, e)' <=> Row(r, e)
  BY <1>2
<1> QED BY <1>0, <1>1, <1>2, <1>3, <1>4, <1>5, OneDb DEF DatabasePcs

(* The database is deleted by its name, whatever it is.                     *)
LEMMA CompensateInv ==
  ASSUME AInv, DInv, NEW q \in Requests, Compensate(q)
  PROVE  AInv' /\ DInv'
<1>0. UNCHANGED <<resource, crossed>> /\ DatabaseStep(q, "compensate", "ended")
      /\ database' = [database EXCEPT ![Target(q)] = NoRequest]
  BY DEF Compensate
<1>00. PICK d \in {Target(q)} : TRUE
  OBVIOUS
<1>1. /\ AInv' /\ DbMoved(q) /\ Target(q) = d /\ d \in AtTurso
      /\ req[q].pc = "compensate" /\ req'[q].pc = "ended"
  BY <1>0, DbStepMoves DEF DatabasePcs
<1>2. RowsOK'
  BY <1>0, <1>1, RowsKept
<1>3. DbWorkOK'
  BY <1>0, <1>1, DbWorkKept DEF DatabasePcs
<1>4. /\ database' \in [AtTurso -> Requests \cup {NoRequest}]
      /\ resource' \in [Requests -> ResourceType] /\ crossed' \subseteq AtTurso
      /\ database'[d] = NoRequest /\ \A e \in AtTurso \ {d} : database'[e] = database[e]
  BY <1>0, <1>1 DEF DInv, DatabaseTypeOK
<1>5. \A e : \A r \in Requests : Row(r, e)' <=> Row(r, e)
  BY <1>0, SameRows
<1>6. ASSUME d \notin crossed' PROVE OnDb(d)'
  <2>0. OnDb(d) /\ database[d] = q /\ Removing(q, d) /\ NoRequest \notin Requests
    BY <1>0, <1>1, <1>6, DbTypes DEF DInv, DbsOK, OnDb, Provisioning, Removing
  <2>1. \A s \in Requests : ~Removing(s, d)'
    <3> SUFFICES ASSUME NEW s \in Requests, Removing(s, d)' PROVE FALSE
      OBVIOUS
    <3>1. s # q
      BY <1>1 DEF Removing
    <3>2. Removing(s, d)
      BY <1>1, <3>1, OtherRequests
    <3> QED BY <2>0, <3>1, <3>2 DEF OnDb
  <2>2. \A s \in Requests : ~Leaving(s, d)' /\ ~(At(s, "deleteDatabase") /\ Target(s) = d)'
    BY <2>1 DEF Removing, Leaving, At
  <2>3. \A s \in Requests : ~Provisioning(s, d)'
    <3> SUFFICES ASSUME NEW s \in Requests, Provisioning(s, d)' PROVE FALSE
      OBVIOUS
    <3>1. s # q
      BY <1>1 DEF Provisioning
    <3>2. Provisioning(s, d)
      BY <1>1, <3>1, OtherRequests
    <3> QED BY <2>0, <3>1, <3>2 DEF OnDb
  <2>4. \A r \in Requests : ~Row(r, d)
    <3>1. \A s \in Requests : ~Leaving(s, d)
      BY <1>1, <2>0 DEF OnDb, Leaving, Removing
    <3>2. Provisioning(q, d)
      BY <1>1 DEF Provisioning
    <3> QED BY <2>0, <3>1, <3>2 DEF OnDb
  <2> QED BY <1>4, <1>5, <2>0, <2>1, <2>2, <2>3, <2>4 DEF OnDb
<1> QED BY <1>0, <1>1, <1>2, <1>3, <1>4, <1>5, <1>6, OneDb DEF DatabasePcs

LEMMA DeleteDatabaseInv ==
  ASSUME AInv, DInv, NEW q \in Requests, DeleteDatabase(q)
  PROVE  AInv' /\ DInv'
<1>0. UNCHANGED <<resource, crossed>> /\ DatabaseStep(q, "deleteDatabase", "deleteRow")
      /\ database' = [database EXCEPT ![Target(q)] = NoRequest]
  BY DEF DeleteDatabase
<1>00. PICK d \in {Target(q)} : TRUE
  OBVIOUS
<1>1. /\ AInv' /\ DbMoved(q) /\ Target(q) = d /\ Target(q)' = d /\ d \in AtTurso
      /\ req[q].pc = "deleteDatabase" /\ req'[q].pc = "deleteRow"
      /\ dbReq'[q] = dbReq[q] /\ req'[q].user = req[q].user /\ dbReq[q].name \in ResourceNames
  BY <1>0, DbStepMoves DEF DatabasePcs
<1>2. RowsOK'
  BY <1>0, <1>1, RowsKept
<1>3. DbWorkOK'
  <2>1. /\ dbReq[q].id \in Requests /\ resource[dbReq[q].id].state # "absent"
        /\ resource[dbReq[q].id].user = req[q].user
        /\ resource[dbReq[q].id].name = dbReq[q].name
    BY <1>1 DEF DInv, DbWorkOK
  <2> QED BY <1>0, <1>1, <2>1, DbWorkKept
<1>4. /\ database' \in [AtTurso -> Requests \cup {NoRequest}]
      /\ resource' \in [Requests -> ResourceType] /\ crossed' \subseteq AtTurso
      /\ database'[d] = NoRequest /\ \A e \in AtTurso \ {d} : database'[e] = database[e]
  BY <1>0, <1>1 DEF DInv, DatabaseTypeOK
<1>5. \A e : \A r \in Requests : Row(r, e)' <=> Row(r, e)
  BY <1>0, SameRows
<1>6. ASSUME d \notin crossed' PROVE OnDb(d)'
  <2> DEFINE i == dbReq[q].id
  <2>0. /\ OnDb(d) /\ Removing(q, d) /\ At(q, "deleteDatabase")
        /\ NoRequest \notin Requests /\ i \in Requests
    BY <1>0, <1>1, <1>6, DbTypes, RowIds DEF DInv, DbsOK, Removing, At
  <2>1. database[d] = i /\ ~Provisioning(i, d)
    BY <1>1, <2>0 DEF OnDb
  <2>2. \A s \in Requests \ {q} : ~Removing(s, d) /\ ~Removing(s, d)'
    BY <1>1, <2>0, OtherRequests DEF OnDb
  <2>3. \A s \in Requests : ~Leaving(s, d)
    BY <1>1, <2>2 DEF Leaving, Removing
  <2>4. /\ \A s \in Requests \ {q} : ~Leaving(s, d)'
        /\ Leaving(q, d)' /\ dbReq'[q].id = i
    BY <1>1, <2>2 DEF Leaving, Removing
  <2>5. \A s \in Requests : ~(At(s, "deleteDatabase") /\ Target(s) = d)'
    BY <1>1, <2>2 DEF At, Removing
  <2>6. \A s \in Requests : ~Provisioning(s, d)'
    <3> SUFFICES ASSUME NEW s \in Requests, Provisioning(s, d)' PROVE FALSE
      OBVIOUS
    <3>1. s # q
      BY <1>1 DEF Provisioning
    <3>2. Provisioning(s, d)
      BY <1>1, <3>1, OtherRequests
    <3> QED BY <2>0, <2>1, <3>2 DEF OnDb
  <2>7. \A r \in Requests : Row(r, d) <=> r = i
    BY <2>0, <2>1, <2>3 DEF OnDb
  <2>8. \A r \in Requests : Row(r, d)' <=>
          \/ database'[d] = r /\ ~Provisioning(r, d)'
          \/ \E s \in Requests : Leaving(s, d)' /\ dbReq'[s].id = r
    BY <1>4, <1>5, <2>0, <2>4, <2>7
  <2> HIDE DEF i
  <2>9. \A s \in Requests : Leaving(s, d)' => database'[d] # dbReq'[s].id
    BY <1>4, <2>0, <2>4
  <2> QED BY <2>2, <2>5, <2>6, <2>8, <2>9 DEF OnDb
<1> QED BY <1>0, <1>1, <1>2, <1>3, <1>4, <1>5, <1>6, OneDb

LEMMA DeleteRowInv ==
  ASSUME AInv, DInv, NEW q \in Requests, DeleteResourceByUserAndID(q)
  PROVE  AInv' /\ DInv'
<1>0. UNCHANGED <<database, crossed>> /\ DatabaseStep(q, "deleteRow", "ended")
      /\ resource' = [resource EXCEPT ![dbReq[q].id].state = "removed"]
  BY DEF DeleteResourceByUserAndID
<1>00. PICK d \in {Target(q)}, i \in {dbReq[q].id} : TRUE
  OBVIOUS
<1>1. /\ AInv' /\ DbMoved(q) /\ Target(q) = d /\ d \in AtTurso
      /\ req[q].pc = "deleteRow" /\ req'[q].pc = "ended"
  BY <1>0, DbStepMoves DEF DatabasePcs
<1>2. /\ i \in Requests /\ dbReq[q].id = i /\ resource[i].state # "absent"
      /\ TursoName[resource[i].user][resource[i].name] = d
  BY <1>1 DEF DInv, DbWorkOK, Target
<1>3. /\ resource' \in [Requests -> ResourceType]
      /\ resource'[i].state = "removed" /\ resource'[i].user = resource[i].user
      /\ resource'[i].name = resource[i].name
      /\ \A r \in Requests \ {i} : resource'[r] = resource[r]
  BY <1>0, <1>2 DEF DInv, DatabaseTypeOK, ResourceType
<1>4. RowsOK'
  <2> SUFFICES ASSUME NEW r \in Requests, resource'[r].state # "absent"
               PROVE  /\ resource'[r].user \in Users /\ resource'[r].name \in ResourceNames
                      /\ req'[r].pc \in {"compensate", "ended"}
    BY DEF RowsOK
  <2>1. /\ resource[r].user \in Users /\ resource[r].name \in ResourceNames
        /\ req[r].pc \in {"compensate", "ended"}
    BY <1>2, <1>3 DEF DInv, RowsOK
  <2>2. resource'[r].user = resource[r].user /\ resource'[r].name = resource[r].name
    BY <1>3
  <2>3. req'[r].pc \in {"compensate", "ended"}
    BY <1>1, <2>1 DEF DbMoved, Moved
  <2> QED BY <2>1, <2>2, <2>3
<1>5. DbWorkOK'
  <2>1. \A r \in Requests : resource[r].state # "absent" =>
           /\ resource'[r].state # "absent"
           /\ resource'[r].user = resource[r].user /\ resource'[r].name = resource[r].name
    BY <1>3
  <2> QED BY <1>1, <2>1, DbWorkKept DEF DatabasePcs
<1>6. /\ database' \in [AtTurso -> Requests \cup {NoRequest}] /\ crossed' \subseteq AtTurso
  BY <1>0 DEF DInv, DatabaseTypeOK
<1>7. /\ \A e : ~Row(i, e)' /\ (Row(i, e) => e = d)
      /\ \A e : \A r \in Requests \ {i} : Row(r, e)' <=> Row(r, e)
  BY <1>2, <1>3 DEF Row, LiveResource
<1>8. ASSUME d \notin crossed' PROVE OnDb(d)'
  <2>0. /\ OnDb(d) /\ Removing(q, d) /\ Leaving(q, d) /\ database'[d] = database[d]
        /\ database[d] # i
    BY <1>0, <1>1, <1>2, <1>8 DEF DInv, DbsOK, Removing, Leaving, OnDb
  <2>1. \A s \in Requests : ~Removing(s, d)'
    <3> SUFFICES ASSUME NEW s \in Requests, Removing(s, d)' PROVE FALSE
      OBVIOUS
    <3>1. s # q
      BY <1>1 DEF Removing
    <3>2. Removing(s, d)
      BY <1>1, <3>1, OtherRequests
    <3> QED BY <2>0, <3>1, <3>2 DEF OnDb
  <2>2. \A s \in Requests : ~Leaving(s, d)' /\ ~(At(s, "deleteDatabase") /\ Target(s) = d)'
    BY <2>1 DEF Removing, Leaving, At
  <2>3. \A s \in Requests : Provisioning(s, d)' <=> Provisioning(s, d)
    <3>1. ~Provisioning(q, d) /\ ~Provisioning(q, d)'
      BY <1>1 DEF Provisioning
    <3> QED BY <1>1, <3>1, OtherRequests
  <2>4. \A r \in Requests : Row(r, d) <=> (database[d] = r /\ ~Provisioning(r, d)) \/ r = i
    <3>1. \A s \in Requests : Leaving(s, d) <=> s = q
      BY <2>0 DEF OnDb, Leaving, Removing
    <3> QED BY <1>2, <2>0, <3>1 DEF OnDb
  <2>5. \A r \in Requests : Row(r, d)' <=> database'[d] = r /\ ~Provisioning(r, d)'
    BY <1>7, <2>0, <2>3, <2>4
  <2>6. \A s \in Requests : Provisioning(s, d)' => database'[d] = s
    BY <2>0, <2>3 DEF OnDb
  <2> QED BY <2>1, <2>2, <2>5, <2>6 DEF OnDb
<1>9. \A e \in AtTurso \ {d}, r \in Requests : Row(r, e)' <=> Row(r, e)
  BY <1>7
<1> QED BY <1>0, <1>1, <1>3, <1>4, <1>5, <1>6, <1>8, <1>9, OneDb DEF DatabasePcs

LEMMA DeleteResourceInv ==
  ASSUME AInv, DInv, NEW q \in Requests, NEW i \in Requests, DeleteResource(q, i)
  PROVE  AInv' /\ DInv'
<1> DEFINE u == resource[i].user
<1>00. PICK d \in {TursoName[resource[i].user][resource[i].name]} : TRUE
  OBVIOUS
<1>0. /\ LiveResource(i) /\ Begin(q, u, "database", "deleteDatabase")
      /\ dbReq' = [dbReq EXCEPT ![q] = [name |-> resource[i].name, id |-> i]]
      /\ Crosses(d) /\ UNCHANGED <<user, github, creds, project, setup, spoilt, mixed>>
      /\ UNCHANGED <<database, resource>> /\ ReqOK
  BY DEF DeleteResource, AInv
<1>1. /\ u \in Users /\ resource[i].name \in ResourceNames /\ resource[i].state # "absent"
      /\ d \in AtTurso /\ Row(i, d)
  BY <1>0, TursoNameOK DEF LiveResource, DInv, RowsOK, Row
<1>2. /\ Moved(q) /\ req[q].pc = "new"
      /\ req'[q].pc = "deleteDatabase" /\ req'[q].kind = "database" /\ req'[q].user = u
  BY <1>0, <1>1, BeginMoves DEF Kinds, Pcs, DatabasePcs, At
<1> HIDE DEF u
<1>3. AInv'
  BY <1>0, <1>1, <1>2, AccountsKept DEF LinkPcs
<1>4. DbMoved(q) /\ dbReq'[q].name = resource[i].name /\ dbReq'[q].id = i
  <2>1. [name |-> resource[i].name, id |-> i] \in DbRequestType
    BY <1>1 DEF DbRequestType
  <2> QED BY <1>0, <1>2, <2>1 DEF DbMoved, DInv, DatabaseTypeOK
<1>5. Target(q)' = d
  BY <1>2, <1>4 DEF Target, u
<1>6. RowsOK'
  BY <1>0, <1>2, <1>4, RowsKept
<1>7. DbWorkOK'
  BY <1>0, <1>1, <1>2, <1>4, DbWorkKept DEF u
<1>8. /\ database' \in [AtTurso -> Requests \cup {NoRequest}]
      /\ resource' \in [Requests -> ResourceType]
      /\ crossed \subseteq crossed' /\ crossed' \subseteq AtTurso
  BY <1>0, <1>1 DEF DInv, DatabaseTypeOK, Crosses
<1>9. \A e : \A r \in Requests : Row(r, e)' <=> Row(r, e)
  BY <1>0, SameRows
<1>10. ASSUME d \notin crossed' PROVE OnDb(d)'
  <2>0. OnDb(d)
    BY <1>1, <1>8, <1>10 DEF DInv, DbsOK
  <2>1. \A s \in Requests : ~Removing(s, d)
    <3>1. Deleting(d) = {}
      BY <1>0, <1>10 DEF Crosses
    <3> QED BY <3>1 DEF Deleting, WorkingOn, Removing
  <2>2. database[d] = i /\ ~Provisioning(i, d)
    BY <1>1, <2>0, <2>1 DEF OnDb, Leaving, Removing
  <2>3. \A s \in Requests \ {q} : ~Removing(s, d)'
    BY <1>4, <2>1, OtherRequests
  <2>4. \A s \in Requests : ~Leaving(s, d)' /\ ~Leaving(s, d)
    BY <1>2, <2>1, <2>3 DEF Leaving, Removing
  <2>5. \A s \in Requests : Provisioning(s, d)' <=> Provisioning(s, d)
    <3>1. ~Provisioning(q, d) /\ ~Provisioning(q, d)'
      BY <1>2 DEF Provisioning
    <3> QED BY <1>4, <3>1, OtherRequests
  <2>6. \A s \in Requests : (At(s, "deleteDatabase") /\ Target(s) = d)' => s = q
    BY <2>3 DEF Removing, At
  <2>7. \A s, t \in Requests : Removing(s, d)' /\ Removing(t, d)' => s = t
    BY <2>3
  <2>8. \A s \in Requests : (At(s, "deleteDatabase") /\ Target(s) = d)' =>
           database'[d] = dbReq'[s].id /\ ~Provisioning(dbReq[s].id, d)'
    BY <1>0, <1>4, <2>2, <2>5, <2>6
  <2>9. \A s \in Requests : Provisioning(s, d)' => database'[d] = s
    BY <1>0, <2>0, <2>5 DEF OnDb
  <2>10. \A r \in Requests : Row(r, d)' <=> database'[d] = r /\ ~Provisioning(r, d)'
    BY <1>0, <1>9, <2>0, <2>4, <2>5 DEF OnDb
  <2> QED BY <2>4, <2>7, <2>8, <2>9, <2>10 DEF OnDb
<1>11. DInv'
  BY <1>0, <1>1, <1>2, <1>4, <1>5, <1>6, <1>7, <1>8, <1>9, <1>10, OneDb DEF DatabasePcs
<1> QED BY <1>3, <1>11

(* A fault sets the database of the request aside.                          *)
LEMMA DatabaseFault ==
  ASSUME AInv, DInv, NEW q \in Requests, NEW pc \in DatabasePcs,
         NEW next \in DatabasePcs \cup {"ended"}, DatabaseStep(q, pc, next),
         UNCHANGED resource, crossed' = crossed \cup {Target(q)},
         NEW to \in Requests \cup {NoRequest},
         database' = database \/ database' = [database EXCEPT ![Target(q)] = to],
         pc # "compensate" \/ next = "ended",
         next \notin {"deleteDatabase", "deleteRow"} \/ pc \in {"deleteDatabase", "deleteRow"}
  PROVE  AInv' /\ DInv'
<1>00. PICK d \in {Target(q)} : TRUE
  OBVIOUS
<1>1. /\ AInv' /\ DbMoved(q) /\ Target(q) = d /\ d \in AtTurso
      /\ req[q].pc = pc /\ req'[q].pc = next /\ dbReq[q].name \in ResourceNames
      /\ next # "ended" => /\ req'[q].user = req[q].user /\ dbReq'[q] = dbReq[q]
                           /\ Target(q)' = Target(q)
  BY DbStepMoves
<1>2. RowsOK'
  BY <1>1, RowsKept DEF DatabasePcs
<1>3. DbWorkOK'
  <2>1. next \in {"deleteDatabase", "deleteRow"} =>
          /\ dbReq[q].id \in Requests /\ resource[dbReq[q].id].state # "absent"
          /\ resource[dbReq[q].id].user = req[q].user
          /\ resource[dbReq[q].id].name = dbReq[q].name
    BY <1>1 DEF DInv, DbWorkOK
  <2>2. next \in DatabasePcs => next # "ended"
    BY DEF DatabasePcs
  <2> QED BY <1>1, <2>1, <2>2, DbWorkKept
<1>4. /\ database' \in [AtTurso -> Requests \cup {NoRequest}]
      /\ \A e \in AtTurso \ {d} : database'[e] = database[e]
  BY <1>1 DEF DInv, DatabaseTypeOK
<1>5. \A e : \A r \in Requests : Row(r, e)' <=> Row(r, e)
  BY SameRows
<1>6. /\ resource' \in [Requests -> ResourceType]
      /\ d \in crossed' /\ crossed \subseteq crossed' /\ crossed' \subseteq AtTurso
  BY <1>1 DEF DInv, DatabaseTypeOK
<1>7. next \in DatabasePcs => Target(q)' = d
  BY <1>1 DEF DatabasePcs
<1> QED BY <1>1, <1>2, <1>3, <1>4, <1>5, <1>6, <1>7, OneDb

LEMMA ProviderFailsInv ==
  ASSUME AInv, DInv, NEW q \in Requests, ProviderFails(q)
  PROVE  AInv' /\ DInv'
<1>0. UNCHANGED resource /\ crossed' = crossed \cup {Target(q)}
  BY DEF ProviderFails
<1>1. CASE /\ DatabaseStep(q, "createDatabase", "ended")
           /\ database' = [database EXCEPT ![Target(q)] = IF @ = NoRequest THEN q ELSE @]
  <2>1. Target(q) \in AtTurso
    BY <1>1, DbStepMoves DEF DatabasePcs
  <2>2. \E to \in Requests \cup {NoRequest} : database' = [database EXCEPT ![Target(q)] = to]
    BY <1>1, <2>1 DEF DInv, DatabaseTypeOK
  <2> QED BY <1>0, <1>1, <2>2, DatabaseFault DEF DatabasePcs
<1>2. CASE /\ UNCHANGED database
           /\ \/ DatabaseStep(q, "createAuthToken", "compensate")
              \/ DatabaseStep(q, "compensate", "ended")
              \/ DatabaseStep(q, "deleteDatabase", "deleteRow")
  BY <1>0, <1>2, DatabaseFault DEF DatabasePcs
<1> QED BY <1>1, <1>2 DEF ProviderFails

LEMMA DatabaseRequestDiesInv ==
  ASSUME AInv, DInv, NEW q \in Requests, DatabaseRequestDies(q)
  PROVE  AInv' /\ DInv'
  BY DatabaseFault DEF DatabaseRequestDies, DatabasePcs

LEMMA SaveFailsInv ==
  ASSUME AInv, DInv, NEW q \in Requests, SaveFails(q)
  PROVE  AInv' /\ DInv'
<1>0. DatabaseStep(q, "saveResource", "compensate") /\ UNCHANGED database
  BY DEF SaveFails
<1>00. PICK d \in {Target(q)} : TRUE
  OBVIOUS
<1>1. /\ AInv' /\ DbMoved(q) /\ Target(q) = d /\ Target(q)' = d /\ d \in AtTurso
      /\ req[q].pc = "saveResource" /\ req'[q].pc = "compensate"
      /\ req[q].user \in Users /\ req'[q].user = req[q].user
      /\ dbReq'[q] = dbReq[q] /\ dbReq[q].name \in ResourceNames
  BY <1>0, DbStepMoves DEF DatabasePcs
<1>2. database' \in [AtTurso -> Requests \cup {NoRequest}]
  BY <1>0 DEF DInv, DatabaseTypeOK
<1>3. CASE InsertRow(q) /\ crossed' = crossed \cup {Target(q)}
  <2>1. /\ resource' \in [Requests -> ResourceType] /\ RowsOK' /\ DbWorkOK'
        /\ \A e : Row(q, e)' <=> d = e
        /\ \A e : ~Row(q, e)
        /\ \A e : \A r \in Requests \ {q} : Row(r, e)' <=> Row(r, e)
    BY <1>1, <1>3, Inserted DEF DatabasePcs
  <2>2. \A e \in AtTurso \ {d}, r \in Requests : Row(r, e)' <=> Row(r, e)
    BY <2>1
  <2>3. crossed \subseteq crossed' /\ crossed' \subseteq AtTurso /\ d \in crossed'
    BY <1>1, <1>3 DEF DInv, DatabaseTypeOK
  <2> QED BY <1>0, <1>1, <1>2, <2>1, <2>2, <2>3, OneDb
<1>4. CASE UNCHANGED resource /\ Crosses(Target(q))
  <2>1. RowsOK'
    BY <1>1, <1>4, RowsKept
  <2>2. DbWorkOK'
    BY <1>1, <1>4, DbWorkKept
  <2>3. \A e : \A r \in Requests : Row(r, e)' <=> Row(r, e)
    BY <1>4, SameRows
  <2>4. /\ resource' \in [Requests -> ResourceType]
        /\ crossed \subseteq crossed' /\ crossed' \subseteq AtTurso
    BY <1>1, <1>4 DEF DInv, DatabaseTypeOK, Crosses
  <2>5. ASSUME d \notin crossed' PROVE OnDb(d)'
    <3>0. OnDb(d)
      BY <1>1, <2>4, <2>5 DEF DInv, DbsOK
    <3>1. \A s \in Requests : ~Removing(s, d)
      <4>1. Deleting(d) = {}
        BY <1>1, <1>4, <2>5 DEF Crosses
      <4> QED BY <4>1 DEF Deleting, WorkingOn, Removing
    <3>2. \A s \in Requests \ {q} : ~Removing(s, d)'
      BY <1>1, <3>1, OtherRequests
    <3>3. \A s \in Requests : /\ ~Leaving(s, d)' /\ ~Leaving(s, d)
                              /\ ~(At(s, "deleteDatabase") /\ Target(s) = d)'
      BY <1>1, <3>1, <3>2 DEF Leaving, Removing, At
    <3>4. \A s \in Requests : Provisioning(s, d)' <=> Provisioning(s, d)
      <4>1. Provisioning(q, d) /\ Provisioning(q, d)'
        BY <1>1 DEF Provisioning
      <4> QED BY <1>1, <4>1, OtherRequests
    <3>5. \A s \in Requests : Provisioning(s, d)' => database'[d] = s
      BY <1>0, <3>0, <3>4 DEF OnDb
    <3>6. \A r \in Requests : Row(r, d)' <=> database'[d] = r /\ ~Provisioning(r, d)'
      BY <1>0, <2>3, <3>0, <3>3, <3>4 DEF OnDb
    <3> QED BY <3>2, <3>3, <3>5, <3>6 DEF OnDb
  <2> QED BY <1>0, <1>1, <1>2, <2>1, <2>2, <2>3, <2>4, <2>5, OneDb
<1> QED BY <1>3, <1>4 DEF SaveFails

LEMMA DatabaseNextInv == AInv /\ DInv /\ DatabaseNext => AInv' /\ DInv'
<1> SUFFICES ASSUME AInv, DInv, DatabaseNext PROVE AInv' /\ DInv'
  OBVIOUS
<1>1. ASSUME NEW q \in Requests,
             \/ CreateDatabase(q) \/ CreateAuthToken(q) \/ CreateResource(q) \/ Compensate(q)
             \/ DeleteDatabase(q) \/ DeleteResourceByUserAndID(q)
             \/ ProviderFails(q) \/ SaveFails(q) \/ DatabaseRequestDies(q)
      PROVE  AInv' /\ DInv'
  BY <1>1, CreateDatabaseInv, CreateAuthTokenInv, CreateResourceInv, CompensateInv,
     DeleteDatabaseInv, DeleteRowInv, ProviderFailsInv, SaveFailsInv, DatabaseRequestDiesInv
<1>2. ASSUME NEW q \in Requests, NEW n \in ResourceNames, ProvisionDatabase(q, n)
      PROVE  AInv' /\ DInv'
  BY <1>2, ProvisionDatabaseInv
<1>3. ASSUME NEW q, NEW r, q \in Requests, r \in Requests, DeleteResource(q, r)
      PROVE  AInv' /\ DInv'
  BY <1>3, DeleteResourceInv
<1> QED BY <1>1, <1>2, <1>3 DEF DatabaseNext

(* What the steps of databases do to the requests.                          *)
DatabaseMove ==
  /\ spoilt' = spoilt
  /\ \E q \in Requests : Moved(q) /\ req[q].pc \notin RepoPcs /\ req'[q].pc \notin RepoPcs

LEMMA DatabaseNextMoves == AInv /\ DInv /\ DatabaseNext => DatabaseMove
<1> SUFFICES ASSUME AInv, DInv, DatabaseNext PROVE DatabaseMove
  OBVIOUS
<1>0. ReqOK
  BY DEF AInv
<1>1. ASSUME NEW q, NEW r, q \in Requests, r \in Requests, DeleteResource(q, r)
      PROVE  DatabaseMove
  <2>1. Begin(q, resource[r].user, "database", "deleteDatabase") /\ spoilt' = spoilt
    BY <1>1 DEF DeleteResource
  <2>2. resource[r].user \in Users
    BY <1>1 DEF DeleteResource, LiveResource, DInv, RowsOK
  <2>3. Moved(q) /\ At(q, "new") /\ req'[q].pc = "deleteDatabase"
    BY <1>0, <1>1, <2>1, <2>2, BeginMoves DEF Pcs, DatabasePcs, Kinds
  <2> QED BY <1>1, <2>1, <2>3 DEF DatabaseMove, At, RepoPcs
<1>2. ASSUME NEW q \in Requests,
             \/ CreateDatabase(q) \/ CreateAuthToken(q) \/ CreateResource(q) \/ Compensate(q)
             \/ DeleteDatabase(q) \/ DeleteResourceByUserAndID(q)
             \/ ProviderFails(q) \/ SaveFails(q) \/ DatabaseRequestDies(q)
             \/ \E n \in ResourceNames : ProvisionDatabase(q, n)
      PROVE  DatabaseMove
  <2>1. PICK pc \in DatabasePcs \cup {"resolved"}, next \in DatabasePcs \cup {"ended"} :
          req[q].pc = pc /\ Goto(q, next) /\ spoilt' = spoilt
    BY <1>2 DEF CreateDatabase, CreateAuthToken, CreateResource, Compensate, DeleteDatabase,
                DeleteResourceByUserAndID, ProviderFails, SaveFails, DatabaseRequestDies,
                ProvisionDatabase, DatabaseStep, At, DatabasePcs
  <2>2. Moved(q) /\ req'[q].pc = next
    BY <1>0, <2>1, GotoMoves DEF Pcs, AccountPcs
  <2> QED BY <2>1, <2>2 DEF DatabaseMove, RepoPcs, DatabasePcs
<1> QED BY <1>1, <1>2 DEF DatabaseNext

LEMMA DatabaseInitInv == AccountInit /\ DatabaseInit => DInv
<1> SUFFICES ASSUME AccountInit, DatabaseInit PROVE DInv
  OBVIOUS
<1>1. /\ \A q \in Requests : req[q].pc = "new"
      /\ \A r \in Requests : resource[r].state = "absent"
      /\ database = [d \in AtTurso |-> NoRequest] /\ NoRequest \notin Requests
  BY RequestsOK DEF AccountInit, NewRequest, DatabaseInit, AbsentResource, NoRequest, Requests
<1>2. NoDbRequest \in DbRequestType /\ AbsentResource \in ResourceType
  BY DEF NoDbRequest, DbRequestType, AbsentResource, ResourceType
<1>3. DatabaseTypeOK
  BY <1>1, <1>2 DEF DatabaseInit, DatabaseTypeOK
<1>4. RowsOK /\ DbWorkOK
  BY <1>1 DEF RowsOK, DbWorkOK, DatabasePcs
<1>5. DbsOK
  <2> SUFFICES ASSUME NEW d \in AtTurso PROVE OnDb(d)
    BY DEF DbsOK
  <2>1. \A q \in Requests : ~Provisioning(q, d) /\ ~Removing(q, d) /\ ~Leaving(q, d)
                            /\ ~At(q, "deleteDatabase")
    BY <1>1 DEF Provisioning, Removing, Leaving, At
  <2>2. \A r \in Requests : ~Row(r, d) /\ database[d] # r
    BY <1>1 DEF Row, LiveResource
  <2> QED BY <2>1, <2>2 DEF OnDb
<1> QED BY <1>3, <1>4, <1>5 DEF DInv

(* With nobody at work on it, the rows of a database are the one it is of.  *)
LEMMA MatchFollows == DInv => DatabasesMatch
<1> SUFFICES ASSUME DInv, NEW d \in AtTurso \ crossed, ~Busy(d)
             PROVE  RowsOf(d) = IF database[d] = NoRequest THEN {} ELSE {database[d]}
  BY DEF DatabasesMatch
<1>1. OnDb(d) /\ NoRequest \notin Requests /\ database[d] \in Requests \cup {NoRequest}
  BY DbTypes, RequestsOK DEF DInv, DbsOK, DatabaseTypeOK, NoRequest, Requests
<1>2. \A q \in Requests : ~Provisioning(q, d) /\ ~Leaving(q, d)
  BY DEF Busy, WorkingOn, Provisioning, Leaving, DatabasePcs
<1>3. \A r \in Requests : Row(r, d) <=> database[d] = r
  BY <1>1, <1>2 DEF OnDb
<1>4. RowsOf(d) = {r \in Requests : Row(r, d)}
  BY DEF RowsOf, Row
<1> QED BY <1>1, <1>3, <1>4

-----------------------------------------------------------------------------
(* All of it together.                                                      *)

TInv == AInv /\ RInv /\ DInv

LEMMA InitInv == Init => TInv
  BY AccountInitInv, RepoInitInv, DatabaseInitInv DEF Init, TInv

LEMMA NextInv == TInv /\ [Next]_vars => TInv'
<1> SUFFICES ASSUME TInv, [Next]_vars PROVE TInv'
  OBVIOUS
<1>1. CASE AccountNext /\ UNCHANGED <<repoVars, databaseVars>>
  <2>1. AInv' /\ AccountMove
    BY <1>1, AccountNextInv, AccountNextMoves DEF TInv
  <2>2. RInv'
    BY <1>1, <2>1, ReposKept DEF TInv, AccountMove, Outside
  <2>3. DInv'
    BY <1>1, <2>1, DatabasesKept DEF TInv, AccountMove, Outside
  <2> QED BY <2>1, <2>2, <2>3 DEF TInv
<1>2. CASE RepoNext /\ UNCHANGED databaseVars
  <2>1. AInv' /\ RInv' /\ RepoMove
    BY <1>2, RepoNextInv, RepoNextMoves DEF TInv, Both
  <2>2. DInv'
    BY <1>2, <2>1, DatabasesKept DEF TInv, RepoMove
  <2> QED BY <2>1, <2>2 DEF TInv
<1>3. CASE DatabaseNext /\ UNCHANGED repoVars
  <2>1. AInv' /\ DInv' /\ DatabaseMove
    BY <1>3, DatabaseNextInv, DatabaseNextMoves DEF TInv
  <2>2. RInv'
    BY <1>3, <2>1, ReposKept DEF TInv, DatabaseMove
  <2> QED BY <2>1, <2>2 DEF TInv
<1>4. CASE UNCHANGED vars
  <2>1. AInv'
    BY <1>4 DEF vars, accountVars, TInv, AInv, ReqOK, AccountTypeOK, ShapesOK, AtWork, SetupsOK,
                DefaultUnlessTaken, LoggingIn, At, LinksOK, LinksOf, Linking
  <2>2. RInv'
    BY <1>4, ReposKept DEF vars, accountVars, TInv
  <2>3. DInv'
    BY <1>4, DatabasesKept DEF vars, accountVars, TInv
  <2> QED BY <2>1, <2>2, <2>3 DEF TInv
<1> QED BY <1>1, <1>2, <1>3, <1>4 DEF Next

-----------------------------------------------------------------------------
(* Every variable has its type, and each request is at one of its steps.    *)
THEOREM TypesHold == Spec => []TypeOK
<1>1. TInv => TypeOK
  BY DEF TInv, AInv, RInv, DInv, ReqOK, Pcs, TypeOK
<1> QED BY <1>1, InitInv, NextInv, PTL DEF Spec

(* A user whose first login is over has a default project, however logins   *)
(* overlap, unless another request took it or a fault did away with it.     *)
THEOREM LoginGivesDefault == Spec => []DefaultUnlessTaken
<1>1. TInv => DefaultUnlessTaken
  BY DEF TInv, AInv, SetupsOK
<1> QED BY <1>1, InitInv, NextInv, PTL DEF Spec

(* LinkGitHub leaves a token of the account that the user's row names,      *)
(* unless links overlapped, one failed or an older token was kept.          *)
THEOREM LinkedTokenIsOfLinked == Spec => []TokenIsOfLinked
<1>1. TInv => TokenIsOfLinked
  <2> SUFFICES ASSUME TInv, NEW u \in user \ mixed,
                      ~\E q \in Requests : AtWork(q) /\ req[q].kind = "link" /\ req[q].user = u
               PROVE  creds[u].of = github[u]
    BY DEF TokenIsOfLinked
  <2>1. u \in Users /\ LinksOf(u)
    BY DEF TInv, AInv, AccountTypeOK, LinksOK
  <2>2. \A q \in Requests : ~Linking(q, u)
    BY DEF TInv, AInv, ShapesOK, Linking, AtWork, LinkPcs
  <2> QED BY <2>1, <2>2 DEF LinksOf
<1> QED BY <1>1, InitInv, NextInv, PTL DEF Spec

(* A repository lies under the username its owner has.                      *)
THEOREM ReposStayWithTheirOwner == Spec => []RepoUnderOwner
<1>1. TInv => RepoUnderOwner
  BY DEF TInv, RInv, OwnersOK, NamesOK, NamesOf, Named, RepoUnderOwner, LiveRepo
<1> QED BY <1>1, InitInv, NextInv, PTL DEF Spec

(* A remote that was answered works until its repository is deleted.        *)
THEOREM RemotesWork == Spec => []RemoteWorks
<1>1. TInv => RemoteWorks
  BY DEF TInv, RInv
<1> QED BY <1>1, InitInv, NextInv, PTL DEF Spec

(* create_service is refused for want of a default project only where the   *)
(* set-up of the user was spoilt.                                           *)
THEOREM ServicesFindDefault == Spec => []ServiceFindsDefault
<1>1. TInv => ServiceFindsDefault
  BY DEF TInv, RInv
<1> QED BY <1>1, InitInv, NextInv, PTL DEF Spec

(* Databases and their rows agree when nobody is at work on them.           *)
THEOREM DatabasesAgree == Spec => []DatabasesMatch
<1>1. TInv => DatabasesMatch
  BY MatchFollows DEF TInv
<1> QED BY <1>1, InitInv, NextInv, PTL DEF Spec

==============================================================================
