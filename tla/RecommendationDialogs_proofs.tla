-------------------- MODULE RecommendationDialogs_proofs --------------------
(***************************************************************************)
(* Proofs about RecommendationDialogs, for any number of dialogs, actions, *)
(* artifacts and requests given up.                                        *)
(***************************************************************************)
EXTENDS RecommendationDialogs, TLAPS

\* What a dialog awaits is what its state says, and one request at most.
AwaitedSound ==
    /\ \A q \in wire :
         Awaited(q) =>
           /\ q.kind = "artifact" => dialog[q.from].at = "making"
           /\ q.kind = "register" =>
                /\ dialog[q.from].at = "registering"
                /\ q.artifact = dialog[q.from].artifact
           /\ q.kind = "link" =>
                /\ dialog[q.from].at = "linking"
                /\ q.artifact = dialog[q.from].artifact
                /\ q.row = dialog[q.from].found
    /\ \A p, q \in wire : Awaited(p) /\ Awaited(q) /\ p.from = q.from => p = q

\* A dialog holds an artifact from the answer that told it of one until it closes.
Holds(d) == dialog[d].artifact # NONE
HoldingStates == {"registering", "partial", "looking", "linking", "conflict", "done"}

\* As long as a dialog holds none, all that was made for it went unseen.
ArtifactsSound ==
    \A d \in Dialogs :
      /\ Holds(d) <=> dialog[d].at \in HoldingStates
      /\ unseen[d] <= made[d]
      /\ made[d] <= 1 + unseen[d]
      /\ dialog[d].at \in {"form", "making"} => made[d] <= unseen[d]

\* Every artifact that is held, sent or linked has been made; the dialogs hold and
\* send their own.
Made(a, count) == a.number <= count[a.by]
ArtifactsKnown ==
    /\ \A d \in Dialogs : Holds(d) => dialog[d].artifact.by = d /\ Made(dialog[d].artifact, made)
    /\ \A q \in wire :
         q.kind # "artifact" =>
           q.artifact # NONE /\ q.artifact.by = q.from /\ Made(q.artifact, made)
    /\ \A r \in Rows : action[r].artifact # NONE => Made(action[r].artifact, made)

\* One action at most is active; one that is created with a link keeps it.
ActionsSound ==
    /\ \A r, s \in ActiveRows : r = s
    /\ \A r \in Rows :
         /\ action[r].state = "absent" => ~action[r].bare /\ action[r].artifact = NONE
         /\ action[r].state # "absent" /\ ~action[r].bare => action[r].artifact # NONE

\* Only actions that were created without a link are linked afterwards, and one that
\* a dialog has linked, or has asked to be, and that is active is the last it found.
LinksSound ==
    /\ \A q \in wire : q.kind = "link" => q.row \in Rows /\ action[q.row].bare
    /\ \A d \in Dialogs : \A r \in ActiveRows :
         /\ Holds(d)
         /\ action[r].bare
         /\ \/ action[r].artifact = dialog[d].artifact
            \/ \E q \in wire : /\ q.kind = "link" /\ q.row = r
                               /\ q.artifact = dialog[d].artifact
         => dialog[d].found = r

\* An action that links, for good, what the dialog has made, or that it repaired.
Linked(d) ==
    \E r \in Rows :
      /\ action[r].artifact # NONE
      /\ \/ ~action[r].bare /\ action[r].artifact = dialog[d].artifact
         \/ action[r].bare /\ dialog[d].found = r
SuccessSound == \A d \in Dialogs : dialog[d].at = "done" => Linked(d)

IInv ==
    /\ TypeOK
    /\ AwaitedSound
    /\ ArtifactsSound
    /\ ArtifactsKnown
    /\ ActionsSound
    /\ LinksSound
    /\ SuccessSound

-----------------------------------------------------------------------------
(* What the records are made of *)

LEMMA DialogFields ==
    ASSUME TypeOK, NEW d \in Dialogs
    PROVE  /\ dialog[d] = [at |-> dialog[d].at, lookup |-> dialog[d].lookup,
                           artifact |-> dialog[d].artifact, found |-> dialog[d].found,
                           shown |-> dialog[d].shown]
           /\ dialog[d].at \in Waits \cup {"form", "partial", "looking", "conflict",
                                           "done", "closed"}
           /\ dialog[d].lookup \in {"pending", "none", "active"}
           /\ dialog[d].artifact \in Artifacts \cup {NONE}
           /\ dialog[d].found \in Rows \cup {NONE}
           /\ dialog[d].shown \in BOOLEAN
  BY DEF TypeOK, DialogStates

LEMMA RequestFields ==
    ASSUME TypeOK, NEW q \in wire
    PROVE  /\ q = [from |-> q.from, kind |-> q.kind, artifact |-> q.artifact,
                   row |-> q.row, admitted |-> q.admitted, given |-> q.given]
           /\ q.from \in Dialogs /\ q.kind \in {"artifact", "register", "link"}
           /\ q.artifact \in Artifacts \cup {NONE} /\ q.row \in Rows \cup {NONE}
           /\ q.admitted \in BOOLEAN /\ q.given \in 0 .. MaxGivenUp
  BY DEF TypeOK, Requests

LEMMA ActionFields ==
    ASSUME TypeOK, NEW r \in Rows
    PROVE  /\ action[r] = [state |-> action[r].state, artifact |-> action[r].artifact,
                           bare |-> action[r].bare]
           /\ action[r].state \in {"absent", "active", "closed"}
           /\ action[r].artifact \in Artifacts \cup {NONE}
           /\ action[r].bare \in BOOLEAN
  BY DEF TypeOK, CampaignActions

LEMMA ClosedType ==
    /\ CLOSED \in DialogStates
    /\ CLOSED.at = "closed" /\ CLOSED.artifact = NONE
  BY DEF CLOSED, DialogStates

\* A dialog that comes to rest is in the state it came to, or gone.
LEMMA RestCases ==
    ASSUME TypeOK, NEW d \in Dialogs, NEW at \in {"form", "partial", "conflict", "done"}
    PROVE  /\ Rest(d, at) \in DialogStates
           /\ \/ Rest(d, at) = CLOSED
              \/ /\ Rest(d, at).at = at
                 /\ Rest(d, at).artifact = dialog[d].artifact
                 /\ Rest(d, at).found = dialog[d].found
<1> DEFINE now == [at |-> at, lookup |-> dialog[d].lookup, artifact |-> dialog[d].artifact,
                   found |-> dialog[d].found, shown |-> dialog[d].shown]
<1>1. [dialog[d] EXCEPT !.at = at] = now
  BY DEF TypeOK, DialogStates
<1>2. now \in DialogStates
  BY DialogFields DEF DialogStates
<1> QED
  BY <1>1, <1>2, ClosedType DEF Rest

-----------------------------------------------------------------------------
(* The initial states, and a dialog that moves without sending anything *)

LEMMA InitInv == Init => IInv
<1> SUFFICES ASSUME Init PROVE IInv
  OBVIOUS
<1>1. TypeOK
  <2>1. [at |-> "form", lookup |-> "pending", artifact |-> NONE,
         found |-> NONE, shown |-> TRUE] \in DialogStates
    BY DEF DialogStates
  <2> QED
    BY <2>1, BoundAssumption DEF Init, TypeOK, CampaignActions
<1>2. AwaitedSound /\ ActionsSound /\ LinksSound /\ SuccessSound
  BY DEF Init, AwaitedSound, ActionsSound, ActiveRows, LinksSound, SuccessSound
<1>3. ArtifactsSound /\ ArtifactsKnown
  BY DEF Init, ArtifactsSound, ArtifactsKnown, Holds, HoldingStates
<1> QED
  BY <1>1, <1>2, <1>3 DEF IInv

\* Nothing is said of a dialog that was not said before: it has closed, or keeps what
\* it holds and what it found; of the requests some may be gone or given up.
LEMMA DialogMoves ==
    ASSUME IInv, NEW d \in Dialogs, NEW new \in DialogStates,
           dialog' = [dialog EXCEPT ![d] = new],
           \/ new = CLOSED
           \/ /\ new.artifact = dialog[d].artifact
              /\ new.found = dialog[d].found
              /\ new.at \in HoldingStates <=> dialog[d].at \in HoldingStates
              /\ new.at \in {"form", "making"} => dialog[d].at \in {"form", "making"}
              /\ new.at = "done" => Linked(d),
           \/ \A q \in wire' : Awaited(q) => q.from # d
           \/ /\ new.artifact = dialog[d].artifact
              /\ new.found = dialog[d].found
              /\ new.at = dialog[d].at,
           wire' \subseteq Requests,
           \A p \in wire' :
             \E q \in wire : /\ Awaited(p) => p = q
                             /\ p.kind = q.kind /\ p.from = q.from
                             /\ p.artifact = q.artifact /\ p.row = q.row,
           admitted' \in [Dialogs -> BOOLEAN],
           UNCHANGED <<action, made, unseen>>
    PROVE  IInv'
<1>1. /\ dialog'[d] = new
      /\ \A e \in Dialogs \ {d} : dialog'[e] = dialog[e]
  BY DEF IInv, TypeOK
<1>2. TypeOK'
  BY DEF IInv, TypeOK
<1>3. \A p \in wire' : p.from \in Dialogs
  BY DEF Requests
<1>4. AwaitedSound'
  BY <1>1, <1>3 DEF IInv, AwaitedSound, Awaited
<1>5. ArtifactsSound'
  <2>1. Holds(d)' <=> dialog'[d].at \in HoldingStates
    BY <1>1, ClosedType DEF IInv, ArtifactsSound, Holds, HoldingStates
  <2>2. dialog'[d].at \in {"form", "making"} => made[d] <= unseen[d]
    BY <1>1, ClosedType DEF IInv, ArtifactsSound
  <2> QED
    BY <1>1, <2>1, <2>2 DEF IInv, ArtifactsSound, Holds
<1>6. ArtifactsKnown'
  BY <1>1, ClosedType DEF IInv, ArtifactsKnown, Holds, Made
<1>7. ActionsSound'
  BY DEF IInv, ActionsSound, ActiveRows
<1>8. LinksSound'
  BY <1>1, ClosedType DEF IInv, LinksSound, ActiveRows, Holds
<1>9. SuccessSound'
  BY <1>1, ClosedType DEF IInv, SuccessSound, Linked
<1> QED
  BY <1>2, <1>4, <1>5, <1>6, <1>7, <1>8, <1>9 DEF IInv

-----------------------------------------------------------------------------
(* The dialog: steps that send nothing *)

\* Only a dialog that waits has a request that is awaited.
LEMMA NoneAwaited ==
    ASSUME IInv, NEW d \in Dialogs, dialog[d].at \notin Waits
    PROVE  \A q \in wire : Awaited(q) => q.from # d
  BY RequestFields DEF IInv, AwaitedSound, Waits

LEMMA LookUpInv == ASSUME IInv, NEW d \in Dialogs, LookUp(d) PROVE IInv'
<1> DEFINE seen == IF ActiveRows = {} THEN "none" ELSE "active"
           new == [at |-> dialog[d].at, lookup |-> seen, artifact |-> dialog[d].artifact,
                   found |-> dialog[d].found, shown |-> dialog[d].shown]
<1>1. seen \in {"pending", "none", "active"}
  OBVIOUS
<1>2. /\ dialog[d].at = "form" /\ dialog' = [dialog EXCEPT ![d].lookup = seen]
      /\ UNCHANGED <<action, made, unseen, admitted, wire>>
  BY DEF LookUp
<1> HIDE DEF seen
<1>3. dialog'[d] = new /\ dialog' = [dialog EXCEPT ![d] = dialog'[d]]
  BY <1>2, DialogFields DEF IInv, TypeOK
<1>4. new \in DialogStates
  BY <1>1 DEF IInv, TypeOK, DialogStates
<1> QED
  BY <1>2, <1>3, <1>4, DialogMoves DEF IInv, TypeOK

LEMMA RetryInv == ASSUME IInv, NEW d \in Dialogs, Retry(d) PROVE IInv'
<1> DEFINE new == [at |-> "looking", lookup |-> dialog[d].lookup,
                   artifact |-> dialog[d].artifact,
                   found |-> dialog[d].found, shown |-> dialog[d].shown]
<1>1. /\ dialog[d].at = "partial" /\ dialog' = [dialog EXCEPT ![d].at = "looking"]
      /\ UNCHANGED <<action, made, unseen, admitted, wire>>
  BY DEF Retry
<1>2. dialog'[d] = new /\ dialog' = [dialog EXCEPT ![d] = dialog'[d]]
  BY <1>1, DialogFields DEF IInv, TypeOK
<1>3. new \in DialogStates
  BY DEF IInv, TypeOK, DialogStates
<1>4. \A q \in wire : Awaited(q) => q.from # d
  BY <1>1, NoneAwaited DEF Waits
<1> QED
  BY <1>1, <1>2, <1>3, <1>4, DialogMoves DEF IInv, TypeOK, HoldingStates

\* The dialog comes to rest where it may.
LEMMA Rests ==
    ASSUME IInv, NEW d \in Dialogs, NEW at \in {"form", "partial", "conflict", "done"},
           at \in HoldingStates <=> dialog[d].at \in HoldingStates,
           at = "form" => dialog[d].at \in {"form", "making"},
           at = "done" => Linked(d),
           dialog' = [dialog EXCEPT ![d] = Rest(d, at)],
           \A q \in wire' : Awaited(q) => q.from # d,
           wire' \subseteq Requests,
           \A p \in wire' :
             \E q \in wire : /\ Awaited(p) => p = q
                             /\ p.kind = q.kind /\ p.from = q.from
                             /\ p.artifact = q.artifact /\ p.row = q.row,
           UNCHANGED <<action, made, unseen, admitted>>
    PROVE  IInv'
<1>1. /\ Rest(d, at) \in DialogStates
      /\ \/ Rest(d, at) = CLOSED
         \/ /\ Rest(d, at).at = at
            /\ Rest(d, at).artifact = dialog[d].artifact
            /\ Rest(d, at).found = dialog[d].found
  BY RestCases DEF IInv
<1>2. admitted' \in [Dialogs -> BOOLEAN]
  BY DEF IInv, TypeOK
<1> QED
  BY <1>1, <1>2, DialogMoves

\* An error of what a dialog awaits, or of its lookup.
LEMMA Fails ==
    ASSUME IInv, NEW d \in Dialogs, dialog[d].at \in Waits \cup {"looking"},
           dialog' = [dialog EXCEPT ![d] = Failed(d)],
           \A q \in wire' : Awaited(q) => q.from # d,
           wire' \subseteq Requests,
           \A p \in wire' :
             \E q \in wire : /\ Awaited(p) => p = q
                             /\ p.kind = q.kind /\ p.from = q.from
                             /\ p.artifact = q.artifact /\ p.row = q.row,
           UNCHANGED <<action, made, unseen, admitted>>
    PROVE  IInv'
<1>1. CASE dialog[d].artifact = NONE
  <2>1. dialog[d].at = "making"
    BY <1>1 DEF IInv, ArtifactsSound, Holds, HoldingStates, Waits
  <2> QED
    BY <1>1, <2>1, Rests DEF Failed, HoldingStates
<1>2. CASE dialog[d].artifact # NONE
  <2>1. dialog[d].at \in HoldingStates
    BY <1>2 DEF IInv, ArtifactsSound, Holds
  <2> QED
    BY <1>2, <2>1, Rests DEF Failed, HoldingStates
<1> QED
  BY <1>1, <1>2

LEMMA LookFailsInv == ASSUME IInv, NEW d \in Dialogs, LookFails(d) PROVE IInv'
<1>1. /\ dialog[d].at = "looking" /\ dialog' = [dialog EXCEPT ![d] = Failed(d)]
      /\ UNCHANGED <<action, made, unseen, admitted, wire>>
  BY DEF LookFails
<1>2. \A q \in wire : Awaited(q) => q.from # d
  BY <1>1, NoneAwaited DEF Waits
<1> QED
  BY <1>1, <1>2, Fails DEF IInv, TypeOK

LEMMA CloseInv == ASSUME IInv, NEW d \in Dialogs, Close(d) PROVE IInv'
<1>1. /\ dialog[d].at \in {"form", "conflict"} /\ dialog' = [dialog EXCEPT ![d] = CLOSED]
      /\ UNCHANGED <<action, made, unseen, admitted, wire>>
  BY DEF Close
<1>2. \A q \in wire : Awaited(q) => q.from # d
  BY <1>1, NoneAwaited DEF Waits
<1> QED
  BY <1>1, <1>2, ClosedType, DialogMoves DEF IInv, TypeOK

\* The mutation of a dialog that is unmounted runs on, and keeps what it has.
LEMMA SwitchInv == ASSUME IInv, NEW d \in Dialogs, SwitchWorkspace(d) PROVE IInv'
<1> DEFINE off == FALSE
           hidden == [at |-> dialog[d].at, lookup |-> dialog[d].lookup,
                      artifact |-> dialog[d].artifact,
                      found |-> dialog[d].found, shown |-> off]
<1>1. /\ dialog[d].at # "done"
      /\ admitted' \in [Dialogs -> BOOLEAN]
      /\ dialog' = [dialog EXCEPT ![d] = IF @.at \in {"form", "partial", "conflict"}
                                         THEN CLOSED ELSE [@ EXCEPT !.shown = off]]
      /\ UNCHANGED <<action, made, unseen, wire>>
  BY DEF SwitchWorkspace, IInv, TypeOK
<1>a. off \in BOOLEAN
  OBVIOUS
<1> HIDE DEF off
<1>2. CASE dialog[d].at \in {"form", "partial", "conflict"}
  <2>1. dialog' = [dialog EXCEPT ![d] = CLOSED]
    BY <1>1, <1>2
  <2>2. \A q \in wire : Awaited(q) => q.from # d
    BY <1>2, NoneAwaited DEF Waits
  <2> QED
    BY <1>1, <2>1, <2>2, ClosedType, DialogMoves DEF IInv, TypeOK
<1>3. CASE dialog[d].at \notin {"form", "partial", "conflict"}
  <2>1. hidden = [dialog[d] EXCEPT !.shown = off]
    <3>1. dialog[d] \in DialogStates
      BY DEF IInv, TypeOK
    <3> QED
      BY <3>1, <1>a DEF DialogStates
  <2>2. dialog' = [dialog EXCEPT ![d] = hidden]
    BY <1>1, <1>3, <2>1
  <2>3. hidden \in DialogStates
    BY <1>a DEF IInv, TypeOK, DialogStates
  <2> QED
    BY <1>1, <2>2, <2>3, DialogMoves DEF IInv, TypeOK
<1> QED
  BY <1>2, <1>3

-----------------------------------------------------------------------------
(* The dialog: steps that send a request *)

LEMMA RequestIs ==
    ASSUME NEW d, NEW kind, NEW a, NEW row
    PROVE  LET q == Request(d, kind, a, row)
           IN  /\ q.from = d /\ q.kind = kind /\ q.artifact = a /\ q.row = row
               /\ q.given = 0 /\ Awaited(q)
  BY DEF Request, Awaited

\* The request sent is the only one the dialog awaits, and fits its state.
LEMMA Sends ==
    ASSUME IInv, NEW d \in Dialogs, NEW kind \in {"artifact", "register", "link"},
           NEW a \in Artifacts \cup {NONE}, NEW row \in Rows \cup {NONE},
           NEW new \in DialogStates, NEW W \in SUBSET wire,
           dialog' = [dialog EXCEPT ![d] = new],
           wire' = W \cup {Request(d, kind, a, row)},
           \A q \in W : Awaited(q) => q.from # d,
           kind = "artifact" => new.at = "making",
           kind = "register" => new.at = "registering" /\ a = new.artifact,
           kind = "link" => new.at = "linking" /\ a = new.artifact /\ row = new.found
    PROVE  wire' \subseteq Requests /\ AwaitedSound'
<1> DEFINE q == Request(d, kind, a, row)
<1>1. /\ q.from = d /\ q.kind = kind /\ q.artifact = a /\ q.row = row
      /\ q.given = 0 /\ Awaited(q)
  BY RequestIs
<1>2. /\ dialog'[d] = new
      /\ \A e \in Dialogs \ {d} : dialog'[e] = dialog[e]
  BY DEF IInv, TypeOK
<1>3. wire' \subseteq Requests
  <2>1. q \in Requests
    <3>1. admitted[d] \in BOOLEAN /\ 0 \in 0 .. MaxGivenUp
      BY BoundAssumption DEF IInv, TypeOK
    <3> QED
      BY <3>1 DEF Request, Requests
  <2> QED
    BY <2>1 DEF IInv, TypeOK
<1>4. \A p \in W : p.from \in Dialogs
  BY RequestFields DEF IInv
<1> HIDE DEF q
<1>5. wire' = W \cup {q}
  BY DEF q
<1>6. AwaitedSound'
  <2>1. \A p \in wire' : Awaited(p)' <=> Awaited(p)
    BY DEF Awaited
  <2>2. \A p \in W : Awaited(p) => dialog'[p.from] = dialog[p.from]
    BY <1>2, <1>4
  <2> QED
    BY <1>1, <1>2, <1>5, <2>1, <2>2 DEF IInv, AwaitedSound
<1> QED
  BY <1>3, <1>6

\* The three requests that a dialog sends of its own: for the artifact, and, once it
\* holds one, to register the action again or to link it to one that links nothing.
LEMMA DialogSends ==
    ASSUME IInv, NEW d \in Dialogs, NEW kind \in {"artifact", "register", "link"},
           NEW a \in Artifacts \cup {NONE}, NEW row \in Rows \cup {NONE},
           NEW new \in DialogStates,
           dialog' = [dialog EXCEPT ![d] = new],
           wire' = wire \cup {Request(d, kind, a, row)},
           UNCHANGED <<action, made, unseen, admitted>>,
           new.artifact = dialog[d].artifact,
           kind = "artifact" => dialog[d].at = "form" /\ new.at = "making",
           kind # "artifact" => dialog[d].at = "looking" /\ a = dialog[d].artifact,
           kind = "register" => new.at = "registering",
           kind = "link" =>
             /\ new.at = "linking" /\ new.found = row
             /\ row \in ActiveRows /\ action[row].artifact = NONE,
           kind # "link" => new.found = dialog[d].found
    PROVE  IInv'
<1> DEFINE q == Request(d, kind, a, row)
<1>1. q.from = d /\ q.kind = kind /\ q.artifact = a /\ q.row = row
  BY RequestIs
<1>2. /\ dialog'[d] = new
      /\ \A e \in Dialogs \ {d} : dialog'[e] = dialog[e]
  BY DEF IInv, TypeOK
<1>3. wire' \subseteq Requests /\ AwaitedSound'
  <2>1. \A p \in wire : Awaited(p) => p.from # d
    BY NoneAwaited DEF Waits
  <2> QED
    BY <2>1, Sends
<1>4. TypeOK'
  BY <1>3 DEF IInv, TypeOK
<1> HIDE DEF q
<1>5. wire' = wire \cup {q}
  BY DEF q
<1>6. kind # "artifact" => Holds(d) /\ dialog[d].artifact.by = d /\ Made(dialog[d].artifact, made)
  BY DEF IInv, ArtifactsSound, ArtifactsKnown, HoldingStates
<1>7. ArtifactsSound'
  <2>1. Holds(d)' <=> dialog'[d].at \in HoldingStates
    BY <1>2 DEF IInv, ArtifactsSound, Holds, HoldingStates
  <2>2. dialog'[d].at \in {"form", "making"} => made[d] <= unseen[d]
    BY <1>2 DEF IInv, ArtifactsSound
  <2> QED
    BY <1>2, <2>1, <2>2 DEF IInv, ArtifactsSound, Holds
<1>8. ArtifactsKnown'
  BY <1>1, <1>2, <1>5, <1>6 DEF IInv, ArtifactsKnown, Holds, Made
<1>9. ActionsSound'
  BY DEF IInv, ActionsSound, ActiveRows
<1>10. LinksSound'
  <2>1. kind = "link" => row \in Rows /\ action[row].bare /\ \A r \in ActiveRows : r = row
    BY DEF IInv, ActionsSound, ActiveRows
  <2>2. ActiveRows' = ActiveRows
    BY DEF ActiveRows
  <2>3. \A p \in wire' : p.kind = "link" => p.row \in Rows /\ action'[p.row].bare
    BY <1>1, <1>5, <2>1 DEF IInv, LinksSound
  <2> SUFFICES ASSUME NEW e \in Dialogs, NEW r \in ActiveRows, Holds(e)', action[r].bare,
                      \/ action[r].artifact = dialog'[e].artifact
                      \/ \E p \in wire' : /\ p.kind = "link" /\ p.row = r
                                          /\ p.artifact = dialog'[e].artifact
               PROVE  dialog'[e].found = r
    BY <2>2, <2>3 DEF LinksSound
  <2>4. CASE e = d /\ kind = "link"
    BY <1>2, <2>1, <2>4
  <2>5. CASE e # d \/ kind # "link"
    <3>1. Holds(e) /\ dialog'[e].artifact = dialog[e].artifact /\ dialog'[e].found = dialog[e].found
      BY <1>2, <2>5 DEF Holds
    <3>2. dialog[e].artifact.by = e
      BY <3>1 DEF IInv, ArtifactsKnown
    <3>3. kind = "link" => q.artifact # dialog[e].artifact
      BY <1>1, <1>6, <2>5, <3>2
    <3> QED
      BY <1>1, <1>5, <3>1, <3>3 DEF IInv, LinksSound
  <2> QED
    BY <2>4, <2>5
<1>11. SuccessSound'
  <2>1. new.at # "done"
    OBVIOUS
  <2> QED
    BY <1>2, <2>1 DEF IInv, SuccessSound, Linked
<1> QED
  BY <1>3, <1>4, <1>7, <1>8, <1>9, <1>10, <1>11 DEF IInv

LEMMA SubmitInv == ASSUME IInv, NEW d \in Dialogs, Submit(d) PROVE IInv'
<1> DEFINE new == [at |-> "making", lookup |-> dialog[d].lookup,
                   artifact |-> dialog[d].artifact,
                   found |-> dialog[d].found, shown |-> dialog[d].shown]
<1>1. /\ dialog[d].at = "form" /\ dialog' = [dialog EXCEPT ![d].at = "making"]
      /\ wire' = wire \cup {Request(d, "artifact", NONE, NONE)}
      /\ UNCHANGED <<action, made, unseen, admitted>>
  BY DEF Submit
<1>2. dialog'[d] = new /\ dialog' = [dialog EXCEPT ![d] = dialog'[d]]
  BY <1>1, DialogFields DEF IInv, TypeOK
<1>3. new \in DialogStates
  BY DEF IInv, TypeOK, DialogStates, Waits
<1>4. new.at = "making" /\ new.artifact = dialog[d].artifact /\ new.found = dialog[d].found
  OBVIOUS
<1>5. dialog' = [dialog EXCEPT ![d] = new]
  BY <1>2
<1> HIDE DEF new
<1> QED
  BY <1>1, <1>3, <1>4, <1>5, DialogSends

LEMMA LookFindsNoneInv == ASSUME IInv, NEW d \in Dialogs, LookFindsNone(d) PROVE IInv'
<1> DEFINE new == [at |-> "registering", lookup |-> dialog[d].lookup,
                   artifact |-> dialog[d].artifact,
                   found |-> dialog[d].found, shown |-> dialog[d].shown]
<1>1. /\ dialog[d].at = "looking" /\ dialog' = [dialog EXCEPT ![d].at = "registering"]
      /\ wire' = wire \cup {Request(d, "register", dialog[d].artifact, NONE)}
      /\ UNCHANGED <<action, made, unseen, admitted>>
  BY DEF LookFindsNone
<1>2. dialog'[d] = new /\ dialog' = [dialog EXCEPT ![d] = dialog'[d]]
  BY <1>1, DialogFields DEF IInv, TypeOK
<1>3. new \in DialogStates
  BY DEF IInv, TypeOK, DialogStates, Waits
<1>4. dialog[d].artifact \in Artifacts \cup {NONE}
  BY DialogFields DEF IInv
<1>5. new.at = "registering" /\ new.artifact = dialog[d].artifact /\ new.found = dialog[d].found
  OBVIOUS
<1>6. dialog' = [dialog EXCEPT ![d] = new]
  BY <1>2
<1> HIDE DEF new
<1> QED
  BY <1>1, <1>3, <1>4, <1>5, <1>6, DialogSends

LEMMA LookFindsInv == ASSUME IInv, NEW d \in Dialogs, LookFinds(d) PROVE IInv'
<1>1. PICK r \in ActiveRows :
        LET there == action[r].artifact
            mine == dialog[d].artifact
        IN
        \/ /\ there = mine
           /\ dialog' = [dialog EXCEPT ![d] = Rest(d, "done")]
           /\ UNCHANGED wire
        \/ /\ there = NONE
           /\ dialog' = [dialog EXCEPT ![d].at = "linking", ![d].found = r]
           /\ wire' = wire \cup {Request(d, "link", mine, r)}
        \/ /\ there \notin {mine, NONE}
           /\ dialog' = [dialog EXCEPT ![d] = Rest(d, "conflict")]
           /\ UNCHANGED wire
  BY DEF LookFinds
<1>2. /\ dialog[d].at = "looking" /\ UNCHANGED <<action, made, unseen, admitted>>
      /\ r \in Rows /\ action[r].state = "active"
  BY DEF LookFinds, ActiveRows
<1>3. dialog[d].artifact # NONE /\ dialog[d].at \in HoldingStates
  BY <1>2 DEF IInv, ArtifactsSound, Holds, HoldingStates
<1>4. \A q \in wire : Awaited(q) => q.from # d
  BY <1>2, NoneAwaited DEF Waits
<1>5. CASE /\ action[r].artifact = dialog[d].artifact
           /\ dialog' = [dialog EXCEPT ![d] = Rest(d, "done")]
           /\ UNCHANGED wire
  <2>1. Linked(d)
    <3>1. CASE action[r].bare
      <4>1. dialog[d].found = r
        BY <1>3, <1>5, <3>1 DEF IInv, LinksSound, Holds
      <4> QED
        BY <1>2, <1>3, <1>5, <3>1, <4>1 DEF Linked
    <3>2. CASE ~action[r].bare
      BY <1>2, <1>3, <1>5, <3>2 DEF Linked
    <3> QED
      BY <3>1, <3>2
  <2>2. "done" \in HoldingStates
    BY DEF HoldingStates
  <2> QED
    BY <1>2, <1>3, <1>4, <1>5, <2>1, <2>2, Rests DEF IInv, TypeOK
<1>6. CASE /\ action[r].artifact = NONE
           /\ dialog' = [dialog EXCEPT ![d].at = "linking", ![d].found = r]
           /\ wire' = wire \cup {Request(d, "link", dialog[d].artifact, r)}
  <2> DEFINE new == [at |-> "linking", lookup |-> dialog[d].lookup,
                     artifact |-> dialog[d].artifact,
                     found |-> r, shown |-> dialog[d].shown]
  <2>1. dialog'[d] = new /\ dialog' = [dialog EXCEPT ![d] = dialog'[d]]
    <3>1. dialog' = [dialog EXCEPT ![d].at = "linking", ![d].found = r]
      BY <1>6
    <3>2. dialog \in [Dialogs -> DialogStates]
      BY DEF IInv, TypeOK
    <3> QED
      BY <3>1, <3>2, DialogFields DEF IInv, TypeOK, DialogStates
  <2>2. new \in DialogStates
    BY <1>2 DEF IInv, TypeOK, DialogStates, Waits
  <2>3. dialog[d].artifact \in Artifacts \cup {NONE}
    BY DialogFields DEF IInv
  <2>4. new.at = "linking" /\ new.artifact = dialog[d].artifact /\ new.found = r
    OBVIOUS
  <2>5. dialog' = [dialog EXCEPT ![d] = new]
    BY <2>1
  <2>6. /\ wire' = wire \cup {Request(d, "link", dialog[d].artifact, r)}
        /\ r \in ActiveRows /\ action[r].artifact = NONE
    BY <1>6
  <2> HIDE DEF new
  <2> QED
    BY <1>2, <2>2, <2>3, <2>4, <2>5, <2>6, DialogSends
<1>7. CASE /\ dialog' = [dialog EXCEPT ![d] = Rest(d, "conflict")]
           /\ UNCHANGED wire
  <2>1. "conflict" \in HoldingStates
    BY DEF HoldingStates
  <2> QED
    BY <1>2, <1>3, <1>4, <1>7, <2>1, Rests DEF IInv, TypeOK
<1> QED
  BY <1>1, <1>5, <1>6, <1>7

-----------------------------------------------------------------------------
(* The network: requests that fail, and requests given up *)

\* The dialog of a request that is awaited waits, and for nothing else.
LEMMA AwaitedWaits ==
    ASSUME IInv, NEW q \in wire, Awaited(q)
    PROVE  /\ q.from \in Dialogs
           /\ dialog[q.from].at \in Waits
           /\ \A p \in wire : Awaited(p) /\ p.from = q.from => p = q
<1>1. q.from \in Dialogs /\ q.kind \in {"artifact", "register", "link"}
  BY RequestFields DEF IInv
<1> QED
  BY <1>1 DEF IInv, AwaitedSound, Waits

LEMMA RefuseInv == ASSUME IInv, NEW q \in wire, Refuse(q) PROVE IInv'
<1>1. /\ wire' = wire \ {q} /\ UNCHANGED <<action, made, unseen, admitted>>
      /\ q.from \in Dialogs /\ wire \subseteq Requests
  BY RequestFields DEF Refuse, IInv, TypeOK
<1>2. CASE Awaited(q)
  <2>1. dialog' = [dialog EXCEPT ![q.from] = Failed(q.from)]
    BY <1>2 DEF Refuse
  <2>2. \A p \in wire' : Awaited(p) => p.from # q.from
    BY <1>1, <1>2, AwaitedWaits
  <2>3. dialog[q.from].at \in Waits
    BY <1>2, AwaitedWaits
  <2> QED
    BY <1>1, <2>1, <2>2, <2>3, Fails
<1>3. CASE ~Awaited(q)
  <2>1. dialog' = dialog /\ dialog' = [dialog EXCEPT ![q.from] = dialog[q.from]]
    BY <1>1, <1>3 DEF Refuse, IInv, TypeOK
  <2>2. dialog[q.from] \in DialogStates
    BY <1>1 DEF IInv, TypeOK
  <2>3. dialog[q.from].at = "done" => Linked(q.from)
    BY <1>1 DEF IInv, SuccessSound
  <2>4. admitted' \in [Dialogs -> BOOLEAN]
    BY <1>1 DEF IInv, TypeOK
  <2> QED
    BY <1>1, <2>1, <2>2, <2>3, <2>4, DialogMoves
<1> QED
  BY <1>2, <1>3

LEMMA GiveUpInv == ASSUME IInv, NEW q \in wire, GiveUp(q) PROVE IInv'
<1>1. PICK n \in 1 .. MaxGivenUp : wire' = (wire \ {q}) \cup {[q EXCEPT !.given = n]}
  BY DEF GiveUp
<1> DEFINE late == [from |-> q.from, kind |-> q.kind, artifact |-> q.artifact,
                    row |-> q.row, admitted |-> q.admitted, given |-> n]
<1>2. late = [q EXCEPT !.given = n]
  <2>1. q \in Requests
    BY DEF IInv, TypeOK
  <2> QED
    BY <2>1 DEF Requests
<1>3. late \in Requests
  <2>1. n \in 0 .. MaxGivenUp
    BY BoundAssumption
  <2> QED
    BY <2>1, RequestFields DEF IInv, Requests
<1>4. ~Awaited(late)
  BY DEF Awaited
<1>5. /\ late.kind = q.kind /\ late.from = q.from
      /\ late.artifact = q.artifact /\ late.row = q.row
  OBVIOUS
<1> HIDE DEF late
<1>6. /\ Awaited(q) /\ dialog' = [dialog EXCEPT ![q.from] = Failed(q.from)]
      /\ UNCHANGED <<action, made, unseen, admitted>>
      /\ wire' = (wire \ {q}) \cup {late}
  BY <1>1, <1>2 DEF GiveUp
<1>7. /\ q.from \in Dialogs /\ dialog[q.from].at \in Waits
      /\ \A p \in wire' : Awaited(p) => p.from # q.from
  BY <1>4, <1>6, AwaitedWaits
<1>8. wire' \subseteq Requests
  BY <1>3, <1>6 DEF IInv, TypeOK
<1>9. \A p \in wire' :
        \E o \in wire : /\ Awaited(p) => p = o
                        /\ p.kind = o.kind /\ p.from = o.from
                        /\ p.artifact = o.artifact /\ p.row = o.row
  BY <1>4, <1>5, <1>6
<1> QED
  BY <1>6, <1>7, <1>8, <1>9, Fails

-----------------------------------------------------------------------------
(* The backend *)

\* An artifact that its dialog awaits: the action is to be registered now.
LEMMA ToldInv ==
    ASSUME IInv, NEW q \in wire, ServeArtifact(q), Awaited(q) PROVE IInv'
<1> DEFINE d == q.from
           new == [by |-> d, number |-> made[d] + 1]
           next == [at |-> "registering", lookup |-> dialog[d].lookup, artifact |-> new,
                    found |-> dialog[d].found, shown |-> dialog[d].shown]
<1>1. /\ d \in Dialogs /\ dialog[d].at = "making" /\ made[d] < MaxArtifacts
      /\ made' = [made EXCEPT ![d] = @ + 1]
      /\ wire' = (wire \ {q}) \cup {Request(d, "register", new, NONE)}
      /\ UNCHANGED <<action, unseen, admitted>>
  BY RequestFields DEF ServeArtifact, IInv, AwaitedSound
<1>2. dialog' = [dialog EXCEPT ![d].at = "registering", ![d].artifact = new]
  BY DEF ServeArtifact
<1>3. new.by = d /\ new.number = made[d] + 1 /\ new \in Artifacts /\ new # NONE
  <2>1. made[d] + 1 \in 1 .. MaxArtifacts
    BY <1>1, BoundAssumption DEF IInv, TypeOK
  <2>2. new \in Artifacts
    BY <1>1, <2>1 DEF Artifacts
  <2> QED
    BY <2>2, NoneAssumption
<1> HIDE DEF d, new
<1>4. dialog'[d] = next /\ dialog' = [dialog EXCEPT ![d] = dialog'[d]]
  <2>1. dialog \in [Dialogs -> DialogStates]
    BY DEF IInv, TypeOK
  <2> QED
    BY <1>1, <1>2, <2>1, DialogFields DEF IInv, TypeOK, DialogStates
<1>5. next \in DialogStates
  BY <1>1, <1>3, DialogFields DEF IInv, DialogStates, Waits
<1>6. next.at = "registering" /\ next.artifact = new /\ next.found = dialog[d].found
  OBVIOUS
<1> HIDE DEF next
<1>7. wire' \subseteq Requests /\ AwaitedSound'
  <2>1. \A p \in wire \ {q} : Awaited(p) => p.from # d
    BY AwaitedWaits DEF d
  <2>2. wire \ {q} \in SUBSET wire /\ dialog' = [dialog EXCEPT ![d] = next]
    BY <1>4
  <2>3. /\ wire' = (wire \ {q}) \cup {Request(d, "register", new, NONE)}
        /\ new \in Artifacts \cup {NONE} /\ NONE \in Rows \cup {NONE} /\ d \in Dialogs
    BY <1>1, <1>3
  <2> QED
    BY <1>5, <1>6, <2>1, <2>2, <2>3, Sends
<1>8. /\ made'[d] = made[d] + 1
      /\ \A e \in Dialogs \ {d} : made'[e] = made[e] /\ dialog'[e] = dialog[e]
      /\ made' \in [Dialogs -> 0 .. MaxArtifacts]
  <2>1. made[d] + 1 \in 0 .. MaxArtifacts
    BY <1>1, BoundAssumption DEF IInv, TypeOK
  <2> QED
    BY <1>1, <1>4, <2>1 DEF IInv, TypeOK
<1>9. TypeOK'
  BY <1>1, <1>4, <1>5, <1>7, <1>8 DEF IInv, TypeOK
<1>10. ArtifactsSound'
  <2>1. made[d] <= unseen[d] /\ unseen[d] <= made[d] /\ made[d] \in Nat /\ unseen[d] \in Nat
    BY <1>1, BoundAssumption DEF IInv, ArtifactsSound, TypeOK
  <2> QED
    BY <1>1, <1>3, <1>4, <1>6, <1>8, <2>1 DEF IInv, ArtifactsSound, Holds, HoldingStates
<1>11. \A a \in Artifacts : Made(a, made) => Made(a, made') /\ a # new
  <2>1. \A e \in Dialogs : made[e] \in Nat /\ made[e] <= made'[e]
    BY <1>1, <1>8, BoundAssumption DEF IInv, TypeOK
  <2>2. \A a \in Artifacts : a.by \in Dialogs /\ a.number \in Nat
    BY DEF Artifacts
  <2> QED
    BY <1>1, <1>3, <2>1, <2>2 DEF Made
<1>12. Made(new, made')
  BY <1>1, <1>3, <1>8 DEF Made, IInv, TypeOK
<1>13. \A p \in wire' :
         \/ p \in wire
         \/ p.from = d /\ p.kind = "register" /\ p.artifact = new
  BY <1>1, RequestIs
<1>14. ArtifactsKnown'
  <2>1. \A e \in Dialogs \ {d} : Holds(e)' => dialog'[e].artifact.by = e /\ Made(dialog'[e].artifact, made')
    <3>1. \A e \in Dialogs : Holds(e) => dialog[e].artifact \in Artifacts
      BY DialogFields DEF IInv, Holds
    <3> QED
      BY <1>8, <1>11, <3>1 DEF IInv, ArtifactsKnown, Holds
  <2>2. \A p \in wire' : p.kind # "artifact" =>
          p.artifact # NONE /\ p.artifact.by = p.from /\ Made(p.artifact, made')
    <3>1. \A p \in wire : p.artifact # NONE => p.artifact \in Artifacts
      BY RequestFields DEF IInv
    <3> QED
      BY <1>3, <1>11, <1>12, <1>13, <3>1 DEF IInv, ArtifactsKnown
  <2>3. \A r \in Rows : action[r].artifact # NONE => Made(action[r].artifact, made')
    <3>1. \A r \in Rows : action[r].artifact # NONE => action[r].artifact \in Artifacts
      BY ActionFields DEF IInv
    <3> QED
      BY <1>11, <3>1 DEF IInv, ArtifactsKnown
  <2>4. dialog'[d].artifact = new
    BY <1>4, <1>6
  <2> QED
    BY <1>1, <1>3, <1>12, <2>1, <2>2, <2>3, <2>4 DEF ArtifactsKnown, Holds
<1>15. ActionsSound'
  BY <1>1 DEF IInv, ActionsSound, ActiveRows
<1>16. LinksSound'
  <2>1. \A p \in wire' : p.kind = "link" => p \in wire
    BY <1>13
  <2>2. ActiveRows' = ActiveRows
    BY <1>1 DEF ActiveRows
  <2>3. \A r \in Rows : action[r].artifact # new
    BY <1>3, <1>11, ActionFields DEF IInv, ArtifactsKnown
  <2>4. \A p \in wire : p.kind = "link" => p.artifact # new
    BY <1>3, <1>11, RequestFields DEF IInv, ArtifactsKnown
  <2>5. dialog'[d].artifact = new
    BY <1>4, <1>6
  <2>6. \A r \in ActiveRows : r \in Rows
    BY DEF ActiveRows
  <2> QED
    BY <1>1, <1>8, <2>1, <2>2, <2>3, <2>4, <2>5, <2>6 DEF IInv, LinksSound, Holds
<1>17. SuccessSound'
  BY <1>1, <1>4, <1>6, <1>8 DEF IInv, SuccessSound, Linked
<1> QED
  BY <1>7, <1>9, <1>10, <1>14, <1>15, <1>16, <1>17 DEF IInv

\* An artifact made after its dialog gave up: the dialog is never told of it.
LEMMA UntoldInv ==
    ASSUME IInv, NEW q \in wire, ServeArtifact(q), ~Awaited(q) PROVE IInv'
<1> DEFINE d == q.from
<1>1. /\ d \in Dialogs /\ made[d] < MaxArtifacts
      /\ made' = [made EXCEPT ![d] = @ + 1]
      /\ unseen' = [unseen EXCEPT ![d] = @ + 1]
      /\ wire' = wire \ {q}
      /\ UNCHANGED <<action, dialog, admitted>>
  BY RequestFields DEF ServeArtifact, IInv
<1> HIDE DEF d
<1>2. /\ made[d] \in Nat /\ unseen[d] \in Nat /\ unseen[d] <= made[d]
      /\ made'[d] = made[d] + 1 /\ unseen'[d] = unseen[d] + 1
      /\ \A e \in Dialogs \ {d} : made'[e] = made[e] /\ unseen'[e] = unseen[e]
  BY <1>1, BoundAssumption DEF IInv, TypeOK, ArtifactsSound
<1>3. TypeOK'
  <2>1. made[d] + 1 \in 0 .. MaxArtifacts /\ unseen[d] + 1 \in 0 .. MaxArtifacts
    BY <1>1, <1>2, BoundAssumption
  <2>2. made' \in [Dialogs -> 0 .. MaxArtifacts] /\ unseen' \in [Dialogs -> 0 .. MaxArtifacts]
    BY <1>1, <2>1 DEF IInv, TypeOK
  <2> QED
    BY <1>1, <2>2 DEF IInv, TypeOK
<1>4. ArtifactsSound'
  BY <1>1, <1>2 DEF IInv, ArtifactsSound, Holds
<1>5. \A a \in Artifacts : Made(a, made) => Made(a, made')
  <2>1. \A e \in Dialogs : made[e] \in Nat /\ made[e] <= made'[e]
    BY <1>1, <1>2, BoundAssumption DEF IInv, TypeOK
  <2>2. \A a \in Artifacts : a.by \in Dialogs /\ a.number \in Nat
    BY DEF Artifacts
  <2> QED
    BY <1>1, <2>1, <2>2 DEF Made
<1>6. ArtifactsKnown'
  <2>1. \A e \in Dialogs : Holds(e) => dialog[e].artifact \in Artifacts
    BY DialogFields DEF IInv, Holds
  <2>2. \A p \in wire : p.artifact # NONE => p.artifact \in Artifacts
    BY RequestFields DEF IInv
  <2>3. \A r \in Rows : action[r].artifact # NONE => action[r].artifact \in Artifacts
    BY ActionFields DEF IInv
  <2> QED
    BY <1>1, <1>5, <2>1, <2>2, <2>3 DEF IInv, ArtifactsKnown, Holds
<1>7. AwaitedSound' /\ ActionsSound' /\ LinksSound' /\ SuccessSound'
  BY <1>1 DEF IInv, AwaitedSound, Awaited, ActionsSound, ActiveRows, LinksSound, Holds,
     SuccessSound, Linked
<1> QED
  BY <1>3, <1>4, <1>6, <1>7 DEF IInv

\* The answer to a request for the action: the dialog that awaits it is done, or was
\* unmounted; everything else is as it was.
LEMMA Answers ==
    ASSUME IInv, NEW q \in wire, q.kind # "artifact", Answered(q), wire' = wire \ {q},
           UNCHANGED <<made, unseen, admitted>>
    PROVE  /\ dialog' \in [Dialogs -> DialogStates]
           /\ AwaitedSound' /\ ArtifactsSound'
           /\ \A e \in Dialogs :
                Holds(e)' => /\ Holds(e)
                             /\ dialog'[e].artifact = dialog[e].artifact
                             /\ dialog'[e].found = dialog[e].found
           /\ \A e \in Dialogs :
                dialog'[e].at = "done" =>
                  /\ Holds(e)'
                  /\ dialog[e].at = "done" \/ (e = q.from /\ Awaited(q))
<1>1. q.from \in Dialogs
  BY RequestFields DEF IInv
<1>2. CASE Awaited(q)
  <2>1. dialog' = [dialog EXCEPT ![q.from] = Rest(q.from, "done")]
    BY <1>2 DEF Answered
  <2>2. /\ Rest(q.from, "done") \in DialogStates
        /\ \/ Rest(q.from, "done") = CLOSED
           \/ /\ Rest(q.from, "done").at = "done"
              /\ Rest(q.from, "done").artifact = dialog[q.from].artifact
              /\ Rest(q.from, "done").found = dialog[q.from].found
    BY <1>1, RestCases DEF IInv
  <2>3. /\ dialog'[q.from] = Rest(q.from, "done")
        /\ \A e \in Dialogs \ {q.from} : dialog'[e] = dialog[e]
        /\ dialog' \in [Dialogs -> DialogStates]
    BY <1>1, <2>1, <2>2 DEF IInv, TypeOK
  <2>4. dialog[q.from].at \in {"registering", "linking"}
    BY <1>2, RequestFields DEF IInv, AwaitedSound
  <2>5. Holds(q.from) /\ made[q.from] <= 1 + unseen[q.from] /\ unseen[q.from] <= made[q.from]
    BY <1>1, <2>4 DEF IInv, ArtifactsSound, HoldingStates
  <2>6. AwaitedSound'
    <3>1. \A p \in wire' : Awaited(p) => p.from \in Dialogs \ {q.from}
      BY <1>2, AwaitedWaits
    <3>2. \A p \in wire' : Awaited(p)' <=> Awaited(p)
      BY DEF Awaited
    <3> QED
      BY <2>3, <3>1, <3>2 DEF IInv, AwaitedSound
  <2>7. ArtifactsSound'
    BY <2>2, <2>3, <2>5, ClosedType DEF IInv, ArtifactsSound, Holds, HoldingStates
  <2>8. \A e \in Dialogs :
          /\ Holds(e)' => /\ Holds(e)
                          /\ dialog'[e].artifact = dialog[e].artifact
                          /\ dialog'[e].found = dialog[e].found
          /\ dialog'[e].at = "done" => dialog[e].at = "done" \/ (e = q.from /\ Awaited(q))
    BY <1>2, <2>2, <2>3, ClosedType DEF Holds
  <2>9. \A e \in Dialogs : dialog'[e].at = "done" => Holds(e)'
    BY <2>7 DEF ArtifactsSound, HoldingStates
  <2> QED
    BY <2>3, <2>6, <2>7, <2>8, <2>9
<1>3. CASE ~Awaited(q)
  <2>1. dialog' = dialog
    BY <1>3 DEF Answered
  <2>2. AwaitedSound' /\ ArtifactsSound'
    BY <2>1 DEF IInv, AwaitedSound, Awaited, ArtifactsSound, Holds
  <2>3. \A e \in Dialogs : dialog'[e].at = "done" => Holds(e)'
    BY <2>2 DEF ArtifactsSound, HoldingStates
  <2>4. dialog' \in [Dialogs -> DialogStates]
    BY <2>1 DEF IInv, TypeOK
  <2>5. \A e \in Dialogs :
          Holds(e)' => /\ Holds(e)
                       /\ dialog'[e].artifact = dialog[e].artifact
                       /\ dialog'[e].found = dialog[e].found
    BY <2>1 DEF Holds
  <2>6. \A e \in Dialogs :
          dialog'[e].at = "done" =>
            /\ Holds(e)'
            /\ dialog[e].at = "done" \/ (e = q.from /\ Awaited(q))
    <3>1. \A e \in Dialogs : dialog'[e].at = dialog[e].at
      BY <2>1
    <3> QED
      BY <2>3, <3>1
  <2> QED
    BY <2>2, <2>4, <2>5, <2>6
<1> QED
  BY <1>2, <1>3

LEMMA RegisterInv ==
    ASSUME IInv, NEW q \in wire, NEW r \in Rows, ServeRegister(q, r) PROVE IInv'
<1> DEFINE unlinked == FALSE
           row == [state |-> "active", artifact |-> q.artifact, bare |-> unlinked]
<1>1. /\ q.kind = "register" /\ ActiveRows = {} /\ action[r].state = "absent"
      /\ wire' = wire \ {q} /\ UNCHANGED <<made, unseen, admitted>>
      /\ Answered(q) /\ q.from \in Dialogs
  BY RequestFields DEF ServeRegister, IInv
<1>2. action' = [action EXCEPT ![r] = row]
  BY DEF ServeRegister
<1>3. /\ dialog' \in [Dialogs -> DialogStates]
      /\ AwaitedSound' /\ ArtifactsSound'
      /\ \A e \in Dialogs :
           Holds(e)' => /\ Holds(e)
                        /\ dialog'[e].artifact = dialog[e].artifact
                        /\ dialog'[e].found = dialog[e].found
      /\ \A e \in Dialogs :
           dialog'[e].at = "done" =>
             /\ Holds(e)'
             /\ dialog[e].at = "done" \/ (e = q.from /\ Awaited(q))
  BY <1>1, Answers
<1>4. unlinked \in BOOLEAN /\ ~unlinked
  OBVIOUS
<1>5. /\ q.artifact \in Artifacts /\ q.artifact # NONE /\ Made(q.artifact, made)
      /\ Awaited(q) => q.artifact = dialog[q.from].artifact
  BY <1>1, RequestFields DEF IInv, ArtifactsKnown, AwaitedSound
<1> HIDE DEF unlinked
<1>6. /\ action'[r].state = "active" /\ action'[r].artifact = q.artifact
      /\ ~action'[r].bare
      /\ \A s \in Rows \ {r} : action'[s] = action[s]
  BY <1>2, <1>4 DEF IInv, TypeOK
<1>7. TypeOK'
  <2>1. row \in CampaignActions
    BY <1>4, <1>5 DEF CampaignActions
  <2> HIDE DEF row
  <2> QED
    BY <1>1, <1>2, <1>3, <2>1 DEF IInv, TypeOK
<1>8. ArtifactsKnown'
  BY <1>1, <1>3, <1>5, <1>6 DEF IInv, ArtifactsKnown, Holds
<1>9. ActiveRows' = {r}
  BY <1>1, <1>6 DEF ActiveRows
<1>10. ActionsSound'
  BY <1>5, <1>6, <1>9 DEF IInv, ActionsSound
<1>11. ~action[r].bare /\ action[r].artifact = NONE
  BY <1>1 DEF IInv, ActionsSound
<1>12. LinksSound'
  BY <1>1, <1>6, <1>9, <1>11 DEF IInv, LinksSound
<1>13. SuccessSound'
  <2> SUFFICES ASSUME NEW e \in Dialogs, dialog'[e].at = "done" PROVE Linked(e)'
    BY DEF SuccessSound
  <2>1. CASE dialog[e].at = "done"
    BY <1>3, <1>6, <1>11, <2>1 DEF IInv, SuccessSound, Linked
  <2>2. CASE e = q.from /\ Awaited(q)
    BY <1>3, <1>5, <1>6, <2>2 DEF Linked
  <2> QED
    BY <1>3, <2>1, <2>2
<1> QED
  BY <1>3, <1>7, <1>8, <1>10, <1>12, <1>13 DEF IInv

LEMMA LinkInv == ASSUME IInv, NEW q \in wire, ServeLink(q) PROVE IInv'
<1> DEFINE r == q.row
           row == [state |-> action[r].state, artifact |-> q.artifact, bare |-> action[r].bare]
<1>1. /\ q.kind = "link" /\ wire' = wire \ {q} /\ UNCHANGED <<made, unseen, admitted>>
      /\ Answered(q) /\ q.from \in Dialogs
      /\ action' = [action EXCEPT ![r].artifact = q.artifact]
  BY RequestFields DEF ServeLink, IInv
<1>2. r \in Rows /\ action[r].bare
  BY <1>1 DEF IInv, LinksSound
<1>3. /\ dialog' \in [Dialogs -> DialogStates]
      /\ AwaitedSound' /\ ArtifactsSound'
      /\ \A e \in Dialogs :
           Holds(e)' => /\ Holds(e)
                        /\ dialog'[e].artifact = dialog[e].artifact
                        /\ dialog'[e].found = dialog[e].found
      /\ \A e \in Dialogs :
           dialog'[e].at = "done" =>
             /\ Holds(e)'
             /\ dialog[e].at = "done" \/ (e = q.from /\ Awaited(q))
  BY <1>1, Answers
<1>4. /\ q.artifact \in Artifacts /\ q.artifact # NONE /\ Made(q.artifact, made)
      /\ Awaited(q) => dialog[q.from].found = r
  BY <1>1, RequestFields DEF IInv, ArtifactsKnown, AwaitedSound
<1>a. q.kind = "link" /\ q.row = r
  BY <1>1
<1> HIDE DEF r
<1>5. /\ action' \in [Rows -> CampaignActions]
      /\ action'[r].artifact = q.artifact
      /\ \A s \in Rows \ {r} : action'[s] = action[s]
      /\ \A s \in Rows : action'[s].state = action[s].state /\ action'[s].bare = action[s].bare
  <2>1. action \in [Rows -> CampaignActions]
    BY DEF IInv, TypeOK
  <2> QED
    BY <1>1, <1>2, <1>4, <2>1 DEF CampaignActions
<1>6. TypeOK'
  BY <1>1, <1>3, <1>5 DEF IInv, TypeOK
<1>7. ArtifactsKnown'
  BY <1>1, <1>3, <1>4, <1>5 DEF IInv, ArtifactsKnown, Holds
<1>8. ActiveRows' = ActiveRows /\ \A s \in ActiveRows : s \in Rows
  BY <1>5 DEF ActiveRows
<1>9. ActionsSound'
  BY <1>2, <1>4, <1>5, <1>8 DEF IInv, ActionsSound
<1>10. LinksSound'
  <2>1. \A p \in wire' : p.kind = "link" => p.row \in Rows /\ action'[p.row].bare
    BY <1>1, <1>5 DEF IInv, LinksSound
  <2> SUFFICES ASSUME NEW e \in Dialogs, NEW s \in ActiveRows, Holds(e)', action'[s].bare,
                      \/ action'[s].artifact = dialog'[e].artifact
                      \/ \E p \in wire' : /\ p.kind = "link" /\ p.row = s
                                          /\ p.artifact = dialog'[e].artifact
               PROVE  dialog'[e].found = s
    BY <1>8, <2>1 DEF LinksSound
  <2>2. /\ Holds(e) /\ action[s].bare /\ s \in Rows
        /\ dialog'[e].artifact = dialog[e].artifact /\ dialog'[e].found = dialog[e].found
    BY <1>3, <1>5, <1>8
  <2>3. CASE action'[s].artifact = dialog'[e].artifact
    <3>1. CASE s = r
      BY <1>a, <1>5, <2>2, <2>3, <3>1 DEF IInv, LinksSound
    <3>2. CASE s # r
      BY <1>5, <2>2, <2>3, <3>2 DEF IInv, LinksSound
    <3> QED
      BY <3>1, <3>2
  <2>4. CASE \E p \in wire' : /\ p.kind = "link" /\ p.row = s
                              /\ p.artifact = dialog'[e].artifact
    BY <1>1, <2>2, <2>4 DEF IInv, LinksSound
  <2> QED
    BY <2>3, <2>4
<1>11. SuccessSound'
  <2> SUFFICES ASSUME NEW e \in Dialogs, dialog'[e].at = "done" PROVE Linked(e)'
    BY DEF SuccessSound
  <2>1. CASE dialog[e].at = "done"
    BY <1>2, <1>3, <1>4, <1>5, <2>1 DEF IInv, SuccessSound, Linked
  <2>2. CASE e = q.from /\ Awaited(q)
    BY <1>2, <1>3, <1>4, <1>5, <2>2 DEF Linked
  <2> QED
    BY <1>3, <2>1, <2>2
<1> QED
  BY <1>3, <1>6, <1>7, <1>9, <1>10, <1>11 DEF IInv

\* The other users of the API: an action that links nothing is created, one is closed.
LEMMA CreateBareInv == ASSUME IInv, NEW r \in Rows, CreateBare(r) PROVE IInv'
<1> DEFINE unlinked == TRUE
           row == [state |-> "active", artifact |-> NONE, bare |-> unlinked]
<1>1. /\ ActiveRows = {} /\ action[r].state = "absent"
      /\ UNCHANGED <<made, unseen, dialog, admitted, wire>>
  BY DEF CreateBare
<1>2. action' = [action EXCEPT ![r] = row]
  BY DEF CreateBare
<1>3. unlinked \in BOOLEAN /\ unlinked
  OBVIOUS
<1> HIDE DEF unlinked
<1>4. /\ action'[r].state = "active" /\ action'[r].artifact = NONE /\ action'[r].bare
      /\ \A s \in Rows \ {r} : action'[s] = action[s]
  BY <1>2, <1>3 DEF IInv, TypeOK
<1>5. TypeOK'
  <2>1. row \in CampaignActions
    BY <1>3 DEF CampaignActions
  <2> HIDE DEF row
  <2> QED
    BY <1>1, <1>2, <2>1 DEF IInv, TypeOK
<1>6. AwaitedSound' /\ ArtifactsSound' /\ ArtifactsKnown'
  BY <1>1, <1>4 DEF IInv, AwaitedSound, Awaited, ArtifactsSound, ArtifactsKnown, Holds
<1>7. ActiveRows' = {r}
  BY <1>1, <1>4 DEF ActiveRows
<1>8. ActionsSound'
  BY <1>4, <1>7 DEF IInv, ActionsSound
<1>9. ~action[r].bare /\ action[r].artifact = NONE
  BY <1>1 DEF IInv, ActionsSound
<1>10. LinksSound'
  BY <1>1, <1>4, <1>7, <1>9 DEF IInv, LinksSound, Holds
<1>11. SuccessSound'
  <2>1. \A e \in Dialogs : Linked(e) => Linked(e)'
    BY <1>1, <1>4, <1>9 DEF Linked
  <2> QED
    BY <1>1, <2>1 DEF IInv, SuccessSound
<1> QED
  BY <1>5, <1>6, <1>8, <1>10, <1>11 DEF IInv

LEMMA CloseActionInv == ASSUME IInv, NEW r \in Rows, CloseAction(r) PROVE IInv'
<1>1. /\ action[r].state = "active"
      /\ action' = [action EXCEPT ![r].state = "closed"]
      /\ UNCHANGED <<made, unseen, dialog, admitted, wire>>
  BY DEF CloseAction
<1>2. /\ action' \in [Rows -> CampaignActions]
      /\ action'[r].state = "closed"
      /\ \A s \in Rows \ {r} : action'[s] = action[s]
      /\ \A s \in Rows :
           action'[s].artifact = action[s].artifact /\ action'[s].bare = action[s].bare
  <2>1. action \in [Rows -> CampaignActions]
    BY DEF IInv, TypeOK
  <2> QED
    BY <1>1, <2>1 DEF CampaignActions
<1>3. TypeOK' /\ AwaitedSound' /\ ArtifactsSound' /\ ArtifactsKnown'
  BY <1>1, <1>2 DEF IInv, TypeOK, AwaitedSound, Awaited, ArtifactsSound, ArtifactsKnown, Holds
<1>4. ActiveRows' \subseteq ActiveRows
  BY <1>2 DEF ActiveRows
<1>5. ActionsSound'
  BY <1>1, <1>2, <1>4 DEF IInv, ActionsSound
<1>6. LinksSound'
  BY <1>1, <1>2, <1>4 DEF IInv, LinksSound, ActiveRows, Holds
<1>7. SuccessSound'
  BY <1>1, <1>2 DEF IInv, SuccessSound, Linked
<1> QED
  BY <1>3, <1>5, <1>6, <1>7 DEF IInv

-----------------------------------------------------------------------------
\* Every step keeps the invariant.
LEMMA StepInv == IInv /\ [Next]_vars => IInv'
<1> SUFFICES ASSUME IInv, [Next]_vars PROVE IInv'
  OBVIOUS
<1>1. CASE \E d \in Dialogs :
             \/ LookUp(d) \/ Submit(d) \/ Retry(d) \/ LookFinds(d) \/ LookFindsNone(d)
             \/ LookFails(d) \/ Close(d) \/ SwitchWorkspace(d)
  BY <1>1, LookUpInv, SubmitInv, RetryInv, LookFindsInv, LookFindsNoneInv, LookFailsInv,
     CloseInv, SwitchInv
<1>2. CASE \E q \in wire : Refuse(q) \/ GiveUp(q) \/ ServeArtifact(q) \/ ServeLink(q)
  BY <1>2, RefuseInv, GiveUpInv, ToldInv, UntoldInv, LinkInv
<1>3. CASE \E q \in wire, r \in Rows : ServeRegister(q, r)
  BY <1>3, RegisterInv
<1>4. CASE \E r \in Rows : CreateBare(r) \/ CloseAction(r)
  BY <1>4, CreateBareInv, CloseActionInv
<1>5. CASE UNCHANGED vars
  BY <1>5 DEF vars, IInv, TypeOK, AwaitedSound, Awaited, ArtifactsSound, ArtifactsKnown,
     ActionsSound, ActiveRows, LinksSound, Holds, SuccessSound, Linked
<1> QED
  BY <1>1, <1>2, <1>3, <1>4, <1>5 DEF Next

-----------------------------------------------------------------------------
\* The invariant the properties follow from holds in every state.
THEOREM Invariant == Spec => []IInv
  BY InitInv, StepInv, PTL DEF Spec

\* The dialogs, their requests and the actions are always well formed.
THEOREM TypeCorrect == Spec => []TypeOK
<1>1. IInv => TypeOK
  BY DEF IInv
<1> QED
  BY Invariant, <1>1, PTL

\* However requests are lost and served late, a dialog has one artifact made and was told
\* of it, and more only in the place of those it never heard of.
THEOREM ArtifactsCorrect == Spec => []ArtifactsAccounted
<1>1. IInv => ArtifactsAccounted
  BY DEF IInv, ArtifactsSound, ArtifactsAccounted
<1> QED
  BY Invariant, <1>1, PTL

\* What the user was told is there: the action that links the artifact, unless one that
\* two dialogs repaired links the other's.
THEOREM SuccessCorrect == Spec => []SuccessIsRegistered
<1>1. IInv => SuccessIsRegistered
  BY DEF IInv, SuccessSound, Linked, SuccessIsRegistered
<1> QED
  BY Invariant, <1>1, PTL
=============================================================================
