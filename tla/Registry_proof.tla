---------------------------- MODULE Registry_proof ----------------------------
(***************************************************************************)
(* Proofs about Businesses, and about the Registry that reads their files, *)
(* for any threads, Businesses, owners, fields, adapters and numbers, and  *)
(* any number of requests, exceptions and crashes.  Inv is the inductive   *)
(* invariant of Businesses; its parts follow a request: which file is      *)
(* whose, who has met whom, who is making a directory into a Business,     *)
(* which were left half made, and who owns one.                            *)
(***************************************************************************)
EXTENDS Registry, TLAPS

USE DEF Halfway

(* Requests have numbers of their own; a signup writes the default config;    *)
(* a file is open from "fill" on.                                             *)
RequestsOK ==
    /\ \A t \in Threads : Busy(t) =>
          /\ req[t].id \in 1..count
          /\ req[t].op = "signup" => req[t].config = Default
          /\ req[t].fd = None <=> req[t].step \in {"check", "mkdir", "load", "open"}
    /\ \A t, u \in Threads : Busy(t) /\ Busy(u) /\ req[t].id = req[u].id => t = u

(* No name, and no open file, is the file of number i yet. *)
Fresh(i) ==
    /\ \A b \in BusinessIds : yaml[b] # i /\ tmp[b] # i
    /\ \A t \in Threads : Busy(t) => req[t].fd # i

(* A file is of one Business, and none is made twice. *)
FilesOK ==
    /\ \A i \in Ids : i > count => Fresh(i)
    /\ \A t \in Threads : Busy(t) /\ req[t].fd = None => Fresh(req[t].id)
    /\ \A b, c \in BusinessIds : b # c =>
          /\ yaml[b] # None => yaml[b] # yaml[c] /\ yaml[b] # tmp[c]
          /\ tmp[b] # None => tmp[b] # tmp[c]
    /\ \A t \in Threads, b \in BusinessIds :
          Busy(t) /\ req[t].fd # None /\ b # req[t].business =>
              req[t].fd # yaml[b] /\ req[t].fd # tmp[b]

(* Requests in flight on one Business, or signups for one email, have met. *)
MeetingsOK ==
    \A t, u \in Threads : Busy(t) /\ Busy(u) /\ t # u =>
        /\ req[t].business = req[u].business => req[t].business \in met
        /\ req[t].op = "signup" /\ req[u].op = "signup" /\ req[t].email = req[u].email =>
              req[t].email \in met

(* A shipped Business is there, and so is one that is patched, made or owned. *)
DirsOK ==
    /\ Shipped \subseteq dirs /\ \A b \in Shipped : yaml[b] # None
    /\ \A t \in Threads : Busy(t) =>
          /\ req[t].step \notin {"check", "mkdir"} => req[t].business \in dirs
          /\ req[t].op = "patch" => yaml[req[t].business] # None
    /\ \A e \in Emails : users[e] # None =>
          users[e].business \in dirs /\ yaml[users[e].business] # None

(* One signup makes a Business, alone in its directory, until it has an owner. *)
CreatorsOK ==
    \A t \in Threads : Provisions(t) =>
        LET b == req[t].business IN
        /\ b \notin Shipped
        /\ req[t].step = "owner" => yaml[b] # None
        /\ req[t].step \in {"fill", "replace"} => tmp[b] # None
        /\ \A u \in Threads : Busy(u) /\ req[u].business = b =>
              u = t \/ req[u].step \in {"check", "mkdir"}
        /\ \A e \in Emails : users[e] # None => users[e].business # b

(* The seeded owners are as seeded, a shipped Business has no other, and a     *)
(* signup past its check takes an email that was free, unless another met it. *)
OwnersOK ==
    /\ \A b \in Shipped : OwnerEmail[b] # None =>
          users[OwnerEmail[b]] = [business |-> b, signup |-> 0]
    /\ \A e \in Emails : users[e] # None /\ users[e].business \in Shipped =>
          OwnerEmail[users[e].business] = e
    /\ \A t \in Threads : Busy(t) /\ req[t].op = "signup"
                          /\ req[t].step \notin {"check", "audit"} =>
          /\ users[req[t].email] = None \/ req[t].email \in met
          /\ \A b \in Shipped : OwnerEmail[b] # req[t].email
    /\ \A e, f \in Emails :
          users[e] # None /\ users[f] # None /\ users[e].business = users[f].business => e = f

(* The writer of a Business that no other request met has in hand what its     *)
(* write will make of the config, and the temporary file to itself.           *)
EditsOK ==
    /\ FileIsAsEdited
    /\ \A t \in Threads : Busy(t) /\ req[t].business \notin met =>
          LET r == req[t] IN
          /\ r.step \in {"open", "fill", "replace"} => r.config = EditedBy(r)
          /\ r.step \in {"fill", "replace"} => tmp[r.business] = r.fd
          /\ r.step = "replace" => contents[r.fd] = r.config

(* A hand-written file that is no Business Config stays as it is. *)
BrokenOK ==
    \A b \in BusinessIds : edited[b] \notin Configs =>
        /\ b \in Shipped /\ contents[yaml[b]] \notin Configs
        /\ \A t \in Threads : Busy(t) /\ req[t].business = b =>
              req[t].step \notin {"open", "fill", "replace"}

(* A directory has a signup that is making it into a Business, was left by one *)
(* that stopped, or is a Business, and has an owner unless two signups met.    *)
WholeOK ==
    \A b \in {d \in dirs \ halted : d \in Shipped => OwnerEmail[d] # None} :
        \/ \E t \in Threads : Provisions(t) /\ req[t].business = b
        \/ /\ yaml[b] # None
           /\ (met \intersect Emails = {}) =>
                 \E e \in Emails : users[e] # None /\ users[e].business = b

(* What a stopped signup left is nobody's, and nobody is making it into a       *)
(* Business any more.                                                         *)
HalvesOK ==
    /\ halted \subseteq dirs
    /\ \A e \in Emails : users[e] # None => users[e].business \notin halted
    /\ \A t \in Threads : Provisions(t) => req[t].business \notin halted

Inv == /\ TypeOK /\ RequestsOK /\ FilesOK /\ MeetingsOK
       /\ DirsOK /\ CreatorsOK /\ OwnersOK /\ EditsOK /\ BrokenOK /\ WholeOK /\ HalvesOK

-------------------------------------------------------------------------------
(* How a step changes the requests in flight.                                *)
OthersKeep(t) == \A u \in Threads \ {t} : req'[u] = req[u]

(* Thread t goes on with the same request. *)
Goes(t, step, config, fd) ==
    /\ Busy(t) /\ Busy(t)' /\ OthersKeep(t)
    /\ req' \in [Threads -> Signups \union Patches \union {NoRequest}]
    /\ req'[t].step = step /\ req'[t].config = config /\ req'[t].fd = fd
    /\ req'[t].id = req[t].id /\ req'[t].op = req[t].op /\ req'[t].field = req[t].field
    /\ req'[t].business = req[t].business /\ req'[t].email = req[t].email

Leaves(t) ==
    /\ Busy(t) /\ ~Busy(t)' /\ OthersKeep(t)
    /\ req' \in [Threads -> Signups \union Patches \union {NoRequest}]

(* The parts of a request in flight have their types. *)
LEMMA RequestType ==
    ASSUME TypeOK, NEW t \in Threads, Busy(t)
    PROVE  LET r == req[t] IN
           /\ r \in Signups \union Patches
           /\ r.id \in Ids /\ r.business \in BusinessIds /\ r.email \in Emails
           /\ r.field \in Fields /\ r.config \in Configs /\ r.fd \in FileIds \union {None}
           /\ \/ r \in Signups /\ r.op = "signup" /\ r.step \in SignupSteps
              \/ r \in Patches /\ r.op = "patch" /\ r.step \in PatchSteps
  BY DEF TypeOK, Busy, Signups, Patches

LEMMA LeaveLeaves ==
    ASSUME TypeOK, NEW t \in Threads, Busy(t), Return(t)
    PROVE  Leaves(t)
  BY DEF TypeOK, Return, Leaves, OthersKeep, Busy

(* A request moves one step on, perhaps with a config read or a file opened. *)
LEMMA GoGoes ==
    ASSUME TypeOK, NEW t \in Threads, Busy(t), NEW step, NEW config \in Configs,
           NEW fd \in FileIds \union {None},
           req[t].op = "signup" => step \in SignupSteps,
           req[t].op = "patch" => step \in PatchSteps,
           req' = [req EXCEPT ![t] = [req[t] EXCEPT !.config = config, !.fd = fd, !.step = step]]
    PROVE  Goes(t, step, config, fd)
<1> DEFINE r == [req[t] EXCEPT !.config = config, !.fd = fd, !.step = step]
<1>1. /\ r \in Signups \union Patches /\ r.step = step /\ r.config = config /\ r.fd = fd
      /\ r.id = req[t].id /\ r.op = req[t].op /\ r.field = req[t].field
      /\ r.business = req[t].business /\ r.email = req[t].email
  <2>1. CASE req[t] \in Signups /\ req[t].op = "signup"
    BY <2>1 DEF Signups
  <2>2. CASE req[t] \in Patches /\ req[t].op = "patch"
    BY <2>2 DEF Patches
  <2> QED BY <2>1, <2>2, RequestType
<1>2. r # NoRequest
  BY <1>1, NullsAssumption
<1>3. req' = [req EXCEPT ![t] = r]
  OBVIOUS
<1> HIDE DEF r
<1>4. req' \in [Threads -> Signups \union Patches \union {NoRequest}] /\ req'[t] = r
  BY <1>1, <1>3 DEF TypeOK
<1> QED BY <1>1, <1>2, <1>3, <1>4 DEF TypeOK, Goes, OthersKeep, Busy

(* A step that only moves the request on. *)
LEMMA GotoGoes ==
    ASSUME TypeOK, NEW t \in Threads, Busy(t), NEW step,
           req[t].op = "signup" => step \in SignupSteps,
           req[t].op = "patch" => step \in PatchSteps,
           Goto(t, step)
    PROVE  Goes(t, step, req[t].config, req[t].fd)
<1> DEFINE r == req[t]
<1>1. r.config \in Configs /\ r.fd \in FileIds \union {None}
  BY RequestType
<1>2. [r EXCEPT !.step = step] = [r EXCEPT !.config = r.config, !.fd = r.fd, !.step = step]
  BY RequestType DEF Signups, Patches
<1>3. req' = [req EXCEPT ![t] = [req[t] EXCEPT !.step = step]]
  BY DEF Goto
<1> QED BY <1>1, <1>2, <1>3, GoGoes

(* What the handlers of one Business share, as the steps below change it. *)
shared == <<dirs, files, users, edited>>

(* The steps of a route: what each finds, and all that it changes.           *)
Stops(t) == Leaves(t) /\ UNCHANGED shared

Passes(t) ==
    /\ req[t].step = "check" /\ req[t].business \notin dirs /\ users[req[t].email] = None
    /\ Goes(t, "mkdir", req[t].config, req[t].fd) /\ UNCHANGED shared

Makes(t) ==
    /\ req[t].step = "mkdir" /\ req[t].business \notin dirs
    /\ Goes(t, "open", req[t].config, req[t].fd)
    /\ dirs' = dirs \union {req[t].business} /\ UNCHANGED <<files, users, edited>>

Reads(t) ==
    LET read == contents[yaml[req[t].business]] IN
    /\ req[t].step = "load" /\ read \in Configs
    /\ Goes(t, "open", Merged(read, req[t]), req[t].fd) /\ UNCHANGED shared

Opens(t, file) ==
    /\ req[t].step = "open"
    /\ file = IF tmp[req[t].business] # None THEN tmp[req[t].business] ELSE req[t].id
    /\ Goes(t, "fill", req[t].config, file)
    /\ contents' = [contents EXCEPT ![file] = None]
    /\ tmp' = [tmp EXCEPT ![req[t].business] = file]
    /\ UNCHANGED <<dirs, yaml, users, edited>>

Fills(t) ==
    /\ req[t].step = "fill" /\ req[t].fd \in FileIds
    /\ Goes(t, "replace", req[t].config, req[t].fd)
    /\ contents' = [contents EXCEPT ![req[t].fd] = req[t].config]
    /\ UNCHANGED <<dirs, yaml, tmp, users, edited>>

Puts(t) ==
    LET r == req[t]  b == r.business IN
    /\ r.step = "replace" /\ tmp[b] # None
    /\ Goes(t, IF r.op = "signup" THEN "owner" ELSE "audit", r.config, r.fd)
    /\ yaml' = [yaml EXCEPT ![b] = tmp[b]] /\ tmp' = [tmp EXCEPT ![b] = None]
    /\ edited' = [edited EXCEPT ![b] = EditedBy(r)]
    /\ UNCHANGED <<dirs, contents, users>>

Owns(t) ==
    LET r == req[t] IN
    /\ r.step = "owner"
    /\ Goes(t, "audit", r.config, r.fd)
    /\ users' = [users EXCEPT ![r.email] = [business |-> r.business, signup |-> r.id]]
    /\ UNCHANGED <<dirs, files, edited>>

Moves(t) == \/ Stops(t) \/ Passes(t) \/ Makes(t) \/ Reads(t)
            \/ \E file \in FileIds : Opens(t, file)
            \/ Fills(t) \/ Puts(t) \/ Owns(t)

LEMMA OpenOpens ==
    ASSUME TypeOK, NEW t \in Threads, Open(t)
    PROVE  \E file \in FileIds : Opens(t, file)
<1> DEFINE file == IF tmp[req[t].business] # None THEN tmp[req[t].business] ELSE req[t].id
<1>1. Busy(t) /\ req[t].step = "open" /\ UNCHANGED <<dirs, yaml, users, edited>>
  BY DEF Open, At
<1>2. /\ file \in FileIds /\ req[t].config \in Configs
  BY <1>1, RequestType DEF TypeOK, FileIds
<1>3. /\ contents' = [contents EXCEPT ![file] = None]
      /\ tmp' = [tmp EXCEPT ![req[t].business] = file]
      /\ req' = [req EXCEPT ![t] = [req[t] EXCEPT !.fd = file, !.step = "fill"]]
  BY DEF Open
<1> HIDE DEF file
<1>4. [req[t] EXCEPT !.fd = file, !.step = "fill"] =
      [req[t] EXCEPT !.config = req[t].config, !.fd = file, !.step = "fill"]
  BY <1>1, RequestType DEF Signups, Patches
<1>5. Goes(t, "fill", req[t].config, file)
  BY <1>1, <1>2, <1>3, <1>4, GoGoes DEF SignupSteps, PatchSteps
<1> QED BY <1>1, <1>2, <1>3, <1>5 DEF Opens, file

LEMMA RouteMoves ==
    ASSUME TypeOK, NEW t \in Threads, Route(t)
    PROVE  /\ Busy(t) /\ Moves(t)
           /\ UNCHANGED <<count, crashes, met>>
<1>1. Busy(t) /\ UNCHANGED <<count, crashes, met>>
  BY DEF Route, At, Check, Mkdir, Load, Open, Fill, Replace, MakeOwner, Audit, Fails
<1> USE DEF shared, files, At
<1>2. /\ req[t].op \in {"signup", "patch"} /\ req[t].config \in Configs
      /\ req[t].fd \in FileIds \union {None} /\ req[t].id \in FileIds
      /\ req[t].business \in BusinessIds
      /\ req[t].op = "signup" => req[t].step \in SignupSteps
      /\ req[t].op = "patch" => req[t].step \in PatchSteps
  BY <1>1, RequestType DEF FileIds
<1>3. CASE Check(t)
  BY <1>1, <1>2, <1>3, LeaveLeaves, GotoGoes DEF Check, Moves, Stops, Passes, SignupSteps, PatchSteps
<1>4. CASE Mkdir(t)
  BY <1>1, <1>2, <1>4, LeaveLeaves, GotoGoes DEF Mkdir, Moves, Stops, Makes, SignupSteps, PatchSteps
<1>5. CASE Load(t)
  <2> DEFINE read == contents[yaml[req[t].business]]
  <2>1. CASE read \notin Configs
    BY <1>1, <1>5, <2>1, LeaveLeaves DEF Load, Moves, Stops
  <2>2. CASE read \in Configs
    <3> DEFINE merged == Merged(read, req[t])
    <3>1. merged \in Configs
      BY <1>1, <2>2, RequestType DEF Merged, Configs
    <3>2. req' = [req EXCEPT ![t] = [req[t] EXCEPT !.config = merged, !.step = "open"]]
      BY <1>5, <2>2 DEF Load
    <3> HIDE DEF merged
    <3>3. [req[t] EXCEPT !.config = merged, !.step = "open"] =
          [req[t] EXCEPT !.config = merged, !.fd = req[t].fd, !.step = "open"]
      BY <1>1, RequestType DEF Signups, Patches
    <3>4. Goes(t, "open", merged, req[t].fd)
      BY <1>1, <1>2, <3>1, <3>2, <3>3, GoGoes DEF SignupSteps, PatchSteps
    <3> QED BY <1>5, <2>2, <3>4 DEF Load, Moves, Reads, merged
  <2> QED BY <2>1, <2>2
<1>6. CASE Open(t)
  BY <1>1, <1>6, OpenOpens DEF Moves
<1>7. CASE Fill(t)
  <2>1. req[t].fd # None
    BY <1>7 DEF Fill, TypeOK
  <2> QED BY <1>1, <1>2, <1>7, <2>1, GotoGoes DEF Fill, Moves, Fills, SignupSteps, PatchSteps
<1>8. CASE Replace(t)
  BY <1>1, <1>2, <1>8, LeaveLeaves, GotoGoes DEF Replace, Moves, Stops, Puts, SignupSteps, PatchSteps
<1>9. CASE MakeOwner(t)
  BY <1>1, <1>2, <1>9, GotoGoes DEF MakeOwner, Moves, Owns, SignupSteps, PatchSteps
<1>10. CASE Audit(t)
  BY <1>1, <1>10, LeaveLeaves DEF Audit, Moves, Stops
<1>11. CASE Fails(t)
  BY <1>1, <1>11, LeaveLeaves DEF Fails, Moves, Stops
<1> QED BY <1>1, <1>3, <1>4, <1>5, <1>6, <1>7, <1>8, <1>9, <1>10, <1>11 DEF Route

(* A signup that stops partway is on record; the others that stop have made    *)
(* nothing, or have found the temporary file gone.                            *)
Records(t) ==
    \/ halted' = halted \union HalfMade({t}) /\ Stops(t)
    \/ /\ halted' = halted
       /\ Stops(t) => \/ req[t].step \in {"check", "mkdir", "load", "audit"}
                      \/ req[t].step = "replace" /\ tmp[req[t].business] = None

LEMMA RouteRecords ==
    ASSUME TypeOK, NEW t \in Threads, Route(t)
    PROVE  Records(t)
<1> USE DEF shared, files, At
<1>1. /\ Busy(t)
      /\ req[t].op = "signup" => req[t].step \in SignupSteps
      /\ req[t].op = "patch" => req[t].step \in PatchSteps
      /\ req[t].op \in {"signup", "patch"}
  BY RouteMoves, RequestType
<1>2. CASE Fails(t)
  BY <1>1, <1>2, LeaveLeaves DEF Fails, Stops, Records
<1>3. CASE ~Fails(t)
  <2>1. halted' = halted
    BY <1>3 DEF Route, Check, Mkdir, Load, Open, Fill, Replace, MakeOwner, Audit
  <2>2. CASE req[t].step \in {"open", "fill", "owner"}
    <3>1. Open(t) => Busy(t)'
      BY OpenOpens DEF Opens, Goes
    <3>2. Fill(t) \/ MakeOwner(t) => Busy(t)'
      BY <1>1, GotoGoes DEF Fill, MakeOwner, Goes, SignupSteps, PatchSteps
    <3>3. Open(t) \/ Fill(t) \/ MakeOwner(t)
      BY <1>3, <2>2 DEF Route, Check, Mkdir, Load, Replace, Audit
    <3>4. Busy(t)'
      BY <3>1, <3>2, <3>3
    <3> QED BY <2>1, <3>4 DEF Records, Stops, Leaves
  <2>3. CASE req[t].step = "replace"
    <3>1. tmp[req[t].business] # None => Busy(t)'
      <4> SUFFICES ASSUME tmp[req[t].business] # None PROVE Busy(t)'
        OBVIOUS
      <4>1. Goto(t, IF req[t].op = "signup" THEN "owner" ELSE "audit")
        BY <1>3, <2>3 DEF Route, Check, Mkdir, Load, Open, Fill, Replace, MakeOwner, Audit
      <4> QED BY <1>1, <4>1, GotoGoes DEF Goes, SignupSteps, PatchSteps
    <3> QED BY <2>1, <2>3, <3>1 DEF Records, Stops, Leaves
  <2>4. CASE req[t].step \in {"check", "mkdir", "load", "audit"}
    BY <2>1, <2>4 DEF Records
  <2> QED BY <1>1, <2>2, <2>3, <2>4 DEF SignupSteps, PatchSteps
<1> QED BY <1>2, <1>3

-------------------------------------------------------------------------------
(* A route changes no request but its own, and of that one only how far it is. *)
LEMMA MoveKeeps ==
    ASSUME NEW t \in Threads, Busy(t), Moves(t)
    PROVE  /\ \A u \in Threads : Busy(u)' =>
                 /\ Busy(u)
                 /\ req'[u].id = req[u].id /\ req'[u].op = req[u].op
                 /\ req'[u].business = req[u].business /\ req'[u].email = req[u].email
                 /\ u # t => req'[u] = req[u]
           /\ \A u \in Threads \ {t} : Busy(u) => Busy(u)' /\ req'[u] = req[u]
           /\ req' \in [Threads -> Signups \union Patches \union {NoRequest}]
<1>1. Leaves(t) \/ \E step, config, fd : Goes(t, step, config, fd)
  BY DEF Moves, Stops, Passes, Makes, Reads, Opens, Fills, Puts, Owns
<1>2. CASE Leaves(t)
  BY <1>2 DEF Leaves, OthersKeep, Busy
<1>3. CASE \E step, config, fd : Goes(t, step, config, fd)
  BY <1>3 DEF Goes, OthersKeep, Busy
<1> QED BY <1>1, <1>2, <1>3

LEMMA RequestsMove ==
    ASSUME TypeOK, RequestsOK, NEW t \in Threads, Busy(t), Moves(t), UNCHANGED count
    PROVE  RequestsOK'
<1>1. \A u \in Threads : Busy(u)' =>
         /\ req'[u].id \in 1..count
         /\ req'[u].op = "signup" => req'[u].config = Default
         /\ req'[u].fd = None <=> req'[u].step \in {"check", "mkdir", "load", "open"}
  <2>1. ASSUME NEW u \in Threads, Busy(u)', u # t
        PROVE  /\ req'[u].id \in 1..count
               /\ req'[u].op = "signup" => req'[u].config = Default
               /\ req'[u].fd = None <=> req'[u].step \in {"check", "mkdir", "load", "open"}
    BY <2>1, MoveKeeps DEF RequestsOK
  <2>2. /\ req[t].id \in 1..count
        /\ req[t].op = "signup" => req[t].config = Default
        /\ req[t].fd = None <=> req[t].step \in {"check", "mkdir", "load", "open"}
        /\ req[t].step = "load" => req[t].op # "signup"
    BY RequestType DEF RequestsOK, SignupSteps
  <2>3. \A file \in FileIds : file # None
    BY NullsAssumption
  <2>4. Busy(t)' => /\ req'[t].id \in 1..count
                    /\ req'[t].op = "signup" => req'[t].config = Default
                    /\ req'[t].fd = None <=> req'[t].step \in {"check", "mkdir", "load", "open"}
    <3>1. CASE Stops(t)
      BY <3>1 DEF Stops, Leaves
    <3>2. CASE Passes(t) \/ Makes(t) \/ Reads(t)
      BY <2>2, <3>2 DEF Passes, Makes, Reads, Goes
    <3>3. CASE \E file \in FileIds : Opens(t, file)
      BY <2>2, <2>3, <3>3 DEF Opens, Goes
    <3>4. CASE Fills(t) \/ Puts(t) \/ Owns(t)
      BY <2>2, <3>4 DEF Fills, Puts, Owns, Goes
    <3> QED BY <3>1, <3>2, <3>3, <3>4 DEF Moves
  <2> QED BY <2>1, <2>4
<1>2. \A u, v \in Threads : Busy(u)' /\ Busy(v)' /\ req'[u].id = req'[v].id => u = v
  BY MoveKeeps DEF RequestsOK
<1> QED BY <1>1, <1>2 DEF RequestsOK, Busy

LEMMA MeetingsMove ==
    ASSUME MeetingsOK, NEW t \in Threads, Busy(t), Moves(t), UNCHANGED met
    PROVE  MeetingsOK'
<1> SUFFICES ASSUME NEW u \in Threads, NEW v \in Threads, Busy(u)', Busy(v)', u # v
    PROVE  /\ req'[u].business = req'[v].business => req'[u].business \in met
           /\ req'[u].op = "signup" /\ req'[v].op = "signup" /\ req'[u].email = req'[v].email =>
                 req'[u].email \in met
  BY DEF MeetingsOK, Busy
<1> QED BY MoveKeeps DEF MeetingsOK

(* What a step does to the file names of one Business. *)
LEMMA NamesMove ==
    ASSUME TypeOK, RequestsOK, FilesOK, NEW t \in Threads, Busy(t), Moves(t), UNCHANGED count
    PROVE  /\ yaml' \in [BusinessIds -> FileIds \union {None}]
           /\ tmp' \in [BusinessIds -> FileIds \union {None}]
           /\ \A b \in BusinessIds : b # req[t].business => yaml'[b] = yaml[b] /\ tmp'[b] = tmp[b]
           /\ \/ yaml'[req[t].business] = yaml[req[t].business]
              \/ /\ yaml'[req[t].business] = tmp[req[t].business]
                 /\ tmp[req[t].business] # None /\ tmp'[req[t].business] = None
           /\ tmp'[req[t].business] \in {tmp[req[t].business], req[t].id, None}
           /\ tmp'[req[t].business] # tmp[req[t].business] /\ tmp'[req[t].business] # None =>
                 Fresh(req[t].id)
           /\ Busy(t)' => \/ req'[t].fd = req[t].fd
                          \/ req[t].fd = None /\ req'[t].fd = tmp'[req[t].business]
                             /\ req'[t].fd # None
<1> DEFINE b == req[t].business
<1>1. /\ b \in BusinessIds /\ req[t].id \in FileIds /\ tmp[b] \in FileIds \union {None}
      /\ req[t].fd = None <=> req[t].step \in {"check", "mkdir", "load", "open"}
      /\ yaml \in [BusinessIds -> FileIds \union {None}]
      /\ tmp \in [BusinessIds -> FileIds \union {None}]
      /\ req[t].fd = None => Fresh(req[t].id)
      /\ \A file \in FileIds : file # None
  BY RequestType, NullsAssumption DEF TypeOK, RequestsOK, FilesOK, FileIds
<1>2. CASE UNCHANGED <<yaml, tmp>> /\ (Busy(t)' => req'[t].fd = req[t].fd)
  BY <1>1, <1>2
<1>3. CASE Stops(t) \/ Passes(t) \/ Makes(t) \/ Reads(t) \/ Fills(t) \/ Owns(t)
  BY <1>2, <1>3 DEF Stops, Passes, Makes, Reads, Fills, Owns, shared, files, Goes, Leaves
<1>4. ASSUME NEW file \in FileIds, Opens(t, file) PROVE tmp'[b] = file /\ UNCHANGED yaml
      /\ tmp' = [tmp EXCEPT ![b] = file] /\ file \in {tmp[b], req[t].id} /\ req'[t].fd = file
      /\ (file # tmp[b] => Fresh(req[t].id)) /\ req[t].fd = None /\ file # None
  BY <1>1, <1>4 DEF Opens, Goes
<1>5. CASE \E file \in FileIds : Opens(t, file)
  BY <1>1, <1>4, <1>5
<1>6. CASE Puts(t)
  BY <1>1, <1>6 DEF Puts, Goes
<1> QED BY <1>3, <1>5, <1>6 DEF Moves

LEMMA FilesMove ==
    ASSUME TypeOK, RequestsOK, FilesOK, NEW t \in Threads, Busy(t), Moves(t), UNCHANGED count
    PROVE  FilesOK' /\ \A b \in BusinessIds : yaml'[b] # None => yaml'[b] # tmp'[b]
<1> DEFINE b == req[t].business
<1>1. /\ b \in BusinessIds /\ req[t].id \in Ids /\ req[t].id \in 1..count
      /\ \A i \in Ids : i # None
  BY RequestType, NullsAssumption DEF RequestsOK, FileIds
<1> DEFINE FreshNext(i) == /\ \A c \in BusinessIds : yaml'[c] # i /\ tmp'[c] # i
                           /\ \A u \in Threads : Busy(u)' => req'[u].fd # i
<1>2. ASSUME NEW i \in Ids, i # req[t].id, Fresh(i) PROVE FreshNext(i)
  <2>1. \A c \in BusinessIds : yaml'[c] # i /\ tmp'[c] # i
    BY <1>1, <1>2, NamesMove DEF Fresh
  <2>2. \A u \in Threads : Busy(u)' => req'[u].fd # i
    BY <1>1, <1>2, <2>1, NamesMove, MoveKeeps DEF Fresh
  <2> QED BY <2>1, <2>2
<1>3. ASSUME NEW i \in Ids, i > count PROVE FreshNext(i)
  <2>1. i # req[t].id
    BY <1>1, <1>3 DEF TypeOK, Ids
  <2> QED BY <1>2, <1>3, <2>1 DEF FilesOK
<1>4. ASSUME NEW u \in Threads, Busy(u)', req'[u].fd = None PROVE FreshNext(req[u].id)
  <2>1. Busy(u) /\ req[u].id \in Ids
    BY <1>4, MoveKeeps, RequestType
  <2>2. CASE u # t
    <3>1. req[u].fd = None /\ req[u].id # req[t].id
      BY <1>4, <2>1, <2>2, MoveKeeps DEF RequestsOK
    <3> QED BY <1>2, <2>1, <3>1 DEF FilesOK
  <2>3. CASE u = t
    <3>1. UNCHANGED <<yaml, tmp>>
      <4>1. CASE Stops(t) \/ Passes(t) \/ Makes(t) \/ Reads(t) \/ Owns(t)
        BY <4>1 DEF Stops, Passes, Makes, Reads, Owns, shared, files
      <4>2. CASE \E file \in FileIds : Opens(t, file)
        BY <1>4, <2>3, <4>2, NullsAssumption DEF Opens, Goes
      <4>3. CASE Fills(t) \/ Puts(t)
        BY <1>4, <2>3, <4>3 DEF Fills, Puts, Goes, RequestsOK
      <4> QED BY <4>1, <4>2, <4>3 DEF Moves
    <3>2. req[t].fd = None /\ Fresh(req[t].id)
      BY <1>4, <2>3, NamesMove DEF FilesOK
    <3>3. \A v \in Threads : Busy(v)' => req'[v].fd # req[t].id
      BY <1>1, <1>4, <2>3, <3>2, MoveKeeps DEF Fresh
    <3> QED BY <2>3, <3>1, <3>2, <3>3 DEF Fresh
  <2> QED BY <2>2, <2>3
<1>5. \A c, d \in BusinessIds : c # d =>
          /\ yaml'[c] # None => yaml'[c] # yaml'[d] /\ yaml'[c] # tmp'[d]
          /\ tmp'[c] # None => tmp'[c] # tmp'[d]
  BY <1>1, NamesMove DEF FilesOK, Fresh
<1>6. ASSUME NEW u \in Threads, NEW c \in BusinessIds,
             Busy(u)', req'[u].fd # None, c # req'[u].business
      PROVE  req'[u].fd # yaml'[c] /\ req'[u].fd # tmp'[c]
  BY <1>1, <1>5, <1>6, NamesMove, MoveKeeps DEF FilesOK, Fresh
<1>7. \A c \in BusinessIds : yaml'[c] # None => yaml'[c] # tmp'[c]
  BY <1>1, NamesMove DEF Fresh, TypeOK
<1>8. /\ \A i \in Ids : i > count' => Fresh(i)'
      /\ \A u \in Threads : Busy(u)' /\ req'[u].fd = None => FreshNext(req'[u].id)
  BY <1>3, <1>4, MoveKeeps DEF Fresh, Busy
<1> QED BY <1>5, <1>6, <1>7, <1>8 DEF FilesOK, Busy, Fresh

LEMMA TypeMove ==
    ASSUME TypeOK, RequestsOK, FilesOK, BrokenOK, NEW t \in Threads, Busy(t), Moves(t),
           Records(t), UNCHANGED <<count, crashes, met>>
    PROVE  TypeOK'
<1> DEFINE r == req[t]
<1>1. /\ r.id \in Ids /\ r.business \in BusinessIds /\ r.email \in Emails
      /\ r.config \in Configs /\ r.fd \in FileIds \union {None} /\ r.field \in Fields
  BY RequestType
<1>2. /\ r.config \in Contents /\ None \in Contents
      /\ r.step = "replace" => EditedBy(r) \in Contents
  <2>1. r.config \in Contents /\ None \in Contents
    BY <1>1 DEF Contents
  <2>2. ASSUME r.step = "replace" PROVE EditedBy(r) \in Configs
    <3>1. edited[r.business] \in Configs
      BY <1>1, <2>2 DEF BrokenOK
    <3>2. Merged(edited[r.business], r) \in Configs /\ Default \in Configs
      BY <1>1, <3>1 DEF Merged, Configs, Default
    <3> QED BY <3>2 DEF EditedBy
  <2> QED BY <2>1, <2>2 DEF Contents
<1>3. [business |-> r.business, signup |-> r.id] \in Accounts
  BY <1>1 DEF Accounts
<1>4. /\ dirs' \subseteq BusinessIds /\ contents' \in [FileIds -> Contents]
      /\ users' \in [Emails -> Accounts \union {None}]
      /\ edited' \in [BusinessIds -> Contents]
  <2> USE DEF TypeOK, shared, files
  <2>1. CASE Stops(t) \/ Passes(t) \/ Reads(t)
    BY <2>1 DEF Stops, Passes, Reads
  <2>2. CASE Makes(t)
    BY <1>1, <2>2 DEF Makes
  <2>3. CASE \E file \in FileIds : Opens(t, file)
    BY <1>2, <2>3 DEF Opens
  <2>4. CASE Fills(t)
    BY <1>2, <2>4 DEF Fills
  <2>5. CASE Puts(t)
    BY <1>2, <2>5 DEF Puts
  <2>6. CASE Owns(t)
    BY <1>3, <2>6 DEF Owns
  <2> QED BY <2>1, <2>2, <2>3, <2>4, <2>5, <2>6 DEF Moves
<1>5. \A u \in Threads : At(u, "fill")' => req'[u].fd # None
  <2>1. RequestsOK'
    BY RequestsMove
  <2> QED BY <2>1 DEF RequestsOK, At
<1>6. halted' \subseteq BusinessIds
  BY <1>1 DEF Records, HalfMade, TypeOK
<1> QED BY <1>4, <1>5, <1>6, MoveKeeps, NamesMove, FilesMove DEF TypeOK

LEMMA DirsMove ==
    ASSUME TypeOK, RequestsOK, FilesOK, DirsOK, CreatorsOK, NEW t \in Threads, Busy(t), Moves(t),
           UNCHANGED count
    PROVE  DirsOK'
<1> DEFINE r == req[t]
<1>1. /\ r.business \in BusinessIds /\ r.email \in Emails /\ r.op \in {"signup", "patch"}
      /\ r.op = "signup" => r.step \in SignupSteps
      /\ r.op = "patch" => r.step \in PatchSteps
  BY RequestType
<1>2. \A b \in BusinessIds : yaml[b] # None => yaml'[b] # None
  BY NamesMove
<1>3. dirs \subseteq dirs'
  BY DEF Moves, Stops, Passes, Makes, Reads, Opens, Fills, Puts, Owns, shared
<1>4. Shipped \subseteq dirs' /\ \A b \in Shipped : yaml'[b] # None
  BY <1>2, <1>3, ConstantsAssumption DEF DirsOK
<1>5. ASSUME NEW u \in Threads, Busy(u)'
      PROVE  /\ req'[u].step \notin {"check", "mkdir"} => req'[u].business \in dirs'
             /\ req'[u].op = "patch" => yaml'[req'[u].business] # None
  <2>1. /\ Busy(u) /\ req[u].business \in BusinessIds
        /\ req[u].op = "patch" => yaml[req[u].business] # None
        /\ req[u].step \notin {"check", "mkdir"} => req[u].business \in dirs
    BY <1>5, MoveKeeps, RequestType DEF DirsOK
  <2>2. req'[u].op = "patch" => yaml'[req'[u].business] # None
    BY <1>2, <1>5, <2>1, MoveKeeps
  <2>3. CASE u # t
    BY <1>3, <1>5, <2>1, <2>2, <2>3, MoveKeeps
  <2>4. CASE u = t
    <3>1. CASE Stops(t) \/ Passes(t)
      BY <1>5, <2>4, <3>1, <2>2 DEF Stops, Passes, Leaves, Goes
    <3>2. CASE Makes(t)
      BY <1>5, <2>4, <3>2, <2>2 DEF Makes, Goes
    <3>3. CASE Reads(t) \/ (\E file \in FileIds : Opens(t, file)) \/ Fills(t) \/ Puts(t) \/ Owns(t)
      <4>1. req[t].step \notin {"check", "mkdir"}
        BY <3>3 DEF Reads, Opens, Fills, Puts, Owns
      <4> QED BY <1>3, <1>5, <2>1, <2>2, <2>4, <4>1, MoveKeeps
    <3> QED BY <3>1, <3>2, <3>3 DEF Moves
  <2> QED BY <2>3, <2>4
<1>6. ASSUME NEW e \in Emails, users'[e] # None
      PROVE  users'[e].business \in dirs' /\ yaml'[users'[e].business] # None
  <2>1. CASE users'[e] = users[e]
    <3>1. users[e].business \in dirs /\ yaml[users[e].business] # None
          /\ users[e].business \in BusinessIds
      BY <1>6, <2>1 DEF DirsOK, TypeOK
    <3> QED BY <1>2, <1>3, <2>1, <3>1
  <2>2. CASE Owns(t)
    <3>1. r.business \in dirs /\ yaml[r.business] # None
      BY <1>1, <2>2 DEF Owns, CreatorsOK, Provisions, DirsOK, PatchSteps
    <3>2. users'[e] = users[e] \/ users'[e].business = r.business
      BY <1>1, <2>2 DEF Owns, TypeOK
    <3> QED BY <1>1, <1>2, <1>3, <2>1, <3>1, <3>2
  <2>3. CASE ~Owns(t)
    BY <2>1, <2>3 DEF Moves, Stops, Passes, Makes, Reads, Opens, Fills, Puts, shared
  <2> QED BY <2>2, <2>3
<1> QED BY <1>4, <1>5, <1>6 DEF DirsOK, Busy

LEMMA CreatorsMove ==
    ASSUME TypeOK, RequestsOK, FilesOK, DirsOK, CreatorsOK, NEW t \in Threads, Busy(t), Moves(t),
           UNCHANGED count
    PROVE  CreatorsOK'
<1> DEFINE r == req[t]
<1>1. /\ r.business \in BusinessIds /\ r.email \in Emails /\ r.op \in {"signup", "patch"}
      /\ r.op = "signup" => r.step \in SignupSteps
      /\ r.op = "patch" => r.step \in PatchSteps
  BY RequestType
<1> SUFFICES ASSUME NEW u \in Threads, Provisions(u)'
    PROVE  /\ req'[u].business \notin Shipped
           /\ req'[u].step = "owner" => yaml'[req'[u].business] # None
           /\ req'[u].step \in {"fill", "replace"} => tmp'[req'[u].business] # None
           /\ \A v \in Threads : Busy(v)' /\ req'[v].business = req'[u].business =>
                 v = u \/ req'[v].step \in {"check", "mkdir"}
           /\ \A e \in Emails : users'[e] # None => users'[e].business # req'[u].business
  BY DEF CreatorsOK, Busy, Provisions
<1> DEFINE b == req[u].business
<1>2. /\ Busy(u) /\ Busy(u)' /\ b \in BusinessIds /\ req'[u].business = b /\ req[u].op = "signup"
      /\ req'[u].step \in {"open", "fill", "replace", "owner"}
  BY MoveKeeps, RequestType DEF Provisions, Busy
<1>3. CASE u # t
  <2>1. Provisions(u) /\ req'[u] = req[u] /\ b \in dirs
    BY <1>2, <1>3, MoveKeeps DEF Provisions, Busy, DirsOK
  <2>2. CASE r.business # b
    <3>1. yaml'[b] = yaml[b] /\ tmp'[b] = tmp[b]
      BY <1>2, <2>2, NamesMove
    <3>2. \A e \in Emails : users'[e] # None => users'[e].business # b
      <4>1. CASE Owns(t)
        BY <1>1, <2>1, <2>2, <4>1 DEF Owns, CreatorsOK, TypeOK
      <4>2. CASE ~Owns(t)
        BY <2>1, <4>2 DEF Moves, Stops, Passes, Makes, Reads, Opens, Fills, Puts, shared, CreatorsOK
      <4> QED BY <4>1, <4>2
    <3>3. \A v \in Threads : Busy(v)' /\ req'[v].business = b =>
              v = u \/ req'[v].step \in {"check", "mkdir"}
      BY <2>1, <2>2, MoveKeeps DEF CreatorsOK
    <3> QED BY <2>1, <3>1, <3>2, <3>3 DEF CreatorsOK
  <2>3. CASE r.business = b
    <3>1. r.step \in {"check", "mkdir"} /\ b \in dirs
      BY <1>3, <2>1, <2>3 DEF CreatorsOK
    <3>2. Stops(t)
      BY <3>1, <2>3 DEF Moves, Passes, Makes, Reads, Opens, Fills, Puts, Owns
    <3> QED BY <1>2, <1>3, <2>1, <3>2, MoveKeeps DEF Stops, Leaves, shared, files, CreatorsOK
  <2> QED BY <2>2, <2>3
<1>4. CASE u = t
  <2>1. CASE Makes(t)
    <3>1. r.business \notin dirs /\ req'[t].step = "open" /\ UNCHANGED <<yaml, tmp, users>>
      BY <2>1 DEF Makes, Goes, files
    <3>2. \A v \in Threads : Busy(v)' /\ req'[v].business = b => v = t \/ req'[v].step \in {"check", "mkdir"}
      BY <1>4, <3>1, MoveKeeps DEF DirsOK
    <3> QED BY <1>2, <1>4, <3>1, <3>2 DEF DirsOK
  <2>2. CASE ~Makes(t)
    <3>1. ~Stops(t) /\ ~Passes(t) /\ ~Reads(t) /\ ~Owns(t)
      BY <1>1, <1>2, <1>4 DEF Stops, Passes, Reads, Owns, Leaves, Goes, SignupSteps
    <3>2. Provisions(t) /\ UNCHANGED users
      BY <1>2, <1>4, <2>2, <3>1 DEF Moves, Opens, Fills, Puts, Provisions
    <3>3. \A v \in Threads : Busy(v)' /\ req'[v].business = b => v = t \/ req'[v].step \in {"check", "mkdir"}
      BY <1>4, <3>2, MoveKeeps DEF CreatorsOK
    <3>4. ASSUME NEW file \in FileIds, Opens(t, file)
          PROVE  tmp'[b] # None /\ req'[t].step = "fill"
      BY <1>2, <1>4, <3>4, NullsAssumption DEF Opens, Goes, TypeOK
    <3>5. CASE Fills(t)
      BY <1>2, <1>4, <3>2, <3>3, <3>5 DEF Fills, CreatorsOK, Goes
    <3>6. CASE Puts(t)
      BY <1>2, <1>4, <3>2, <3>3, <3>6 DEF Puts, CreatorsOK, Goes, TypeOK
    <3>7. CASE \E file \in FileIds : Opens(t, file)
      BY <1>2, <1>4, <3>2, <3>3, <3>4, <3>7 DEF CreatorsOK
    <3> QED BY <2>2, <3>1, <3>5, <3>6, <3>7 DEF Moves
  <2> QED BY <2>1, <2>2
<1> QED BY <1>3, <1>4

LEMMA OwnersMove ==
    ASSUME TypeOK, RequestsOK, MeetingsOK, DirsOK, CreatorsOK, OwnersOK,
           NEW t \in Threads, Busy(t), Moves(t), UNCHANGED met
    PROVE  OwnersOK'
<1> DEFINE r == req[t]
<1>1. /\ r.business \in BusinessIds /\ r.email \in Emails /\ r.op \in {"signup", "patch"}
      /\ r.op = "signup" => r.step \in SignupSteps
      /\ r.op = "patch" => r.step \in PatchSteps
  BY RequestType
<1>2. /\ users \in [Emails -> Accounts \union {None}] /\ \A a \in Accounts : a # None
      /\ OwnerEmail \in [Shipped -> Emails \union {None}] /\ None \notin Emails
  BY ConstantsAssumption, NullsAssumption DEF TypeOK
<1>3. CASE Owns(t)
  <2>1. Provisions(t) /\ r.op = "signup" /\ r.step = "owner" /\ r.business \notin Shipped
        /\ \A e \in Emails : users[e] # None => users[e].business # r.business
    BY <1>1, <1>3 DEF Owns, Provisions, CreatorsOK, PatchSteps
  <2>2. /\ \A e \in Emails : e # r.email => users'[e] = users[e]
        /\ users'[r.email] = [business |-> r.business, signup |-> r.id]
        /\ users'[r.email].business = r.business
    BY <1>1, <1>2, <1>3 DEF Owns
  <2>3. \A b \in Shipped : OwnerEmail[b] # r.email
    BY <2>1 DEF OwnersOK
  <2>4. ASSUME NEW u \in Threads, Busy(u)', req'[u].op = "signup",
               req'[u].step \notin {"check", "audit"}
        PROVE  /\ users'[req'[u].email] = None \/ req'[u].email \in met
               /\ \A b \in Shipped : OwnerEmail[b] # req'[u].email
    <3>1. u # t
      BY <1>3, <2>4 DEF Owns, Goes
    <3>2. /\ Busy(u) /\ req'[u] = req[u] /\ req[u].email \in Emails
          /\ users[req[u].email] = None \/ req[u].email \in met
          /\ \A b \in Shipped : OwnerEmail[b] # req[u].email
      BY <2>4, <3>1, MoveKeeps, RequestType DEF OwnersOK
    <3>3. req[u].email = r.email => req[u].email \in met
      BY <2>1, <2>4, <3>1, <3>2 DEF MeetingsOK
    <3> QED BY <2>2, <3>2, <3>3
  <2>5. \A b \in Shipped : OwnerEmail[b] # None =>
          users'[OwnerEmail[b]] = [business |-> b, signup |-> 0]
    BY <1>2, <2>2, <2>3 DEF OwnersOK
  <2>6. \A e \in Emails : users'[e] # None /\ users'[e].business \in Shipped =>
          OwnerEmail[users'[e].business] = e
    BY <2>1, <2>2 DEF OwnersOK
  <2>7. \A e, f \in Emails :
          users'[e] # None /\ users'[f] # None /\ users'[e].business = users'[f].business => e = f
    BY <2>1, <2>2 DEF OwnersOK
  <2> QED BY <2>4, <2>5, <2>6, <2>7 DEF OwnersOK, Busy
<1>4. CASE ~Owns(t)
  <2>1. UNCHANGED users
    BY <1>4 DEF Moves, Stops, Passes, Makes, Reads, Opens, Fills, Puts, shared
  <2>2. ASSUME NEW u \in Threads, Busy(u)', req'[u].op = "signup",
               req'[u].step \notin {"check", "audit"}
        PROVE  /\ users[req'[u].email] = None \/ req'[u].email \in met
               /\ \A b \in Shipped : OwnerEmail[b] # req'[u].email
    <3>1. Busy(u) /\ req'[u].email = req[u].email /\ req[u].op = "signup"
      BY <2>2, MoveKeeps
    <3>2. CASE req[u].step \notin {"check", "audit"}
      BY <3>1, <3>2 DEF OwnersOK
    <3>3. CASE req[u].step \in {"check", "audit"}
      <4>1. u = t /\ Passes(t)
        BY <2>2, <3>1, <3>3, <1>4, MoveKeeps
           DEF Moves, Stops, Makes, Reads, Opens, Fills, Puts, Leaves
      <4>2. users[r.email] = None /\ \A b \in Shipped : OwnerEmail[b] # None =>
               users[OwnerEmail[b]] = [business |-> b, signup |-> 0]
        BY <4>1 DEF Passes, OwnersOK
      <4>3. \A b \in Shipped : [business |-> b, signup |-> 0] # None
        BY <1>2, ConstantsAssumption DEF Accounts
      <4> QED BY <1>1, <1>2, <3>1, <4>1, <4>2, <4>3
    <3> QED BY <3>2, <3>3
  <2> QED BY <2>1, <2>2 DEF OwnersOK, Busy
<1> QED BY <1>3, <1>4

(* What a step writes, and to which file. *)
LEMMA ContentsMove ==
    ASSUME TypeOK, RequestsOK, FilesOK, NEW t \in Threads, Busy(t), Moves(t), UNCHANGED count
    PROVE  /\ \A c \in BusinessIds : c # req[t].business /\ yaml[c] # None =>
                 contents'[yaml[c]] = contents[yaml[c]]
           /\ \A c \in BusinessIds : c # req[t].business => edited'[c] = edited[c]
           /\ \A c \in BusinessIds : c # req[t].business /\ tmp[c] # None =>
                 contents'[tmp[c]] = contents[tmp[c]]
<1> DEFINE r == req[t]
<1>1. r.business \in BusinessIds /\ r.id \in FileIds
  BY RequestType DEF FileIds
<1>2. CASE \E file \in FileIds : Opens(t, file)
  <2>1. PICK file \in FileIds : Opens(t, file)
    BY <1>2
  <2>2. FilesOK' /\ tmp'[r.business] = file /\ file # None /\ yaml' = yaml
    BY <1>1, <2>1, FilesMove, NullsAssumption DEF Opens, TypeOK
  <2>3. \A c \in BusinessIds : c # r.business /\ yaml[c] # None => yaml[c] # file
    BY <1>1, <2>2 DEF FilesOK
  <2>4. \A c \in BusinessIds : c # r.business /\ tmp[c] # None => tmp[c] # file
    BY <1>1, <2>2, NamesMove DEF FilesOK
  <2> QED BY <2>1, <2>3, <2>4 DEF Opens, TypeOK
<1>3. CASE Fills(t)
  <2>1. r.fd # None
    BY <1>3, NullsAssumption DEF Fills
  <2>2. \A c \in BusinessIds : c # r.business => yaml[c] # r.fd /\ tmp[c] # r.fd
    BY <2>1 DEF FilesOK
  <2> QED BY <1>3, <2>2 DEF Fills, TypeOK
<1>4. CASE Stops(t) \/ Passes(t) \/ Makes(t) \/ Reads(t) \/ Puts(t) \/ Owns(t)
  BY <1>1, <1>4 DEF Stops, Passes, Makes, Reads, Puts, Owns, shared, files, TypeOK
<1> QED BY <1>2, <1>3, <1>4 DEF Moves
LEMMA EditsMove ==
    ASSUME TypeOK, RequestsOK, FilesOK, MeetingsOK, DirsOK, CreatorsOK, EditsOK,
           NEW t \in Threads, Busy(t), Moves(t), UNCHANGED <<count, met>>
    PROVE  EditsOK'
<1> DEFINE r == req[t]
           d == r.business
<1>1. /\ d \in BusinessIds /\ r.field \in Fields /\ r.op \in {"signup", "patch"}
      /\ r.op = "signup" => r.step \in SignupSteps
      /\ r.op = "patch" => r.step \in PatchSteps
  BY RequestType
<1>2. FilesOK' /\ \A b \in BusinessIds : yaml'[b] # None => yaml'[b] # tmp'[b]
  BY FilesMove
(* The Businesses and the requests that t's step is not about. *)
<1>3. ASSUME NEW b \in BusinessIds \ met, b # d, yaml'[b] # None
      PROVE  contents'[yaml'[b]] = edited'[b]
  <2>1. yaml'[b] = yaml[b]
    BY <1>3, NamesMove
  <2> QED BY <1>3, <2>1, ContentsMove DEF EditsOK, FileIsAsEdited
<1>4. ASSUME NEW u \in Threads, Busy(u)', req'[u].business \notin met, u # t
      PROVE  /\ req'[u].step \in {"open", "fill", "replace"} => req'[u].config = EditedBy(req[u])'
             /\ req'[u].step \in {"fill", "replace"} => tmp'[req'[u].business] = req'[u].fd
             /\ req'[u].step = "replace" => contents'[req'[u].fd] = req'[u].config
  <2>1. /\ Busy(u) /\ req'[u] = req[u] /\ req[u].business # d /\ req[u].business \in BusinessIds
        /\ req[u].business \notin met
    BY <1>4, MoveKeeps, RequestType DEF MeetingsOK
  <2>2. edited'[req[u].business] = edited[req[u].business]
    BY <2>1, ContentsMove
  <2>3. tmp'[req[u].business] = tmp[req[u].business]
    BY <2>1, NamesMove
  <2>4. /\ req[u].step \in {"open", "fill", "replace"} => req[u].config = EditedBy(req[u])
        /\ req[u].step \in {"fill", "replace"} =>
              tmp[req[u].business] = req[u].fd /\ req[u].fd # None
        /\ req[u].step = "replace" => contents[req[u].fd] = req[u].config
    BY <2>1 DEF EditsOK, RequestsOK
  <2>5. req[u].step = "replace" => contents'[req[u].fd] = contents[req[u].fd]
    BY <2>1, <2>4, ContentsMove
  <2>6. EditedBy(req[u])' = EditedBy(req[u])
    BY <2>1, <2>2 DEF EditedBy
  <2> QED BY <2>1, <2>3, <2>4, <2>5, <2>6
(* Its own, when no other request met it. *)
<1>5. CASE d \notin met
  <2>1. /\ yaml[d] # None => contents[yaml[d]] = edited[d]
        /\ r.step \in {"open", "fill", "replace"} => r.config = EditedBy(r)
        /\ r.step \in {"fill", "replace"} => tmp[d] = r.fd
        /\ r.step = "replace" => contents[r.fd] = r.config
        /\ yaml[d] # None => yaml[d] # tmp[d]
        /\ r.fd = None <=> r.step \in {"check", "mkdir", "load", "open"}
    BY <1>1, <1>5 DEF EditsOK, FileIsAsEdited, RequestsOK, TypeOK
  <2> DEFINE Mine == /\ yaml'[d] # None => contents'[yaml'[d]] = edited'[d]
                     /\ Busy(t)' =>
                        /\ req'[t].step \in {"open", "fill", "replace"} =>
                              req'[t].config = EditedBy(req[t])'
                        /\ req'[t].step \in {"fill", "replace"} => tmp'[d] = req'[t].fd
                        /\ req'[t].step = "replace" => contents'[req'[t].fd] = req'[t].config
  <2>2. ASSUME Busy(t)', edited' = edited PROVE EditedBy(req[t])' = EditedBy(r)
    <3>1. /\ req'[t].op = r.op /\ req'[t].business = d /\ req'[t].id = r.id
          /\ req'[t].field = r.field
      BY <2>2 DEF Moves, Stops, Passes, Makes, Reads, Opens, Fills, Puts, Owns, Goes, Leaves
    <3> QED BY <2>2, <3>1 DEF EditedBy, Merged
  <2>3. ASSUME Stops(t) \/ Passes(t) \/ Owns(t) PROVE Mine
    BY <2>1, <2>3 DEF Stops, Passes, Owns, shared, files, Leaves, Goes
  <2>4. ASSUME Makes(t) PROVE Mine
    <3>1. r.op = "signup" /\ r.config = Default
      BY <1>1, <2>4 DEF Makes, RequestsOK, PatchSteps
    <3> QED BY <2>1, <2>2, <2>4, <3>1 DEF Makes, files, Goes, EditedBy
  <2>5. ASSUME Reads(t) PROVE Mine
    <3>1. r.op = "patch" /\ yaml[d] # None
      BY <1>1, <2>5 DEF Reads, DirsOK, SignupSteps
    <3> QED BY <2>1, <2>2, <2>5, <3>1 DEF Reads, shared, files, Goes, EditedBy
  <2>6. ASSUME (\E file \in FileIds : Opens(t, file)) PROVE Mine
    <3>1. PICK file \in FileIds : Opens(t, file)
      BY <2>6
    <3>2. yaml'[d] = yaml[d] /\ tmp'[d] = file /\ (yaml[d] # None => yaml[d] # file)
      BY <1>1, <1>2, <3>1 DEF Opens, TypeOK
    <3>3. yaml[d] # None => contents'[yaml[d]] = contents[yaml[d]]
      BY <1>1, <3>1, <3>2 DEF Opens, TypeOK
    <3> QED BY <2>1, <2>2, <3>1, <3>2, <3>3 DEF Opens, Goes
  <2>7. ASSUME Fills(t) PROVE Mine
    <3>1. yaml[d] # None => yaml[d] # r.fd
      BY <2>1, <2>7 DEF Fills
    <3>2. /\ contents'[r.fd] = r.config
          /\ yaml[d] # None => contents'[yaml[d]] = contents[yaml[d]]
      BY <1>1, <2>7, <3>1 DEF Fills, TypeOK
    <3> QED BY <2>1, <2>2, <2>7, <3>2 DEF Fills, Goes
  <2>8. ASSUME Puts(t) PROVE Mine
    <3>1. yaml'[d] = r.fd /\ contents' = contents /\ edited'[d] = EditedBy(r)
      BY <1>1, <2>1, <2>8 DEF Puts, TypeOK
    <3> QED BY <2>1, <2>8, <3>1 DEF Puts, Goes
  <2>9. Mine
    BY <2>3, <2>4, <2>5, <2>6, <2>7, <2>8 DEF Moves
  <2> HIDE DEF Mine
  <2>10. FileIsAsEdited'
    BY <1>3, <2>9 DEF FileIsAsEdited, Mine
  <2>11. ASSUME NEW u \in Threads, Busy(u)', req'[u].business \notin met
         PROVE  /\ req'[u].step \in {"open", "fill", "replace"} => req'[u].config = EditedBy(req[u])'
                /\ req'[u].step \in {"fill", "replace"} => tmp'[req'[u].business] = req'[u].fd
                /\ req'[u].step = "replace" => contents'[req'[u].fd] = req'[u].config
    BY <1>4, <2>9, <2>11, MoveKeeps DEF Mine
  <2> QED BY <2>10, <2>11 DEF EditsOK, Busy
<1>6. CASE d \in met
  <2>1. FileIsAsEdited'
    BY <1>3, <1>6 DEF FileIsAsEdited
  <2>2. ASSUME NEW u \in Threads, Busy(u)', req'[u].business \notin met
        PROVE  /\ req'[u].step \in {"open", "fill", "replace"} => req'[u].config = EditedBy(req[u])'
               /\ req'[u].step \in {"fill", "replace"} => tmp'[req'[u].business] = req'[u].fd
               /\ req'[u].step = "replace" => contents'[req'[u].fd] = req'[u].config
    <3>1. u # t
      BY <1>6, <2>2, MoveKeeps
    <3> QED BY <1>4, <2>2, <3>1
  <2> QED BY <2>1, <2>2 DEF EditsOK, Busy
<1> QED BY <1>5, <1>6

LEMMA BrokenMove ==
    ASSUME TypeOK, RequestsOK, FilesOK, CreatorsOK, BrokenOK, DirsOK,
           NEW t \in Threads, Busy(t), Moves(t), UNCHANGED count
    PROVE  BrokenOK'
<1> DEFINE r == req[t]
           d == r.business
<1>1. /\ d \in BusinessIds /\ r.op \in {"signup", "patch"} /\ r.field \in Fields /\ r.id \in Ids
      /\ r.op = "signup" => r.step \in SignupSteps
      /\ r.op = "patch" => r.step \in PatchSteps
  BY RequestType
<1>2. ASSUME NEW b \in BusinessIds, edited'[b] \notin Configs
      PROVE  edited[b] \notin Configs /\ (b = d => Stops(t) \/ Passes(t) \/ Owns(t))
  <2>1. CASE b # d
    BY <1>2, <2>1, ContentsMove
  <2>2. CASE b = d
    <3>1. ~Puts(t)
      <4>1. ASSUME Puts(t) PROVE edited'[d] \in Configs
        <5>1. edited[d] \in Configs
          BY <1>1, <4>1 DEF Puts, BrokenOK
        <5>2. EditedBy(r) \in Configs
          BY <1>1, <5>1 DEF EditedBy, Merged, Configs, Default
        <5> QED BY <1>1, <4>1, <5>2 DEF Puts, TypeOK
      <4> QED BY <1>2, <2>2, <4>1
    <3>2. edited'[b] = edited[b]
      BY <3>1 DEF Moves, Stops, Passes, Makes, Reads, Opens, Fills, Owns, shared
    <3>3. d \in Shipped /\ contents[yaml[d]] \notin Configs /\ r.step \notin {"open", "fill", "replace"}
      BY <1>1, <1>2, <2>2, <3>2 DEF BrokenOK
    <3> QED BY <1>2, <2>2, <3>1, <3>2, <3>3 DEF Moves, Makes, Reads, Opens, Fills, DirsOK
  <2> QED BY <2>1, <2>2
<1>3. ASSUME NEW b \in BusinessIds, edited'[b] \notin Configs
      PROVE  /\ b \in Shipped /\ contents'[yaml'[b]] \notin Configs
             /\ \A u \in Threads : Busy(u)' /\ req'[u].business = b =>
                   req'[u].step \notin {"open", "fill", "replace"}
  <2>1. /\ b \in Shipped /\ contents[yaml[b]] \notin Configs /\ yaml[b] # None
        /\ \A u \in Threads : Busy(u) /\ req[u].business = b =>
              req[u].step \notin {"open", "fill", "replace"}
    BY <1>2, <1>3 DEF BrokenOK, DirsOK
  <2>2. yaml'[b] = yaml[b] /\ contents'[yaml[b]] = contents[yaml[b]]
    <3>1. CASE b # d
      BY <2>1, <3>1, NamesMove, ContentsMove
    <3>2. CASE b = d
      BY <1>2, <1>3, <3>2 DEF Stops, Passes, Owns, shared, files
    <3> QED BY <3>1, <3>2
  <2>3. \A u \in Threads : Busy(u)' /\ req'[u].business = b =>
                   req'[u].step \notin {"open", "fill", "replace"}
    BY <1>2, <1>3, <2>1, MoveKeeps DEF Stops, Passes, Owns, Leaves, Goes
  <2> QED BY <2>1, <2>2, <2>3
<1> QED BY <1>3 DEF BrokenOK, Busy

LEMMA WholeMove ==
    ASSUME TypeOK, RequestsOK, FilesOK, DirsOK, CreatorsOK, OwnersOK, WholeOK,
           NEW t \in Threads, Busy(t), Moves(t), Records(t), UNCHANGED <<count, crashes, met>>
    PROVE  WholeOK'
<1> DEFINE r == req[t]
           d == r.business
<1>1. /\ d \in BusinessIds /\ r.email \in Emails /\ r.op \in {"signup", "patch"}
      /\ r.op = "signup" => r.step \in SignupSteps
      /\ r.op = "patch" => r.step \in PatchSteps
  BY RequestType
<1>2. \A b \in BusinessIds : yaml[b] # None => yaml'[b] # None
  BY NamesMove
<1> SUFFICES ASSUME NEW b \in dirs', b \notin halted', b \in Shipped => OwnerEmail[b] # None,
                    ~ \E u \in Threads : Provisions(u)' /\ req'[u].business = b
             PROVE  /\ yaml'[b] # None
                    /\ (met \intersect Emails = {}) =>
                          \E e \in Emails : users'[e] # None /\ users'[e].business = b
  BY DEF WholeOK, Provisions, Busy
<1>3. CASE Provisions(t) /\ d = b
  <2>1. ~Provisions(t)'
    BY <1>3, MoveKeeps DEF Provisions
  <2>2. Owns(t)
    <3>1. ~Stops(t)
      <4>1. r.step = "replace" => tmp[d] # None
        BY <1>3 DEF CreatorsOK
      <4> QED BY <1>3, <4>1 DEF Provisions, Records, HalfMade
    <3> QED BY <1>3, <2>1, <3>1, MoveKeeps DEF Provisions, Moves, Passes, Makes, Reads, Opens, Fills, Puts, Goes
  <2>3. yaml[b] # None
    BY <1>3, <2>2 DEF CreatorsOK, Owns
  <2>4. users'[r.email] = [business |-> b, signup |-> r.id] /\ users'[r.email].business = b
    BY <1>1, <1>3, <2>2 DEF Owns, TypeOK
  <2>5. [business |-> b, signup |-> r.id] # None
    BY <1>1, <1>3, RequestType, NullsAssumption DEF Accounts
  <2> QED BY <1>1, <1>2, <1>3, <2>3, <2>4, <2>5
<1>4. CASE ~(Provisions(t) /\ d = b)
  <2>1. b \in dirs
    <3>1. CASE Makes(t)
      <4>1. r.op = "signup" /\ Busy(t)' /\ req'[t].step = "open" /\ req'[t].op = r.op /\ req'[t].business = d
        BY <1>1, <3>1 DEF Makes, Goes, PatchSteps
      <4>2. b # d
        BY <4>1 DEF Provisions, Busy
      <4> QED BY <3>1, <4>2 DEF Makes
    <3>2. CASE ~Makes(t)
      BY <3>2 DEF Moves, Stops, Passes, Reads, Opens, Fills, Puts, Owns, shared
    <3> QED BY <3>1, <3>2
  <2>2. ASSUME NEW u \in Threads, Provisions(u), req[u].business = b PROVE FALSE
    <3>1. u # t
      BY <1>4, <2>2
    <3> QED BY <2>2, <3>1, MoveKeeps DEF Provisions, Busy
  <2>3. /\ yaml[b] # None
        /\ (met \intersect Emails = {}) =>
              \E e \in Emails : users[e] # None /\ users[e].business = b
    BY <2>1, <2>2 DEF WholeOK, Records
  <2>4. b \in BusinessIds
    BY <2>1 DEF TypeOK
  <2>5. ASSUME met \intersect Emails = {}, NEW e \in Emails, users[e] # None PROVE users'[e] = users[e]
    <3>1. CASE Owns(t)
      <4>1. users[r.email] = None
        BY <1>1, <2>5, <3>1 DEF OwnersOK, Owns, PatchSteps
      <4> QED BY <2>5, <3>1, <4>1 DEF Owns, TypeOK
    <3>2. CASE ~Owns(t)
      BY <3>2 DEF Moves, Stops, Passes, Makes, Reads, Opens, Fills, Puts, shared
    <3> QED BY <3>1, <3>2
  <2> QED BY <1>2, <2>3, <2>4, <2>5
<1> QED BY <1>3, <1>4

LEMMA HalvesMove ==
    ASSUME TypeOK, DirsOK, CreatorsOK, HalvesOK, NEW t \in Threads, Busy(t), Moves(t), Records(t)
    PROVE  HalvesOK'
<1> DEFINE r == req[t]
<1>1. /\ r.business \in BusinessIds /\ r.email \in Emails /\ r.op \in {"signup", "patch"}
      /\ r.op = "signup" => r.step \in SignupSteps
      /\ r.op = "patch" => r.step \in PatchSteps
  BY RequestType
<1>2. dirs \subseteq dirs'
  BY DEF Moves, Stops, Passes, Makes, Reads, Opens, Fills, Puts, Owns, shared
<1>3. \A u \in Threads : Provisions(u)' =>
          /\ req'[u].business = req[u].business
          /\ Provisions(u) \/ (u = t /\ req[t].business \notin dirs)
  <2> SUFFICES ASSUME NEW u \in Threads, Provisions(u)'
               PROVE  /\ req'[u].business = req[u].business
                      /\ Provisions(u) \/ (u = t /\ req[t].business \notin dirs)
    OBVIOUS
  <2>1. /\ Busy(u) /\ Busy(u)' /\ req'[u].business = req[u].business /\ req[u].op = "signup"
        /\ u # t => req'[u] = req[u]
    BY MoveKeeps DEF Provisions, Busy
  <2>2. CASE u # t
    BY <2>1, <2>2 DEF Provisions, Busy
  <2>3. CASE u = t
    <3>1. r.op = "signup" /\ r.step # "load" /\ req'[t].step \in Halfway
      BY <1>1, <2>1, <2>3 DEF Provisions, PatchSteps, SignupSteps
    <3>2. ~Stops(t) /\ ~Reads(t) /\ ~Passes(t) /\ ~Owns(t)
      BY <2>1, <2>3, <3>1 DEF Stops, Leaves, Reads, Passes, Owns, Goes
    <3>3. Makes(t) \/ (\E file \in FileIds : Opens(t, file)) \/ Fills(t) \/ Puts(t)
      BY <3>2 DEF Moves
    <3>4. Makes(t) => req[t].business \notin dirs
      BY DEF Makes
    <3>5. (\E file \in FileIds : Opens(t, file)) \/ Fills(t) \/ Puts(t) => r.step \in Halfway
      BY DEF Opens, Fills, Puts
    <3> QED BY <2>1, <2>3, <3>1, <3>3, <3>4, <3>5 DEF Provisions
  <2> QED BY <2>2, <2>3
<1>4. CASE halted' = halted
  <2>1. \A u \in Threads : Provisions(u)' => req'[u].business \notin halted
    BY <1>3 DEF HalvesOK
  <2>2. ASSUME NEW e \in Emails, users'[e] # None PROVE users'[e].business \notin halted
    <3>1. CASE Owns(t)
      <4>1. Provisions(t)
        BY <1>1, <3>1 DEF Owns, Provisions, PatchSteps
      <4>2. users'[e] = users[e] \/ users'[e].business = r.business
        BY <1>1, <3>1 DEF Owns, TypeOK
      <4> QED BY <2>2, <4>1, <4>2 DEF HalvesOK
    <3>2. CASE ~Owns(t)
      <4>1. users' = users
        BY <3>2 DEF Moves, Stops, Passes, Makes, Reads, Opens, Fills, Puts, shared
      <4> QED BY <2>2, <4>1 DEF HalvesOK
    <3> QED BY <3>1, <3>2
  <2> QED BY <1>2, <1>4, <2>1, <2>2 DEF HalvesOK, Provisions, Busy
<1>5. CASE halted' = halted \union HalfMade({t}) /\ Stops(t)
  <2>1. users' = users /\ ~Busy(t)'
    BY <1>5 DEF Stops, shared, Leaves
  <2>2. CASE ~Provisions(t)
    BY <1>2, <1>3, <1>5, <2>1, <2>2 DEF HalfMade, HalvesOK, Provisions, Busy
  <2>3. CASE Provisions(t)
    <3>1. halted' = halted \union {r.business} /\ r.business \in dirs
      BY <1>5, <2>3 DEF HalfMade, DirsOK, Provisions
    <3>2. \A e \in Emails : users[e] # None => users[e].business # r.business
      BY <2>3 DEF CreatorsOK
    <3>3. ASSUME NEW u \in Threads, Provisions(u)' PROVE req'[u].business \notin halted'
      <4>1. u # t
        BY <2>1, <3>3 DEF Provisions, Busy
      <4>2. Provisions(u) /\ req'[u].business = req[u].business
        BY <1>3, <3>3, <4>1
      <4>3. req[u].business # r.business
        BY <2>3, <4>1, <4>2 DEF CreatorsOK, Provisions
      <4> QED BY <3>1, <4>2, <4>3 DEF HalvesOK
    <3> QED BY <1>2, <2>1, <3>1, <3>2, <3>3 DEF HalvesOK, Provisions, Busy
  <2> QED BY <2>2, <2>3
<1> QED BY <1>4, <1>5 DEF Records

-------------------------------------------------------------------------------
(* A request arrives: a number of its own, nothing open, and those it meets. *)
Enters(t, r) ==
    /\ ~Busy(t) /\ r \in Signups \union Patches
    /\ count < MaxRequests /\ count' = count + 1
    /\ req' = [req EXCEPT ![t] = r]
    /\ r.id = count + 1 /\ r.fd = None /\ r.config = Default
    /\ \/ r.op = "signup" /\ r.step = "check"
       \/ /\ r.op = "patch" /\ r.step = "load" /\ r.business \in dirs /\ yaml[r.business] # None
          /\ \E e \in Emails : users[e] # None /\ users[e].business = r.business
    /\ met \subseteq met' /\ met' \subseteq BusinessIds \union Emails
    /\ \A u \in Threads : Busy(u) =>
          /\ req[u].business = r.business => r.business \in met'
          /\ req[u].op = "signup" /\ r.op = "signup" /\ req[u].email = r.email => r.email \in met'
    /\ UNCHANGED <<shared, crashes, halted>>

LEMMA PostEnters ==
    ASSUME TypeOK, DirsOK, NEW t \in Threads,
           \/ \E b \in BusinessIds, e \in Emails : PostSignup(t, b, e)
           \/ \E e \in Emails, f \in Fields : PostPatch(t, e, f)
    PROVE  \E r : Enters(t, r)
<1>1. AnyField \in Fields /\ Default \in Configs
  BY ConstantsAssumption DEF AnyField, Default, Configs
<1>2. count < MaxRequests => count + 1 \in Ids
  BY ConstantsAssumption DEF TypeOK, Ids
<1>3. CASE \E b \in BusinessIds, e \in Emails : PostSignup(t, b, e)
  <2>1. PICK b \in BusinessIds, e \in Emails : PostSignup(t, b, e)
    BY <1>3
  <2> DEFINE r == [id |-> count + 1, op |-> "signup", business |-> b, email |-> e,
                   field |-> AnyField, config |-> Default, fd |-> None, step |-> "check"]
  <2>2. Enter(t, r)
    BY <2>1 DEF PostSignup
  <2>3. r \in Signups
    BY <1>1, <1>2, <2>2 DEF Enter, Signups, SignupSteps
  <2>4. /\ r.id = count + 1 /\ r.fd = None /\ r.config = Default /\ r.op = "signup"
        /\ r.step = "check" /\ r.business \in BusinessIds /\ r.email \in Emails
    OBVIOUS
  <2> HIDE DEF r
  <2> QED BY <2>2, <2>3, <2>4 DEF Enter, Enters, shared, files, TypeOK
<1>4. CASE \E e \in Emails, f \in Fields : PostPatch(t, e, f)
  <2>1. PICK e \in Emails, f \in Fields : PostPatch(t, e, f)
    BY <1>4
  <2> DEFINE r == [id |-> count + 1, op |-> "patch", business |-> users[e].business,
                   email |-> e, field |-> f, config |-> Default, fd |-> None, step |-> "load"]
  <2>2. Enter(t, r) /\ users[e] # None
    BY <2>1 DEF PostPatch
  <2>3. users[e].business \in dirs /\ yaml[users[e].business] # None
        /\ users[e].business \in BusinessIds
    BY <2>2 DEF DirsOK, TypeOK
  <2>4. r \in Patches
    BY <1>1, <1>2, <2>2, <2>3 DEF Enter, Patches, PatchSteps
  <2>5. /\ r.id = count + 1 /\ r.fd = None /\ r.config = Default /\ r.op = "patch"
        /\ r.step = "load" /\ r.business = users[e].business /\ r.email \in Emails
    OBVIOUS
  <2> HIDE DEF r
  <2> QED BY <2>2, <2>3, <2>4, <2>5 DEF Enter, Enters, shared, files, TypeOK
<1> QED BY <1>3, <1>4

(* The others keep their requests, and the new one has all to do.            *)
LEMMA EnterKeeps ==
    ASSUME TypeOK, NEW t \in Threads, NEW r, Enters(t, r)
    PROVE  /\ req' \in [Threads -> Signups \union Patches \union {NoRequest}]
           /\ \A u \in Threads : Busy(u)' => \/ u = t /\ req'[u] = r
                                             \/ u # t /\ Busy(u) /\ req'[u] = req[u]
           /\ \A u \in Threads : Busy(u) => Busy(u)' /\ req'[u] = req[u]
           /\ r \in Signups \union Patches /\ r.step \in {"check", "load"} /\ r.fd = None
           /\ r.config = Default /\ r.id = count + 1 /\ r.id \in Ids /\ count' = count + 1
           /\ r.business \in BusinessIds /\ r.op \in {"signup", "patch"}
           /\ r.op = "signup" => r.step = "check"
           /\ r.op = "patch" => /\ r.step = "load" /\ r.business \in dirs
                                /\ yaml[r.business] # None
           /\ yaml' = yaml /\ tmp' = tmp /\ contents' = contents /\ dirs' = dirs
           /\ users' = users /\ edited' = edited /\ crashes' = crashes /\ met \subseteq met'
           /\ halted' = halted
<1>1. /\ r \in Signups \union Patches /\ r # NoRequest /\ req' = [req EXCEPT ![t] = r] /\ ~Busy(t)
      /\ UNCHANGED <<shared, crashes, halted>>
  BY NullsAssumption DEF Enters
<1>2. /\ r.id \in Ids /\ r.business \in BusinessIds /\ r.op \in {"signup", "patch"}
  BY <1>1 DEF Signups, Patches
<1>3. /\ req' \in [Threads -> Signups \union Patches \union {NoRequest}] /\ req'[t] = r
      /\ \A u \in Threads : u # t => req'[u] = req[u]
  BY <1>1 DEF TypeOK
<1>4. /\ \A u \in Threads : Busy(u)' => \/ u = t /\ req'[u] = r
                                        \/ u # t /\ Busy(u) /\ req'[u] = req[u]
      /\ \A u \in Threads : Busy(u) => Busy(u)' /\ req'[u] = req[u]
  BY <1>1, <1>3 DEF Busy
<1>5. /\ r.step \in {"check", "load"} /\ r.fd = None /\ r.config = Default /\ r.id = count + 1
      /\ count' = count + 1 /\ met \subseteq met'
      /\ r.op = "signup" => r.step = "check"
      /\ r.op = "patch" => r.step = "load" /\ r.business \in dirs /\ yaml[r.business] # None
  BY DEF Enters
<1> QED BY <1>1, <1>2, <1>3, <1>4, <1>5 DEF shared, files

LEMMA EnterInv ==
    ASSUME Inv, NEW t \in Threads, NEW r, Enters(t, r)
    PROVE  Inv'
<1>1. TypeOK /\ RequestsOK /\ FilesOK /\ MeetingsOK /\ DirsOK
      /\ CreatorsOK /\ OwnersOK /\ EditsOK /\ BrokenOK /\ WholeOK /\ HalvesOK /\ count \in Nat
  BY DEF Inv, TypeOK
<1>2. TypeOK'
  <2>1. \A u \in Threads : At(u, "fill")' => req'[u].fd # None
    BY <1>1, EnterKeeps DEF At, TypeOK
  <2>2. count' \in 0..MaxRequests /\ met' \subseteq BusinessIds \union Emails
    BY <1>1, ConstantsAssumption DEF Enters, TypeOK
  <2> QED BY <1>1, <2>1, <2>2, EnterKeeps DEF TypeOK
<1>3. RequestsOK'
  <2>1. ASSUME NEW u \in Threads, Busy(u)'
        PROVE  /\ req'[u].id \in 1..count'
               /\ req'[u].op = "signup" => req'[u].config = Default
               /\ req'[u].fd = None <=> req'[u].step \in {"check", "mkdir", "load", "open"}
    BY <1>1, <2>1, EnterKeeps DEF RequestsOK
  <2>2. ASSUME NEW u \in Threads, NEW v \in Threads, Busy(u)', Busy(v)', req'[u].id = req'[v].id
        PROVE  u = v
    BY <1>1, <2>2, EnterKeeps DEF RequestsOK
  <2> QED BY <2>1, <2>2 DEF RequestsOK, Busy
<1>4. FilesOK'
  <2> DEFINE FreshNext(i) == /\ \A c \in BusinessIds : yaml'[c] # i /\ tmp'[c] # i
                             /\ \A u \in Threads : Busy(u)' => req'[u].fd # i
  <2>1. ASSUME NEW i \in Ids, Fresh(i) PROVE FreshNext(i)
    BY <1>1, <2>1, EnterKeeps, NullsAssumption DEF Fresh, FileIds
  <2>2. ASSUME NEW i \in Ids, i > count' PROVE FreshNext(i)
    BY <1>1, <2>1, <2>2, EnterKeeps DEF FilesOK, Ids
  <2>3. ASSUME NEW u \in Threads, Busy(u)', req'[u].fd = None PROVE FreshNext(req'[u].id)
    <3>1. CASE u = t
      <4>1. r.id \in Ids /\ r.id > count /\ req'[u].id = r.id
        BY <1>1, <2>3, <3>1, EnterKeeps
      <4> QED BY <1>1, <2>1, <4>1 DEF FilesOK
    <3>2. CASE u # t
      <4>1. Busy(u) /\ req'[u] = req[u] /\ req[u].id \in Ids
        BY <1>1, <2>3, <3>2, EnterKeeps, RequestType
      <4> QED BY <1>1, <2>1, <2>3, <4>1 DEF FilesOK
    <3> QED BY <3>1, <3>2
  <2>4. \A b, c \in BusinessIds : b # c =>
          /\ yaml'[b] # None => yaml'[b] # yaml'[c] /\ yaml'[b] # tmp'[c]
          /\ tmp'[b] # None => tmp'[b] # tmp'[c]
    BY <1>1, EnterKeeps DEF FilesOK
  <2>5. ASSUME NEW u \in Threads, NEW b \in BusinessIds,
               Busy(u)', req'[u].fd # None, b # req'[u].business
        PROVE  req'[u].fd # yaml'[b] /\ req'[u].fd # tmp'[b]
    BY <1>1, <2>5, EnterKeeps DEF FilesOK
  <2> QED BY <2>2, <2>3, <2>4, <2>5 DEF FilesOK, Busy, Fresh
<1>5. MeetingsOK'
  <2>1. ASSUME NEW u \in Threads, NEW v \in Threads, Busy(u)', Busy(v)', u # v
        PROVE  /\ req'[u].business = req'[v].business => req'[u].business \in met'
               /\ req'[u].op = "signup" /\ req'[v].op = "signup" /\ req'[u].email = req'[v].email =>
                     req'[u].email \in met'
    <3>1. CASE u # t /\ v # t
      BY <1>1, <2>1, <3>1, EnterKeeps DEF MeetingsOK
    <3>2. \A w \in Threads : Busy(w) =>
             /\ req[w].business = r.business => r.business \in met'
             /\ req[w].op = "signup" /\ r.op = "signup" /\ req[w].email = r.email =>
                   r.email \in met'
      BY DEF Enters
    <3>3. CASE u = t
      BY <1>1, <2>1, <3>2, <3>3, EnterKeeps
    <3>4. CASE v = t
      BY <1>1, <2>1, <3>2, <3>4, EnterKeeps
    <3> QED BY <3>1, <3>3, <3>4
  <2> QED BY <2>1 DEF MeetingsOK, Busy
<1>6. DirsOK'
  <2>1. ASSUME NEW u \in Threads, Busy(u)'
        PROVE  /\ req'[u].step \notin {"check", "mkdir"} => req'[u].business \in dirs
               /\ req'[u].op = "patch" => yaml[req'[u].business] # None
    BY <1>1, <2>1, EnterKeeps DEF DirsOK
  <2> QED BY <1>1, <2>1, EnterKeeps DEF DirsOK, Busy
<1>7. \A u \in Threads : /\ Provisions(u)' => Provisions(u) /\ u # t /\ req'[u] = req[u]
                         /\ Provisions(u) => Provisions(u)' /\ req'[u] = req[u]
  BY <1>1, EnterKeeps DEF Provisions
<1>8. CreatorsOK'
  <2>1. ASSUME NEW u \in Threads, Provisions(u)', NEW v \in Threads, Busy(v)',
               req'[v].business = req'[u].business
        PROVE  v = u \/ req'[v].step \in {"check", "mkdir"}
    <3>1. Provisions(u) /\ req'[u] = req[u] /\ req[u].business \in dirs
      BY <1>1, <1>7, <2>1 DEF DirsOK, Provisions
    <3>2. CASE v = t
      <4>1. r.op = "signup"
        <5>1. ~Busy(t) /\ req[u].business = r.business
          BY <1>1, <2>1, <3>1, <3>2, EnterKeeps DEF Enters
        <5>2. CASE r.op = "patch"
          <6>1. \E e \in Emails : users[e] # None /\ users[e].business = r.business
            BY <5>2 DEF Enters
          <6> QED BY <1>1, <3>1, <5>1, <6>1 DEF CreatorsOK
        <5> QED BY <5>2, <1>1, EnterKeeps
      <4> QED BY <1>1, <2>1, <3>2, <4>1, EnterKeeps
    <3>3. CASE v # t
      BY <1>1, <2>1, <3>1, <3>3, EnterKeeps DEF CreatorsOK
    <3> QED BY <3>2, <3>3
  <2>2. ASSUME NEW u \in Threads, Provisions(u)'
        PROVE  /\ req'[u].business \notin Shipped
               /\ req'[u].step = "owner" => yaml'[req'[u].business] # None
               /\ req'[u].step \in {"fill", "replace"} => tmp'[req'[u].business] # None
               /\ \A e \in Emails : users'[e] # None => users'[e].business # req'[u].business
    BY <1>1, <1>7, <2>2, EnterKeeps DEF CreatorsOK
  <2> QED BY <2>1, <2>2 DEF CreatorsOK, Provisions, Busy
<1>9. OwnersOK'
  <2>1. ASSUME NEW u \in Threads, Busy(u)', req'[u].op = "signup",
               req'[u].step \notin {"check", "audit"}
        PROVE  /\ users[req'[u].email] = None \/ req'[u].email \in met'
               /\ \A b \in Shipped : OwnerEmail[b] # req'[u].email
    BY <1>1, <2>1, EnterKeeps DEF OwnersOK
  <2> QED BY <1>1, <2>1, EnterKeeps DEF OwnersOK, Busy
<1>10. EditsOK'
  <2>1. FileIsAsEdited'
    BY <1>1, EnterKeeps DEF EditsOK, FileIsAsEdited
  <2>2. ASSUME NEW u \in Threads, Busy(u)', req'[u].business \notin met'
        PROVE  /\ req'[u].step \in {"open", "fill", "replace"} => req'[u].config = EditedBy(req[u])'
               /\ req'[u].step \in {"fill", "replace"} => tmp'[req'[u].business] = req'[u].fd
               /\ req'[u].step = "replace" => contents'[req'[u].fd] = req'[u].config
    BY <1>1, <2>2, EnterKeeps DEF EditsOK, EditedBy
  <2> QED BY <2>1, <2>2 DEF EditsOK, Busy
<1>11. BrokenOK'
  BY <1>1, EnterKeeps DEF BrokenOK, Busy
<1>12. WholeOK'
  BY <1>1, <1>7, EnterKeeps DEF WholeOK, Provisions, Busy
<1>13. HalvesOK'
  BY <1>1, <1>7, EnterKeeps DEF HalvesOK, Provisions, Busy
<1> QED BY <1>2, <1>3, <1>4, <1>5, <1>6, <1>8, <1>9, <1>10, <1>11, <1>12, <1>13 DEF Inv

-------------------------------------------------------------------------------
(* The seeding at a boot changes no account: the seeded owners are seeded.   *)
LEMMA SeedingKeeps ==
    ASSUME TypeOK, OwnersOK
    PROVE  SeedOwners(users) = users
<1>1. ASSUME NEW e \in Emails, \E b \in Shipped : OwnerEmail[b] = e
      PROVE  users[e] = [business |-> CHOOSE b \in Shipped : OwnerEmail[b] = e, signup |-> 0]
  <2> DEFINE b == CHOOSE b \in Shipped : OwnerEmail[b] = e
  <2>1. b \in Shipped /\ OwnerEmail[b] = e
    BY <1>1
  <2> HIDE DEF b
  <2>2. users[OwnerEmail[b]] = [business |-> b, signup |-> 0]
    BY <2>1, NullsAssumption DEF OwnersOK
  <2> QED BY <2>1, <2>2 DEF b
<1> QED BY <1>1 DEF SeedOwners, TypeOK

LEMMA CrashInv ==
    ASSUME Inv, Crash
    PROVE  Inv'
<1> USE DEF Inv
<1>1. /\ \A t \in Threads : ~Busy(t)'
      /\ req' = [t \in Threads |-> NoRequest] /\ users' = users
      /\ yaml' = yaml /\ tmp' = tmp /\ contents' = contents /\ dirs' = dirs
      /\ edited' = edited /\ met' = met /\ count' = count /\ crashes' \in 0..MaxCrashes
      /\ halted' = halted \union HalfMade(Threads)
  BY SeedingKeeps, ConstantsAssumption DEF Crash, Busy, files, TypeOK
<1>2. /\ \A b \in HalfMade(Threads) : \E t \in Threads : Provisions(t) /\ req[t].business = b
      /\ \A t \in Threads : Provisions(t) => req[t].business \in halted'
  BY <1>1 DEF HalfMade
<1>3. HalfMade(Threads) \subseteq dirs
  BY <1>2 DEF DirsOK, Provisions
<1>4. TypeOK'
  BY <1>1, <1>3 DEF TypeOK, At
<1>5. RequestsOK' /\ MeetingsOK' /\ CreatorsOK'
  BY <1>1 DEF RequestsOK, MeetingsOK, CreatorsOK, Provisions, Busy
<1>6. FilesOK'
  BY <1>1 DEF FilesOK, Fresh, Busy
<1>7. DirsOK' /\ OwnersOK'
  BY <1>1 DEF DirsOK, OwnersOK, Busy
<1>8. EditsOK' /\ BrokenOK'
  BY <1>1 DEF EditsOK, BrokenOK, FileIsAsEdited, Busy
<1>9. WholeOK'
  <2> SUFFICES ASSUME NEW b \in dirs, b \notin halted', b \in Shipped => OwnerEmail[b] # None
               PROVE  /\ yaml[b] # None
                      /\ (met \intersect Emails = {}) =>
                            \E e \in Emails : users[e] # None /\ users[e].business = b
    BY <1>1 DEF WholeOK
  <2>1. b \notin halted /\ ~ \E t \in Threads : Provisions(t) /\ req[t].business = b
    BY <1>1, <1>2
  <2> QED BY <2>1 DEF WholeOK
<1>10. HalvesOK'
  <2>1. \A e \in Emails : users[e] # None => users[e].business \notin HalfMade(Threads)
    BY <1>2 DEF CreatorsOK
  <2> QED BY <1>1, <1>3, <2>1 DEF HalvesOK, Provisions, Busy
<1> QED BY <1>4, <1>5, <1>6, <1>7, <1>8, <1>9, <1>10

LEMMA InitInv ==
    ASSUME Init
    PROVE  Inv
<1> DEFINE free == [e \in Emails |-> None]
<1>1. PICK written \in ShippedFiles :
         /\ contents = [i \in FileIds |-> IF i \in Shipped THEN written[i] ELSE None]
         /\ edited = [b \in BusinessIds |-> IF b \in Shipped THEN written[b] ELSE Default]
  BY DEF Init
<1>2. written \in [Shipped -> Contents] /\ Default \in Configs /\ None \in Contents
      /\ Shipped \subseteq BusinessIds /\ Shipped \subseteq FileIds
  BY NullsAssumption, ConstantsAssumption DEF Default, Configs, Contents, FileIds
<1>3. /\ \A t \in Threads : ~Busy(t)
      /\ req = [t \in Threads |-> NoRequest] /\ dirs = Shipped
      /\ count = 0 /\ crashes = 0 /\ met = {} /\ halted = {}
      /\ yaml = [b \in BusinessIds |-> IF b \in Shipped THEN b ELSE None]
      /\ tmp = [b \in BusinessIds |-> None]
      /\ users = SeedOwners(free)
  BY DEF Init, Busy
<1>4. ASSUME NEW e \in Emails
      PROVE  \/ users[e] = None /\ \A b \in Shipped : OwnerEmail[b] # e
             \/ \E b \in Shipped : OwnerEmail[b] = e /\ users[e] = [business |-> b, signup |-> 0]
  <2>1. CASE \E b \in Shipped : OwnerEmail[b] = e
    <3> DEFINE b == CHOOSE b \in Shipped : OwnerEmail[b] = e
    <3>1. b \in Shipped /\ OwnerEmail[b] = e
      BY <2>1
    <3>2. users[e] = [business |-> b, signup |-> 0]
      BY <1>3, <2>1 DEF SeedOwners
    <3> HIDE DEF b
    <3> QED BY <3>1, <3>2
  <2>2. CASE ~ \E b \in Shipped : OwnerEmail[b] = e
    BY <1>3, <2>2 DEF SeedOwners
  <2> QED BY <2>1, <2>2
<1>5. ASSUME NEW b \in Shipped PROVE [business |-> b, signup |-> 0] \in Accounts
                                     /\ [business |-> b, signup |-> 0] # None
  BY <1>2, NullsAssumption DEF Accounts
<1>6. TypeOK
  <2>1. contents \in [FileIds -> Contents] /\ edited \in [BusinessIds -> Contents]
    BY <1>1, <1>2 DEF Contents
  <2>2. users \in [Emails -> Accounts \union {None}]
    <3>1. users = [e \in Emails |-> users[e]]
      BY <1>3 DEF SeedOwners
    <3> QED BY <3>1, <1>4, <1>5
  <2>3. \A b \in Shipped : b # None
    BY <1>2, NullsAssumption
  <2> QED BY <1>2, <1>3, <2>1, <2>2, <2>3, ConstantsAssumption DEF TypeOK, At
<1>7. RequestsOK /\ MeetingsOK /\ CreatorsOK
  BY <1>3 DEF RequestsOK, MeetingsOK, CreatorsOK, Provisions
<1>8. FilesOK
  <2>1. ASSUME NEW i \in Ids PROVE Fresh(i)
    BY <1>3, NullsAssumption DEF Fresh, FileIds
  <2> QED BY <1>3, <2>1 DEF FilesOK
<1>9. DirsOK /\ OwnersOK
  <2>1. ASSUME NEW e \in Emails, users[e] # None
        PROVE  users[e].business \in Shipped /\ OwnerEmail[users[e].business] = e
    <3>1. PICK b \in Shipped : OwnerEmail[b] = e /\ users[e] = [business |-> b, signup |-> 0]
      BY <1>4, <2>1
    <3> QED BY <3>1
  <2>2. \A b \in Shipped : OwnerEmail[b] # None =>
          users[OwnerEmail[b]] = [business |-> b, signup |-> 0]
    BY <1>4, ConstantsAssumption
  <2>3. \A b \in Shipped : yaml[b] # None
    BY <1>2, <1>3, NullsAssumption
  <2>4. DirsOK
    BY <1>2, <1>3, <2>1, <2>3 DEF DirsOK
  <2> QED BY <1>2, <1>3, <2>1, <2>2, <2>4 DEF OwnersOK
<1>10. EditsOK /\ BrokenOK
  <2>1. \A b \in BusinessIds : yaml[b] # None => b \in Shipped /\ contents[yaml[b]] = edited[b]
    BY <1>1, <1>2, <1>3
  <2>2. \A b \in BusinessIds : edited[b] \notin Configs => b \in Shipped /\ contents[yaml[b]] = edited[b]
    BY <1>1, <1>2, <1>3
  <2> QED BY <1>3, <2>1, <2>2 DEF EditsOK, BrokenOK, FileIsAsEdited
<1>11. WholeOK
  <2>1. ASSUME NEW b \in Shipped, OwnerEmail[b] # None
        PROVE  yaml[b] # None /\ \E e \in Emails : users[e] # None /\ users[e].business = b
    <3>1. OwnerEmail[b] \in Emails /\ users[OwnerEmail[b]] = [business |-> b, signup |-> 0]
          /\ yaml[b] # None
      BY <1>9, <2>1, ConstantsAssumption DEF OwnersOK, DirsOK
    <3>2. users[OwnerEmail[b]] # None /\ users[OwnerEmail[b]].business = b
      BY <1>5, <3>1
    <3> QED BY <3>1, <3>2
  <2> QED BY <1>3, <2>1 DEF WholeOK
<1>12. HalvesOK
  BY <1>3 DEF HalvesOK, Provisions
<1> QED BY <1>6, <1>7, <1>8, <1>9, <1>10, <1>11, <1>12 DEF Inv

LEMMA NextInv ==
    ASSUME Inv, [Next]_vars
    PROVE  Inv'
<1> USE DEF Inv
<1>1. CASE Crash
  BY <1>1, CrashInv
<1>2. ASSUME NEW t \in Threads, \/ \E b \in BusinessIds, e \in Emails : PostSignup(t, b, e)
                                \/ \E e \in Emails, f \in Fields : PostPatch(t, e, f)
      PROVE  Inv'
  <2>1. PICK r : Enters(t, r)
    BY <1>2, PostEnters
  <2> QED BY <2>1, EnterInv
<1>3. ASSUME NEW t \in Threads, Route(t) PROVE Inv'
  <2>1. Busy(t) /\ Moves(t) /\ Records(t) /\ UNCHANGED <<count, crashes, met>>
    BY <1>3, RouteMoves, RouteRecords
  <2>2. TypeOK' /\ RequestsOK' /\ FilesOK' /\ MeetingsOK'
    BY <2>1, TypeMove, RequestsMove, FilesMove, MeetingsMove
  <2>3. DirsOK' /\ CreatorsOK' /\ OwnersOK'
    BY <2>1, DirsMove, CreatorsMove, OwnersMove
  <2>4. EditsOK' /\ BrokenOK' /\ WholeOK' /\ HalvesOK'
    BY <2>1, EditsMove, BrokenMove, WholeMove, HalvesMove
  <2> QED BY <2>2, <2>3, <2>4
<1>4. CASE UNCHANGED vars
  BY <1>4 DEF vars, files, TypeOK, At, RequestsOK, FilesOK, Fresh, MeetingsOK, DirsOK, CreatorsOK,
      Provisions, OwnersOK, EditsOK, FileIsAsEdited, EditedBy, BrokenOK, WholeOK, HalvesOK,
      Busy
<1> QED BY <1>1, <1>2, <1>3, <1>4 DEF Next, AdminStep

-------------------------------------------------------------------------------
(* The inductive invariant of provisioning and the config writer holds in      *)
(* every state (business_config/provisioning.py, business_config/writer.py).    *)
THEOREM Invariant == Spec => []Inv
<1>1. Init => Inv
  BY InitInv
<1>2. Inv /\ [Next]_vars => Inv'
  BY NextInv
<1> QED BY <1>1, <1>2, PTL DEF Spec

(* Names point to files, and no file of a Business goes by two names; requests,  *)
(* accounts and contents have their types (provisioning.py, writer.py).         *)
THEOREM Types == Spec => []TypeOK
<1>1. Inv => TypeOK
  BY DEF Inv
<1> QED BY <1>1, Invariant, PTL

(* Whatever two signups, patches and crashes do in between (provisioning.py:     *)
(* 83-107), an owner's Business is on the disk, and has no other owner.          *)
THEOREM OwnedAndThere == Spec => []OwnersHaveTheirBusiness
<1>1. Inv => OwnersHaveTheirBusiness
  BY DEF Inv, OwnersHaveTheirBusiness, DirsOK, OwnersOK
<1> QED BY <1>1, Invariant, PTL

(* Every directory has its config, and an owner unless two signups of one email  *)
(* met, but for the ones whose signup is on its way, or stopped after the mkdir: *)
(* a signup that is refused leaves none (provisioning.py:83-107).               *)
THEOREM Whole == Spec => []NoHalfBusiness
<1>1. Inv => NoHalfBusiness
  BY DEF Inv, NoHalfBusiness, WholeOK
<1> QED BY <1>1, Invariant, PTL

(* What a signup that raised, or died, partway has left becomes nobody's         *)
(* Business, whoever signs up beside it or after it (provisioning.py:83-101).    *)
THEOREM HalvesStay == Spec => []HalvesStayUnowned
<1>1. Inv => HalvesStayUnowned
  BY DEF Inv, HalvesStayUnowned, HalvesOK
<1> QED BY <1>1, Invariant, PTL

(* Where no two requests met, business.yaml holds what the finished writes made  *)
(* of it, through every crash (writer.py:60-82, router.py's patch).              *)
THEOREM NoLostEdit == Spec => []FileIsAsEdited
<1>1. Inv => FileIsAsEdited
  BY DEF Inv, EditsOK
<1> QED BY <1>1, Invariant, PTL

(* Neither a signup nor the seeding at a boot moves an owner to another Business, *)
(* unless two signups of that email met (provisioning.py:83-87, 95-107).         *)
THEOREM OwnersKept == Spec => OwnersStay
<1> DEFINE Stay == \A e \in Emails : users[e] # None => users'[e] = users[e] \/ e \in met
<1>1. Inv /\ [Next]_vars => [Stay]_vars
  <2> SUFFICES ASSUME Inv, [Next]_vars PROVE Stay
    OBVIOUS
  <2> USE DEF Inv
  <2>1. CASE Crash
    BY <2>1, SeedingKeeps DEF Crash
  <2>2. ASSUME NEW t \in Threads, \/ \E b \in BusinessIds, e \in Emails : PostSignup(t, b, e)
                                  \/ \E e \in Emails, f \in Fields : PostPatch(t, e, f)
        PROVE  Stay
    <3>1. UNCHANGED users
      BY <2>2 DEF PostSignup, PostPatch, Enter
    <3> QED BY <3>1
  <2>3. ASSUME NEW t \in Threads, Route(t) PROVE Stay
    <3>1. Busy(t) /\ Moves(t)
      BY <2>3, RouteMoves
    <3>2. CASE Owns(t)
      <4>1. req[t].op = "signup" /\ req[t].step = "owner" /\ req[t].email \in Emails
        BY <3>1, <3>2, RequestType DEF Owns, PatchSteps
      <4>2. users[req[t].email] = None \/ req[t].email \in met
        BY <3>1, <4>1 DEF OwnersOK
      <4> QED BY <3>2, <4>1, <4>2 DEF Owns, TypeOK
    <3>3. CASE ~Owns(t)
      BY <3>1, <3>3 DEF Moves, Stops, Passes, Makes, Reads, Opens, Fills, Puts, shared
    <3> QED BY <3>2, <3>3
  <2>4. CASE UNCHANGED vars
    BY <2>4 DEF vars
  <2> QED BY <2>1, <2>2, <2>3, <2>4 DEF Next, AdminStep
<1> QED BY <1>1, Invariant, PTL DEF Spec, OwnersStay

-------------------------------------------------------------------------------
(* The registry: a step of it is a step of Businesses, or leaves them alone. *)
LEMMA RegStep ==
    ASSUME [RegNext]_regVars
    PROVE  [Next]_vars
<1>1. CASE StartLoad \/ ReadConfig \/ BuildRuntime \/ BuildRaises \/ PublishRegistry
  BY <1>1 DEF StartLoad, ReadConfig, BuildRuntime, BuildRaises, PublishRegistry
<1>2. CASE Boot \/ Requests
  BY <1>2 DEF Boot, Requests, Next
<1>3. CASE UNCHANGED regVars
  BY <1>3 DEF regVars
<1> QED BY <1>1, <1>2, <1>3 DEF RegNext

(* The load only reads: signups, patches and crashes go on as if it were not     *)
(* there (registry.py, app.py), and all that holds of Businesses holds here.     *)
THEOREM RegistryOnlyReads == RegSpec => Spec
<1>1. RegInit => Init
  BY DEF RegInit
<1>2. [RegNext]_regVars => [Next]_vars
  BY RegStep
<1> QED BY <1>1, <1>2, PTL DEF RegSpec, Spec

(* A number of a claimant that the load is past: it has a runtime, of this      *)
(* Business or of one before it, or the Business was not fit all along.  The    *)
(* load is not past a number while an adapter with it is to go.                 *)
Served(n, i) == /\ loading.found[n] # Unregistered
                /\ \E j \in 1..i : loading.found[n].business = Sorted[j]
ToGo(n, i) == /\ i \in loading.paths
              /\ loading.adapters = {} \/ ~First(i, loading.paths)
                    \/ \E k \in loading.adapters : NumberAt(i, k) = n
Settled(n, i) == WasUnfit(Sorted[i]) \/ Served(n, i) \/ ToGo(n, i)

(* What was found is a claimant's, from before all the paths to go.             *)
FoundOK ==
    \A n \in Numbers : LET f == loading.found[n] IN
        f # Unregistered =>
            /\ Claims(f.business, n) /\ f.config \in seen[f.business]
            /\ \E j \in Places : f.business = Sorted[j] /\ \A i \in loading.paths : j <= i

LoadOK ==
    /\ loading \in [at : {"due", "load", "done", "failed"}, paths : SUBSET Places,
                    adapters : SUBSET Nat, found : [Numbers -> Runtimes \union {Unregistered}]]
    /\ loading.at = "due" => loading = Due
    /\ loading.at = "load" =>
          /\ \A b \in Claimants : Published(b) \in seen[b]
          /\ \A i \in Places : First(i, loading.paths) /\ loading.adapters # {} =>
                Sorted[i] \in Claimants /\ loading.adapters \subseteq Claiming(Sorted[i])
          /\ FoundOK
          /\ \A n \in Numbers, i \in Places : Claims(Sorted[i], n) => Settled(n, i)

RegInv == Inv /\ RegTypeOK /\ LoadOK

LEMMA ClaimTypes ==
    /\ \A i \in Places : Sorted[i] \in BusinessIds
    /\ \A b \in BusinessIds, n \in Numbers : Claims(b, n) => b \in Claimants
    /\ \A b \in BusinessIds : \A k \in Claiming(b) : Adapters[b][k].number \in Numbers /\ k \in Nat
    /\ \A config : Buildable(config) => config \in Configs
    /\ ~Buildable(None) /\ Claimants \subseteq BusinessIds
<1>1. \A i \in Places : Sorted[i] \in BusinessIds
  BY RegistryAssumption DEF Places
<1>2. ASSUME NEW b \in BusinessIds, NEW k \in Claiming(b)
      PROVE  Adapters[b][k].number \in Numbers /\ k \in Nat
  <2>1. Adapters[b] \in Seq(AdapterConfigs) /\ k \in 1..Len(Adapters[b])
    BY <1>2, RegistryAssumption DEF Claiming
  <2>2. Adapters[b][k] \in AdapterConfigs
    BY <2>1
  <2>3. Adapters[b][k].number \in Numbers \union {Unregistered}
    BY <2>2 DEF AdapterConfigs
  <2> QED BY <1>2, <2>1, <2>3 DEF Claiming
<1>3. ~Buildable(None)
  BY NullsAssumption DEF Buildable
<1>4. Claimants \subseteq BusinessIds
  BY RegistryAssumption DEF Claimants
<1> QED BY <1>1, <1>2, <1>3, <1>4 DEF Claims, Claimants, Buildable

LEMMA PublishedType ==
    ASSUME TypeOK, NEW b \in BusinessIds
    PROVE  Published(b) \in Contents
  BY DEF Published, TypeOK, Contents

LEMMA RegInitInv ==
    ASSUME RegInit
    PROVE  RegInv
<1>1. Inv /\ registry = Empty /\ loading = Due /\ seen = Unseen
  BY InitInv DEF RegInit
<1>2. Due \in [at : {"due", "load", "done", "failed"}, paths : SUBSET Places,
                    adapters : SUBSET Nat, found : [Numbers -> Runtimes \union {Unregistered}]]
      /\ Due.at = "due"
  BY DEF Due, Empty
<1>3. Unseen \in [Claimants -> SUBSET Contents] /\ Empty \in [Numbers -> Runtimes \union {Unregistered}]
  BY DEF Unseen, Empty
<1> QED BY <1>1, <1>2, <1>3 DEF RegInv, Inv, RegTypeOK, LoadOK

LEMMA StartLoadInv ==
    ASSUME RegInv, StartLoad, TypeOK'
    PROVE  RegTypeOK' /\ LoadOK'
<1>1. /\ loading = Due /\ registry = Empty /\ TypeOK /\ UNCHANGED <<vars, registry>>
      /\ loading' = [Due EXCEPT !.at = "load", !.paths = {i \in Places : yaml[Sorted[i]] # None}]
      /\ seen' = [b \in Claimants |-> {Published(b)}]
  BY DEF RegInv, RegTypeOK, LoadOK, StartLoad, Due
<1>2. /\ loading'.at = "load" /\ loading'.paths = {i \in Places : yaml[Sorted[i]] # None}
      /\ loading'.adapters = {} /\ loading'.found = Empty
      /\ loading' \in [at : {"due", "load", "done", "failed"}, paths : SUBSET Places,
                    adapters : SUBSET Nat, found : [Numbers -> Runtimes \union {Unregistered}]]
  BY <1>1 DEF Due, Empty
<1>3. /\ \A b \in Claimants : Published(b)' = Published(b)
      /\ \A b \in Claimants : seen'[b] = {Published(b)}
      /\ seen' \in [Claimants -> SUBSET Contents]
  BY <1>1, PublishedType, ClaimTypes DEF Published, vars, files
<1>4. ASSUME NEW n \in Numbers, NEW i \in Places, Claims(Sorted[i], n)
      PROVE  Settled(n, i)'
  <2>1. CASE yaml[Sorted[i]] = None
    BY <1>3, <1>4, <2>1, ClaimTypes DEF Settled, WasUnfit, Published
  <2>2. CASE yaml[Sorted[i]] # None
    BY <1>2, <2>2 DEF Settled, ToGo
  <2> QED BY <2>1, <2>2
<1>5. FoundOK'
  BY <1>2 DEF FoundOK, Empty
<1>6. LoadOK'
  BY <1>2, <1>3, <1>4, <1>5 DEF LoadOK, Claims
<1>7. RegTypeOK'
  BY <1>1, <1>2, <1>3 DEF RegTypeOK, RegInv
<1> QED BY <1>6, <1>7

LEMMA ReadConfigInv ==
    ASSUME RegInv, ReadConfig, TypeOK'
    PROVE  RegTypeOK' /\ LoadOK'
<1> DEFINE Loads == [at : {"due", "load", "done", "failed"}, paths : SUBSET Places,
                     adapters : SUBSET Nat, found : [Numbers -> Runtimes \union {Unregistered}]]
<1>1. PICK i \in Places :
         /\ First(i, loading.paths)
         /\ loading' = IF Published(Sorted[i]) = Undecodable THEN [Due EXCEPT !.at = "failed"]
                       ELSE IF Published(Sorted[i]) \in Configs /\ Sorted[i] \in Claimants
                       THEN [loading EXCEPT !.adapters = Claiming(Sorted[i])]
                       ELSE [loading EXCEPT !.paths = @ \ {i}]
  BY DEF ReadConfig
<1> DEFINE b == Sorted[i]
<1>2. /\ loading.at = "load" /\ loading.adapters = {} /\ loading \in Loads
      /\ yaml' = yaml /\ contents' = contents /\ registry' = registry /\ seen' = seen
      /\ registry = Empty
      /\ \A c \in Claimants : Published(c) \in seen[c]
      /\ FoundOK
      /\ \A n \in Numbers, j \in Places : Claims(Sorted[j], n) => Settled(n, j)
  BY DEF RegInv, RegTypeOK, LoadOK, ReadConfig, vars, files
<1>3. \A c : Published(c)' = Published(c) /\ WasUnfit(c)' = WasUnfit(c)
  BY <1>2 DEF Published, WasUnfit
<1>4. CASE Published(b) = Undecodable
  <2>1. loading' \in Loads /\ loading'.at = "failed"
    BY <1>1, <1>4 DEF Due, Empty
  <2> QED BY <1>2, <2>1 DEF RegInv, RegTypeOK, LoadOK
<1>5. CASE Published(b) # Undecodable /\ Published(b) \in Configs /\ b \in Claimants
  <2>1. /\ loading' = [loading EXCEPT !.adapters = Claiming(b)]
        /\ Claiming(b) \in SUBSET Nat
    BY <1>1, <1>5, ClaimTypes
  <2>2. /\ loading' \in Loads /\ loading'.at = "load" /\ loading'.paths = loading.paths
        /\ loading'.adapters = Claiming(b) /\ loading'.found = loading.found
    BY <1>2, <2>1
  <2>3. ASSUME NEW n \in Numbers, NEW j \in Places, Claims(Sorted[j], n) PROVE Settled(n, j)'
    <3>1. CASE ToGo(n, j)
      <4>1. j \in loading'.paths
        BY <2>2, <3>1 DEF ToGo
      <4>2. First(j, loading'.paths) => j = i
        BY <1>1, <2>2 DEF First, Places
      <4>3. j = i => \E k \in loading'.adapters : NumberAt(j, k) = n
        BY <2>2, <2>3 DEF Claims, NumberAt
      <4>4. ToGo(n, j)'
        BY <4>1, <4>2, <4>3 DEF ToGo
      <4> QED BY <4>4 DEF Settled
    <3>2. CASE ~ToGo(n, j)
      BY <1>2, <1>3, <2>2, <2>3, <3>2 DEF Settled, Served
    <3> QED BY <3>1, <3>2
  <2>4. FoundOK'
    BY <1>2, <2>2 DEF FoundOK, Claims
  <2>5. \A j \in Places : First(j, loading'.paths) =>
           Sorted[j] \in Claimants /\ loading'.adapters \subseteq Claiming(Sorted[j])
    BY <1>1, <1>5, <2>2 DEF First, Places
  <2>6. LoadOK'
    BY <1>2, <1>3, <2>2, <2>3, <2>4, <2>5 DEF LoadOK, Claims
  <2> QED BY <1>2, <2>2, <2>6 DEF RegInv, RegTypeOK
<1>6. CASE Published(b) # Undecodable /\ ~(Published(b) \in Configs /\ b \in Claimants)
  <2>1. loading' = [loading EXCEPT !.paths = loading.paths \ {i}]
    BY <1>1, <1>6
  <2>2. /\ loading' \in Loads /\ loading'.at = "load" /\ loading'.paths = loading.paths \ {i}
        /\ loading'.adapters = {} /\ loading'.found = loading.found
    BY <1>2, <2>1
  <2>3. ASSUME NEW n \in Numbers, NEW j \in Places, Claims(Sorted[j], n) PROVE Settled(n, j)'
    <3>1. CASE j = i
      <4>1. b \in Claimants
        BY <2>3, <3>1, ClaimTypes
      <4>2. Published(b) \in seen[b] /\ ~Buildable(Published(b))
        BY <1>2, <1>6, <4>1, ClaimTypes
      <4> QED BY <1>2, <3>1, <4>2 DEF Settled, WasUnfit
    <3>2. CASE j # i
      BY <1>2, <1>3, <2>2, <2>3, <3>2 DEF Settled, Served, ToGo
    <3> QED BY <3>1, <3>2
  <2>4. FoundOK'
    BY <1>2, <2>2 DEF FoundOK, Claims
  <2>5. LoadOK'
    BY <1>2, <1>3, <2>2, <2>3, <2>4 DEF LoadOK, Claims
  <2> QED BY <1>2, <2>2, <2>5 DEF RegInv, RegTypeOK
<1> QED BY <1>4, <1>5, <1>6

(* An adapter's number gets a runtime, has one, or cannot have this Business's. *)
LEMMA AdvanceInv ==
    ASSUME RegInv, TypeOK', loading.at = "load", NEW i \in Places, NEW k \in Nat, Building(i, k),
           yaml' = yaml, contents' = contents, registry' = registry,
           seen' \in [Claimants -> SUBSET Contents],
           \A c \in Claimants : seen[c] \subseteq seen'[c],
           NEW found, loading' = Advanced(i, k, found),
           \/ /\ found = [loading.found EXCEPT ![NumberAt(i, k)] = RuntimeAt(i)]
              /\ loading.found[NumberAt(i, k)] = Unregistered /\ Buildable(Published(Sorted[i]))
           \/ /\ found = loading.found
              /\ loading.found[NumberAt(i, k)] # Unregistered \/ WasUnfit(Sorted[i])'
    PROVE  RegTypeOK' /\ LoadOK'
<1> DEFINE Loads == [at : {"due", "load", "done", "failed"}, paths : SUBSET Places,
                     adapters : SUBSET Nat, found : [Numbers -> Runtimes \union {Unregistered}]]
           b == Sorted[i]
           number == NumberAt(i, k)
<1>1. /\ First(i, loading.paths) /\ First(k, loading.adapters) /\ loading \in Loads
      /\ registry = Empty /\ b \in Claimants /\ loading.adapters \subseteq Claiming(b)
      /\ \A c \in Claimants : Published(c) \in seen[c]
      /\ FoundOK /\ i \in loading.paths /\ k \in loading.adapters
      /\ \A n \in Numbers, j \in Places : Claims(Sorted[j], n) => Settled(n, j)
  BY DEF RegInv, RegTypeOK, LoadOK, Building, First
<1>2. /\ number \in Numbers /\ b \in BusinessIds /\ Claims(b, number) /\ RuntimeAt(i).business = b
      /\ RuntimeAt(i).config = Published(b)
      /\ Buildable(Published(b)) => RuntimeAt(i) \in Runtimes /\ RuntimeAt(i) # Unregistered
  <2>1. k \in Claiming(b) /\ b \in BusinessIds
    BY <1>1, ClaimTypes
  <2>2. number \in Numbers /\ Claims(b, number)
    BY <1>1, <2>1, ClaimTypes DEF NumberAt, Claims, Claimants
  <2>3. Buildable(Published(b)) => RuntimeAt(i) \in Runtimes /\ RuntimeAt(i) # Unregistered
    BY <2>1, ClaimTypes, RegistryAssumption DEF RuntimeAt, Runtimes
  <2> QED BY <2>1, <2>2, <2>3 DEF RuntimeAt
<1>3. /\ loading' = [loading EXCEPT !.found = found, !.adapters = loading.adapters \ {k},
                        !.paths = IF loading.adapters = {k} THEN loading.paths \ {i}
                                  ELSE loading.paths]
      /\ found \in [Numbers -> Runtimes \union {Unregistered}]
      /\ \A n \in Numbers : n # number => found[n] = loading.found[n]
      /\ \/ found[number] = RuntimeAt(i) /\ found[number] # Unregistered
         \/ /\ found[number] = loading.found[number]
            /\ found[number] # Unregistered \/ WasUnfit(b)'
  BY <1>1, <1>2 DEF Advanced
<1>4. /\ loading' \in Loads /\ loading'.at = "load" /\ loading'.found = found
      /\ loading'.adapters = loading.adapters \ {k}
      /\ loading'.paths = IF loading.adapters = {k} THEN loading.paths \ {i} ELSE loading.paths
  BY <1>1, <1>3
<1>5. \A c \in Claimants : Published(c)' = Published(c) /\ (WasUnfit(c) => WasUnfit(c)')
  BY DEF Published, WasUnfit
<1>6. FoundOK'
  <2>1. ASSUME NEW n \in Numbers, found[n] # Unregistered
        PROVE  /\ Claims(found[n].business, n) /\ found[n].config \in seen'[found[n].business]
               /\ \E j \in Places : /\ found[n].business = Sorted[j]
                                    /\ \A p \in loading'.paths : j <= p
    <3>1. CASE found[n] = loading.found[n]
      <4>1. /\ Claims(found[n].business, n) /\ found[n].config \in seen[found[n].business]
            /\ \E j \in Places : found[n].business = Sorted[j] /\ \A p \in loading.paths : j <= p
        BY <1>1, <2>1, <3>1 DEF FoundOK
      <4>2. found[n].business \in Claimants
        BY <4>1, ClaimTypes
      <4> QED BY <1>4, <4>1, <4>2
    <3>2. CASE found[n] # loading.found[n]
      <4>1. n = number /\ found[n] = RuntimeAt(i)
        BY <1>3, <3>2
      <4>2. \A p \in loading'.paths : i <= p
        BY <1>1, <1>4 DEF First
      <4> QED BY <1>1, <1>2, <4>1, <4>2
    <3> QED BY <3>1, <3>2
  <2> QED BY <1>4, <2>1 DEF FoundOK, Claims
<1>7. ASSUME NEW n \in Numbers, NEW j \in Places, Claims(Sorted[j], n) PROVE Settled(n, j)'
  <2>1. Settled(n, j) /\ Sorted[j] \in Claimants
    BY <1>1, <1>7, ClaimTypes
  <2>2. CASE WasUnfit(Sorted[j])
    BY <1>5, <2>1, <2>2 DEF Settled
  <2>3. CASE Served(n, j)
    <3>1. found[n] = loading.found[n] \/ n = number
      BY <1>3
    <3>2. CASE found[n] = loading.found[n]
      BY <1>4, <2>3, <3>2 DEF Settled, Served
    <3>3. CASE found[n] # loading.found[n]
      <4>1. loading.found[number] = Unregistered
        BY <1>3, <3>1, <3>3
      <4> QED BY <2>3, <3>1, <3>3, <4>1 DEF Served
    <3> QED BY <3>2, <3>3
  <2>4. CASE ToGo(n, j) /\ j = i /\ n = number
    <3>1. CASE WasUnfit(b)'
      BY <2>4, <3>1 DEF Settled
    <3>2. CASE found[number] # Unregistered
      <4>1. PICK p \in Places : found[number].business = Sorted[p] /\ p <= i
        <5>1. CASE found[number] = RuntimeAt(i)
          BY <1>2, <5>1 DEF Places
        <5>2. CASE found[number] = loading.found[number]
          BY <1>1, <1>2, <3>2, <5>2 DEF FoundOK
        <5> QED BY <1>3, <5>1, <5>2
      <4>2. p \in 1..i
        BY <4>1 DEF Places
      <4> QED BY <1>4, <2>4, <3>2, <4>1, <4>2 DEF Settled, Served
    <3> QED BY <1>3, <3>1, <3>2
  <2>5. CASE ToGo(n, j) /\ j = i /\ n # number
    <3>1. PICK a \in loading.adapters : NumberAt(i, a) = n
      BY <1>1, <2>5 DEF ToGo
    <3>2. a \in loading'.adapters /\ i \in loading'.paths
      BY <1>1, <1>4, <2>5, <3>1
    <3> QED BY <2>5, <3>1, <3>2 DEF Settled, ToGo
  <2>6. CASE ToGo(n, j) /\ j # i
    <3>1. j \in loading'.paths /\ (loading'.adapters = {} \/ loading'.paths = loading.paths)
      BY <1>4, <2>6 DEF ToGo
    <3>2. loading'.paths = loading.paths => ~First(j, loading'.paths)
      BY <1>1, <2>6 DEF First, Places
    <3> QED BY <3>1, <3>2 DEF Settled, ToGo
  <2> QED BY <2>1, <2>2, <2>3, <2>4, <2>5, <2>6 DEF Settled
<1>8. \A j \in Places : First(j, loading'.paths) /\ loading'.adapters # {} =>
         Sorted[j] \in Claimants /\ loading'.adapters \subseteq Claiming(Sorted[j])
  BY <1>1, <1>4 DEF First, Places
<1>9. LoadOK'
  <2>1. \A c \in Claimants : Published(c)' \in seen'[c]
    BY <1>1, <1>5
  <2> QED BY <1>4, <1>6, <1>7, <1>8, <2>1 DEF LoadOK, Claims
<1> QED BY <1>1, <1>4, <1>9 DEF RegInv, RegTypeOK

LEMMA BuildInv ==
    ASSUME RegInv, BuildRuntime \/ BuildRaises, TypeOK'
    PROVE  RegTypeOK' /\ LoadOK'
<1>1. /\ yaml' = yaml /\ contents' = contents /\ registry' = registry
      /\ seen \in [Claimants -> SUBSET Contents]
      /\ None \in Contents
  BY DEF BuildRuntime, BuildRaises, vars, files, RegInv, RegTypeOK, Contents
<1>2. CASE BuildRuntime
  <2> PICK i \in Places : \E k \in AdapterPlaces(i) :
           /\ Building(i, k) /\ seen' = seen
           /\ loading' = Advanced(i, k, IF /\ loading.found[NumberAt(i, k)] = Unregistered
                                         /\ Buildable(Published(Sorted[i]))
                                      THEN [loading.found EXCEPT ![NumberAt(i, k)] = RuntimeAt(i)]
                                      ELSE loading.found)
    BY <1>2 DEF BuildRuntime
  <2>1. PICK k \in AdapterPlaces(i) :
           /\ Building(i, k) /\ seen' = seen
           /\ loading' = Advanced(i, k, IF /\ loading.found[NumberAt(i, k)] = Unregistered
                                         /\ Buildable(Published(Sorted[i]))
                                      THEN [loading.found EXCEPT ![NumberAt(i, k)] = RuntimeAt(i)]
                                      ELSE loading.found)
    OBVIOUS
  <2>2. loading.at = "load" /\ k \in Nat
    BY <2>1 DEF Building, AdapterPlaces
  <2>3. Sorted[i] \in Claimants /\ Published(Sorted[i]) \in seen'[Sorted[i]]
    BY <2>1, <2>2 DEF RegInv, LoadOK, Building, First
  <2>4. CASE loading.found[NumberAt(i, k)] = Unregistered /\ Buildable(Published(Sorted[i]))
    BY <1>1, <2>1, <2>2, <2>4, AdvanceInv
  <2>5. CASE ~(loading.found[NumberAt(i, k)] = Unregistered /\ Buildable(Published(Sorted[i])))
    <3>1. loading.found[NumberAt(i, k)] # Unregistered \/ WasUnfit(Sorted[i])'
      BY <2>3, <2>5 DEF WasUnfit
    <3>2. loading' = Advanced(i, k, loading.found)
      BY <2>1, <2>5
    <3> QED BY <1>1, <2>1, <2>2, <3>1, <3>2, AdvanceInv
  <2> QED BY <2>4, <2>5
<1>3. CASE BuildRaises
  <2> PICK i \in Places : \E k \in AdapterPlaces(i) :
           /\ Building(i, k) /\ loading' = Advanced(i, k, loading.found)
           /\ seen' = [seen EXCEPT ![Sorted[i]] = @ \union {None}]
    BY <1>3 DEF BuildRaises
  <2>1. PICK k \in AdapterPlaces(i) :
           /\ Building(i, k) /\ loading' = Advanced(i, k, loading.found)
           /\ seen' = [seen EXCEPT ![Sorted[i]] = @ \union {None}]
    OBVIOUS
  <2>2. loading.at = "load" /\ k \in Nat
    BY <2>1 DEF Building, AdapterPlaces
  <2>3. Sorted[i] \in Claimants
    BY <2>1, <2>2 DEF RegInv, LoadOK, Building, First
  <2>4. /\ seen' \in [Claimants -> SUBSET Contents]
        /\ \A c \in Claimants : seen[c] \subseteq seen'[c]
        /\ WasUnfit(Sorted[i])'
    BY <1>1, <2>1, <2>3, ClaimTypes DEF WasUnfit
  <2> QED BY <1>1, <2>1, <2>2, <2>4, AdvanceInv
<1> QED BY <1>2, <1>3

(* A load that is not under way has found nothing that is still to be published. *)
LEMMA RestInv ==
    ASSUME RegInv, TypeOK', loading' \in {Due, [Due EXCEPT !.at = "done"]},
           registry' \in [Numbers -> Runtimes \union {Unregistered}],
           loading' = Due => registry' = Empty, seen' = Unseen
    PROVE  RegTypeOK' /\ LoadOK'
<1>1. /\ loading'.at \in {"due", "done"}
      /\ loading'.at = "due" => loading' = Due
      /\ loading' \in [at : {"due", "load", "done", "failed"}, paths : SUBSET Places,
                       adapters : SUBSET Nat, found : [Numbers -> Runtimes \union {Unregistered}]]
  <2>1. CASE loading' = Due
    BY <2>1 DEF Due, Empty
  <2>2. CASE loading' = [Due EXCEPT !.at = "done"]
    BY <2>2 DEF Due, Empty
  <2> QED BY <2>1, <2>2
<1>2. seen' \in [Claimants -> SUBSET Contents]
  BY DEF Unseen
<1> QED BY <1>1, <1>2 DEF RegTypeOK, LoadOK

LEMMA RequestsInv ==
    ASSUME RegInv, Requests, TypeOK'
    PROVE  RegTypeOK' /\ LoadOK'
<1>1. /\ registry' = registry /\ loading' = loading /\ seen \in [Claimants -> SUBSET Contents]
      /\ seen' = IF loading.at = "load" THEN [b \in Claimants |-> seen[b] \union {Published(b)'}]
                 ELSE seen
  BY DEF Requests, RegInv, RegTypeOK
<1>2. \A b \in Claimants : Published(b)' \in Contents
  <2>1. ASSUME NEW b \in BusinessIds PROVE Published(b)' \in Contents
    BY DEF Published, TypeOK, Contents
  <2> QED BY <2>1, ClaimTypes
<1>3. /\ seen' \in [Claimants -> SUBSET Contents]
      /\ \A b \in Claimants : seen[b] \subseteq seen'[b]
      /\ loading.at = "load" => \A b \in Claimants : Published(b)' \in seen'[b]
  BY <1>1, <1>2
<1>4. ASSUME loading.at = "load", NEW n \in Numbers, NEW i \in Places, Claims(Sorted[i], n)
      PROVE  Settled(n, i)'
  <2>1. Settled(n, i) /\ Sorted[i] \in Claimants
    BY <1>4, ClaimTypes DEF RegInv, LoadOK
  <2> QED BY <1>1, <1>3, <2>1 DEF Settled, WasUnfit, Served, ToGo
<1>5. ASSUME loading.at = "load" PROVE FoundOK'
  <2>1. FoundOK /\ loading.found \in [Numbers -> Runtimes \union {Unregistered}]
    BY <1>5 DEF RegInv, LoadOK
  <2>2. \A n \in Numbers : loading.found[n] # Unregistered => loading.found[n].business \in Claimants
    BY <2>1, ClaimTypes DEF FoundOK, Runtimes
  <2> QED BY <1>1, <1>3, <2>1, <2>2 DEF FoundOK, Claims
<1>6. LoadOK'
  BY <1>1, <1>3, <1>4, <1>5 DEF LoadOK, RegInv, Claims
<1> QED BY <1>1, <1>3, <1>6 DEF RegInv, RegTypeOK

LEMMA RegNextInv ==
    ASSUME RegInv, [RegNext]_regVars
    PROVE  RegInv'
<1>1. Inv' /\ TypeOK'
  BY RegStep, NextInv DEF RegInv, Inv
<1>2. CASE PublishRegistry
  <2>1. /\ registry' = loading.found /\ loading' = [Due EXCEPT !.at = "done"] /\ seen' = Unseen
        /\ loading.found \in [Numbers -> Runtimes \union {Unregistered}]
        /\ loading' # Due
    BY <1>2 DEF PublishRegistry, RegInv, LoadOK, Due
  <2> QED BY <1>1, <2>1, RestInv DEF RegInv
<1>3. CASE Boot
  <2>1. registry' = Empty /\ loading' = Due /\ seen' = Unseen
    BY <1>3 DEF Boot
  <2>2. Empty \in [Numbers -> Runtimes \union {Unregistered}]
    BY DEF Empty
  <2> QED BY <1>1, <2>1, <2>2, RestInv DEF RegInv
<1>4. CASE UNCHANGED regVars
  BY <1>1, <1>4 DEF regVars, vars, files, RegInv, RegTypeOK, LoadOK, FoundOK, Settled, Served, ToGo,
      WasUnfit, Published
<1>5. CASE StartLoad \/ ReadConfig \/ BuildRuntime \/ BuildRaises \/ Requests
  BY <1>1, <1>5, StartLoadInv, ReadConfigInv, BuildInv, RequestsInv DEF RegInv
<1> QED BY <1>2, <1>3, <1>4, <1>5 DEF RegNext

(* What a load half-way has found is a claimant's, and each claimant of a      *)
(* number is still to go, was unfit at some time, or that number is served by  *)
(* it or by one before it (interfaces/whatsapp/registry.py).                   *)
THEOREM RegInvariant == RegSpec => []RegInv
<1>1. RegInit => RegInv
  BY RegInitInv
<1>2. RegInv /\ [RegNext]_regVars => RegInv'
  BY RegNextInv
<1> QED BY <1>1, <1>2, PTL DEF RegSpec

(* Until a load is published the webhook routes nothing, also after a restart,   *)
(* and whatever is signed up and edited meanwhile (app.py:35-73).                *)
THEOREM RegTypes == RegSpec => []RegTypeOK
<1>1. RegInv => RegTypeOK
  BY DEF RegInv
<1> QED BY <1>1, RegInvariant, PTL

(* Every number a load publishes goes to the first Business, in the order of the *)
(* paths, that claims it and could be read and built at its turn, with a config  *)
(* its file held during the load; and no Business that fails takes a number, or  *)
(* another Business, off routing (registry.py:27-79).                            *)
THEOREM FirstFit == RegSpec => FirstFitIsServed
<1> DEFINE Fits ==
       loading.at = "load" /\ loading'.at = "done" => \A n \in Numbers :
          LET served == registry'[n] IN
          /\ served # Unregistered =>
                Claims(served.business, n) /\ served.config \in seen[served.business]
          /\ \A i \in Places :
                \/ ~Claims(Sorted[i], n) \/ WasUnfit(Sorted[i])
                \/ served # Unregistered /\ \E j \in 1..i : served.business = Sorted[j]
<1>1. RegInv /\ [RegNext]_regVars => [Fits]_regVars
  <2> SUFFICES ASSUME RegInv, [RegNext]_regVars, loading.at = "load", loading'.at = "done"
               PROVE  Fits
    OBVIOUS
  <2>1. loading \in [at : {"due", "load", "done", "failed"}, paths : SUBSET Places,
                     adapters : SUBSET Nat, found : [Numbers -> Runtimes \union {Unregistered}]]
    BY DEF RegInv, LoadOK
  <2>2. CASE PublishRegistry
    <3>1. registry' = loading.found /\ loading.paths = {}
      BY <2>2 DEF PublishRegistry
    <3>2. /\ FoundOK
          /\ \A n \in Numbers, i \in Places : Claims(Sorted[i], n) => Settled(n, i)
      BY DEF RegInv, LoadOK
    <3> QED BY <3>1, <3>2 DEF FoundOK, Settled, Served, ToGo
  <2>3. CASE StartLoad \/ BuildRuntime \/ BuildRaises \/ Requests \/ UNCHANGED regVars
    <3>1. loading'.at = loading.at \/ loading.at = "due"
      BY <2>1, <2>3 DEF StartLoad, BuildRuntime, BuildRaises, Requests, Advanced, regVars
    <3> QED BY <3>1
  <2>4. CASE ReadConfig
    <3>1. loading'.at # "done"
      BY <2>1, <2>4 DEF ReadConfig, Due
    <3> QED BY <3>1
  <2>5. CASE Boot
    BY <2>5 DEF Boot, Due
  <2> QED BY <2>2, <2>3, <2>4, <2>5 DEF RegNext
<1> QED BY <1>1, RegInvariant, PTL DEF RegSpec, FirstFitIsServed
===============================================================================
