------------------------------ MODULE Businesses ------------------------------
(***************************************************************************)
(* How a Business comes to be and how its owner edits it: the Businesses    *)
(* shipped with the program and the owners seeded at every boot             *)
(* (scripts/seed_admin_owner.py), the self-serve signup                     *)
(* (business_config/provisioning.py), the config patch                      *)
(* (interfaces/admin/router.py) and the writer of business.yaml             *)
(* (business_config/writer.py) they share.                                  *)
(*                                                                         *)
(* The writer fills business.yaml.tmp and renames it over business.yaml.   *)
(* Two writers of one Business share that name: opening it truncates the   *)
(* other's file, and the rename moves the file whoever has it open.  So    *)
(* the model has file names that point to files, and files with contents.  *)
(***************************************************************************)
EXTENDS Integers, FiniteSets

CONSTANTS
    Threads,      \* worker threads
    BusinessIds,  \* business ids, shipped or asked for in a signup
    Emails,       \* owner emails, seeded or given in a signup
    Shipped,      \* Businesses with a hand-written business.yaml
    ShippedFiles, \* what the hand-written files may hold
    OwnerEmail,   \* ADMIN_OWNER_EMAIL_* of the shipped Businesses, None where unset
    Fields,       \* editable fields of a Business Config
    MaxRequests,  \* bound: signups and patches
    MaxCrashes,   \* bound: crashes
    None,         \* no file, no account; contents that are no Business Config
    Undecodable,  \* contents that are no text
    NoRequest     \* an idle thread

ASSUME ConstantsAssumption ==
    /\ MaxRequests \in Nat /\ MaxCrashes \in Nat /\ Fields # {}
    /\ Shipped \subseteq BusinessIds
    /\ OwnerEmail \in [Shipped -> Emails \union {None}]
    /\ \A a, b \in Shipped : OwnerEmail[a] = OwnerEmail[b] => a = b \/ OwnerEmail[a] = None

(* A request has a number; it names the file it creates, the account it makes *)
(* and the value it gives to the field it edits.  The file of a shipped       *)
(* Business goes by its business id, and account 0 is the seed script's.      *)
Ids == 1..MaxRequests
FileIds == Ids \union Shipped
Configs == [Fields -> {0} \union Ids]
Default == [f \in Fields |-> 0]
Contents == Configs \union {None, Undecodable}
Accounts == [business : BusinessIds, signup : Ids \union {0}]
SignupSteps == {"check", "mkdir", "open", "fill", "replace", "owner", "audit"}
PatchSteps == {"load", "open", "fill", "replace", "audit"}
Signups == [id : Ids, op : {"signup"}, business : BusinessIds, email : Emails,
            field : Fields, config : Configs, fd : FileIds \union {None}, step : SignupSteps]
Patches == [id : Ids, op : {"patch"}, business : BusinessIds, email : Emails,
            field : Fields, config : Configs, fd : FileIds \union {None}, step : PatchSteps]

ASSUME NullsAssumption ==
    /\ None \notin FileIds \union Configs \union Accounts \union Emails \union {Undecodable}
    /\ Ids \intersect Shipped = {}
    /\ NoRequest \notin Signups \union Patches
    /\ ShippedFiles \subseteq [Shipped -> Contents]

VARIABLES
    dirs,      \* business directories
    yaml,      \* the file each business.yaml names
    tmp,       \* the file each business.yaml.tmp names
    contents,  \* what each file holds: a config, or nothing yet
    users,     \* admin_users: the owner account of each email
    req,       \* the request each thread runs
    count,     \* requests so far
    crashes,   \* crashes so far
    edited,    \* history: each config as the finished writes make it
    met,       \* history: businesses and emails on which two requests met
    halted     \* history: businesses whose signup stopped after it made the directory

vars == <<dirs, yaml, tmp, contents, users, req, count, crashes, edited, met, halted>>
files == <<yaml, tmp, contents>>

Busy(t) == req[t] # NoRequest
At(t, step) == Busy(t) /\ req[t].step = step
Goto(t, step) == req' = [req EXCEPT ![t].step = step]
Return(t) == req' = [req EXCEPT ![t] = NoRequest]

(* The directory is made, the account is not. *)
Halfway == {"open", "fill", "replace", "owner"}
Provisions(t) == Busy(t) /\ req[t].op = "signup" /\ req[t].step \in Halfway
HalfMade(stopped) == {req[t].business : t \in {u \in stopped : Provisions(u)}}

(* The seed script upserts one owner per shipped Business, at every boot. *)
SeedOwners(accounts) ==
    [e \in Emails |->
        IF \E b \in Shipped : OwnerEmail[b] = e
        THEN [business |-> CHOOSE b \in Shipped : OwnerEmail[b] = e, signup |-> 0]
        ELSE accounts[e]]

Init ==
    /\ dirs = Shipped /\ count = 0 /\ crashes = 0 /\ met = {} /\ halted = {}
    /\ yaml = [b \in BusinessIds |-> IF b \in Shipped THEN b ELSE None]
    /\ tmp = [b \in BusinessIds |-> None]
    /\ \E written \in ShippedFiles :
          /\ contents = [i \in FileIds |-> IF i \in Shipped THEN written[i] ELSE None]
          /\ edited = [b \in BusinessIds |-> IF b \in Shipped THEN written[b] ELSE Default]
    /\ users = SeedOwners([e \in Emails |-> None])
    /\ req = [t \in Threads |-> NoRequest]

Enter(t, r) ==
    /\ ~Busy(t) /\ count < MaxRequests
    /\ count' = count + 1
    /\ req' = [req EXCEPT ![t] = r]
    /\ LET others == {u \in Threads : Busy(u)} IN
       met' = met \union {b \in {r.business} : \E u \in others : req[u].business = b}
                  \union {e \in {r.email} : r.op = "signup" /\
                             \E u \in others : req[u].op = "signup" /\ req[u].email = e}
    /\ UNCHANGED <<dirs, files, users, crashes, edited, halted>>

AnyField == CHOOSE f \in Fields : TRUE

PostSignup(t, b, e) ==
    Enter(t, [id |-> count + 1, op |-> "signup", business |-> b, email |-> e,
              field |-> AnyField, config |-> Default, fd |-> None, step |-> "check"])

(* authorize: the account is looked up, and owns the Business it names. *)
PostPatch(t, e, f) ==
    /\ users[e] # None
    /\ Enter(t, [id |-> count + 1, op |-> "patch", business |-> users[e].business,
                 email |-> e, field |-> f, config |-> Default, fd |-> None, step |-> "load"])

-------------------------------------------------------------------------------
(* Mutant: an email that has an account is not refused. *)
CheckBusinessOnly(t) ==
    /\ At(t, "check")
    /\ IF req[t].business \in dirs THEN Return(t) ELSE Goto(t, "mkdir")
    /\ UNCHANGED <<dirs, files, users, count, crashes, edited, met, halted>>

(* Both preconditions, before the disk is touched. *)
Check(t) ==
    /\ At(t, "check")
    /\ IF req[t].business \in dirs \/ users[req[t].email] # None
       THEN Return(t) ELSE Goto(t, "mkdir")
    /\ UNCHANGED <<dirs, files, users, count, crashes, edited, met, halted>>

(* Mutant: mkdir(exist_ok=True). *)
MkdirExistOk(t) ==
    /\ At(t, "mkdir")
    /\ Goto(t, "open") /\ dirs' = dirs \union {req[t].business}
    /\ UNCHANGED <<files, users, count, crashes, edited, met, halted>>

(* mkdir raises if another signup was first. *)
Mkdir(t) ==
    /\ At(t, "mkdir")
    /\ IF req[t].business \in dirs
       THEN Return(t) /\ UNCHANGED dirs
       ELSE Goto(t, "open") /\ dirs' = dirs \union {req[t].business}
    /\ UNCHANGED <<files, users, count, crashes, edited, met, halted>>

(* A patch gives one field a value and leaves the others. *)
Merged(config, r) == [config EXCEPT ![r.field] = r.id]

(* load_business_config fails on an empty or unreadable file; the patch is    *)
(* merged into what it read.                                                  *)
Load(t) ==
    /\ At(t, "load")
    /\ LET r == req[t]
           read == contents[yaml[r.business]] IN
       IF read \notin Configs THEN Return(t)
       ELSE req' = [req EXCEPT ![t].config = Merged(read, r), ![t].step = "open"]
    /\ UNCHANGED <<dirs, files, users, count, crashes, edited, met, halted>>

(* Mutant: business.yaml itself is opened where there is one. *)
OpenInPlace(t) ==
    /\ At(t, "open")
    /\ LET r == req[t]
           file == IF yaml[r.business] # None THEN yaml[r.business]
                   ELSE IF tmp[r.business] # None THEN tmp[r.business] ELSE r.id
       IN /\ contents' = [contents EXCEPT ![file] = None]
          /\ tmp' = IF yaml[r.business] # None THEN tmp ELSE [tmp EXCEPT ![r.business] = file]
          /\ req' = [req EXCEPT ![t].fd = file, ![t].step = "fill"]
    /\ UNCHANGED <<dirs, yaml, users, count, crashes, edited, met, halted>>

(* tmp_path is opened for writing: a new file, or the one there truncated. *)
Open(t) ==
    /\ At(t, "open")
    /\ LET r == req[t]
           file == IF tmp[r.business] # None THEN tmp[r.business] ELSE r.id
       IN /\ contents' = [contents EXCEPT ![file] = None]
          /\ tmp' = [tmp EXCEPT ![r.business] = file]
          /\ req' = [req EXCEPT ![t].fd = file, ![t].step = "fill"]
    /\ UNCHANGED <<dirs, yaml, users, count, crashes, edited, met, halted>>

(* The text is written to the open file, whatever its name by now. *)
Fill(t) ==
    /\ At(t, "fill")
    /\ contents' = [contents EXCEPT ![req[t].fd] = req[t].config]
    /\ Goto(t, "replace")
    /\ UNCHANGED <<dirs, yaml, tmp, users, count, crashes, edited, met, halted>>

(* The config once r's own write is done. *)
EditedBy(r) ==
    IF r.op = "signup" THEN Default ELSE Merged(edited[r.business], r)

(* os.replace, which raises when another writer has moved the file away. *)
Replace(t) ==
    /\ At(t, "replace")
    /\ LET r == req[t] IN
       IF tmp[r.business] = None
       THEN Return(t) /\ UNCHANGED <<yaml, tmp, edited>>
       ELSE /\ yaml' = [yaml EXCEPT ![r.business] = tmp[r.business]]
            /\ tmp' = [tmp EXCEPT ![r.business] = None]
            /\ edited' = [edited EXCEPT ![r.business] = EditedBy(r)]
            /\ Goto(t, IF r.op = "signup" THEN "owner" ELSE "audit")
    /\ UNCHANGED <<dirs, contents, users, count, crashes, met, halted>>

(* upsert_user: the account is made, or made over. *)
MakeOwner(t) ==
    /\ At(t, "owner")
    /\ LET r == req[t] IN
       users' = [users EXCEPT ![r.email] = [business |-> r.business, signup |-> r.id]]
    /\ Goto(t, "audit")
    /\ UNCHANGED <<dirs, files, count, crashes, edited, met, halted>>

(* record_audit, and the request returns. *)
Audit(t) ==
    /\ At(t, "audit")
    /\ Return(t)
    /\ UNCHANGED <<dirs, files, users, count, crashes, edited, met, halted>>

(* Any step may raise (the disk, bcrypt on a password it cannot take, the      *)
(* account store): the request is over, and what it did before stays.         *)
Fails(t) ==
    /\ Busy(t) /\ Return(t)
    /\ halted' = halted \union HalfMade({t})
    /\ UNCHANGED <<dirs, files, users, count, crashes, edited, met>>

(* The process stops and is started again: the files stay, the requests do   *)
(* not, and the owners are seeded.                                            *)
Crash ==
    /\ crashes < MaxCrashes
    /\ crashes' = crashes + 1
    /\ req' = [t \in Threads |-> NoRequest]
    /\ users' = SeedOwners(users)
    /\ halted' = halted \union HalfMade(Threads)
    /\ UNCHANGED <<dirs, files, count, edited, met>>

-------------------------------------------------------------------------------
Route(t) == \/ Check(t) \/ Mkdir(t) \/ Load(t) \/ Open(t) \/ Fill(t) \/ Replace(t)
            \/ MakeOwner(t) \/ Audit(t) \/ Fails(t)

AdminStep ==
    \E t \in Threads :
        \/ \E b \in BusinessIds, e \in Emails : PostSignup(t, b, e)
        \/ \E e \in Emails, f \in Fields : PostPatch(t, e, f)
        \/ Route(t)

Next == AdminStep \/ Crash

Spec == Init /\ [][Next]_vars

-------------------------------------------------------------------------------
(* Names point to files, no file has two names, accounts and requests have    *)
(* their types, and a writer has a file open.                                 *)
TypeOK ==
    /\ dirs \subseteq BusinessIds
    /\ yaml \in [BusinessIds -> FileIds \union {None}]
    /\ tmp \in [BusinessIds -> FileIds \union {None}]
    /\ \A b \in BusinessIds : yaml[b] # None => yaml[b] # tmp[b]
    /\ contents \in [FileIds -> Contents]
    /\ users \in [Emails -> Accounts \union {None}]
    /\ req \in [Threads -> Signups \union Patches \union {NoRequest}]
    /\ \A t \in Threads : At(t, "fill") => req[t].fd # None
    /\ count \in 0..MaxRequests /\ crashes \in 0..MaxCrashes
    /\ edited \in [BusinessIds -> Contents] /\ met \subseteq BusinessIds \union Emails
    /\ halted \subseteq BusinessIds

(* Config first, then the account (provisioning.py:83-91): whatever happens in *)
(* between, an owner's Business is on the disk.  Two signups never share one,  *)
(* and none takes a shipped one: the directory is made by one of them.         *)
OwnersHaveTheirBusiness ==
    \A e \in Emails : users[e] # None =>
        /\ users[e].business \in dirs /\ yaml[users[e].business] # None
        /\ \A f \in Emails :
               users[f] # None /\ users[f].business = users[e].business => e = f

(* A signup "doesn't silently overwrite an existing owner" (provisioning.py:   *)
(* 83-87), and the seeding at the next boot moves no one to another Business,  *)
(* as long as no two signups of that owner's email are in flight.              *)
OwnersStay ==
    [][\A e \in Emails : users[e] # None => users'[e] = users[e] \/ e \in met]_vars

(* "A signup that's going to fail never leaves a half-created Business         *)
(* directory behind" (provisioning.py:89-91): a directory without a config, or *)
(* without an owner, is one whose signup is on its way or stopped partway by   *)
(* an exception or a crash (83-87); a refused signup leaves none, and takes no *)
(* owner from the Business that has one.  Two signups of one email may meet:   *)
(* the account then ends up at one of them.                                    *)
NoHalfBusiness ==
    \A b \in {d \in dirs \ halted : d \in Shipped => OwnerEmail[d] # None} :
        \/ \E t \in Threads : Provisions(t) /\ req[t].business = b
        \/ /\ yaml[b] # None
           /\ (met \intersect Emails = {}) =>
                 \E e \in Emails : users[e] # None /\ users[e].business = b

(* "A re-signup attempt just hits BusinessAlreadyExistsError, it doesn't       *)
(* silently overwrite" (provisioning.py:83-87): what a signup that stopped     *)
(* partway has left never becomes anyone's, whoever signs up beside it, after  *)
(* it, or after a restart; only one with the disk at hand can take it away.    *)
HalvesStayUnowned ==
    \A e \in Emails : users[e] # None => users[e].business \notin halted

(* Through crashes, business.yaml is the config the finished writes make: no  *)
(* half-written file and no edit lost, where no two requests met.             *)
FileIsAsEdited ==
    \A b \in BusinessIds \ met : yaml[b] # None => contents[yaml[b]] = edited[b]

(* Nobody "should ever see a half-written file" (writer.py:66-71).            *)
NeverHalfWritten ==
    \A b \in BusinessIds : yaml[b] # None => contents[yaml[b]] # None
===============================================================================
