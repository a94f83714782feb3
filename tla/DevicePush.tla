----------------------------- MODULE DevicePush -----------------------------
(***************************************************************************)
(* The device inventory and what NetAnchor does with the devices           *)
(* (device_store.go, device_http.go, device_check.go, gnoi_push.go,        *)
(* gnoi_admin.go): each operation reads a device, talks to a switch for up *)
(* to a minute, and writes what it learned, while the device is edited or  *)
(* deleted, other operations run, and the switch changes the certificate   *)
(* that it presents.                                                       *)
(*                                                                         *)
(* A fingerprint is the certificate it belongs to: a serial number, the    *)
(* switch's own certificate, named as its address, or that of another      *)
(* machine that has the address.                                           *)
(***************************************************************************)
EXTENDS Naturals, FiniteSets

CONSTANTS
  Requests, Ids, Names,
  Hosts,           \* host:port
  CertIds,         \* the names of certificates on a switch
  Protected,       \* Cisco SUDI and Catalyst Center
  MaxSerial, MaxChanges, MaxCrashes,   \* bounds: certificates, changes of what a
                   \* switch presents, deaths of the process
  Other,           \* the certificate of another machine
  None

Serials == 1 .. MaxSerial
Fingerprints == Serials \cup Hosts \cup {Other}

ASSUME Bounds == MaxSerial \in Nat /\ MaxChanges \in Nat /\ MaxCrashes \in Nat
ASSUME Markers ==
  /\ Protected \subseteq CertIds /\ None \notin Fingerprints /\ Other \notin Hosts
  /\ Hosts \cap Nat = {} /\ Other \notin Nat /\ None \notin Ids /\ None \notin CertIds

VARIABLES
  devices,    \* devices.json
  index,      \* the certificates made for switches, with the outcomes of AddPush
  installed,  \* per switch: its certificates by name
  presents,   \* per switch: what its gRPC port presents
  pc, job,    \* where each request is, and with what
  serials,    \* certificates made so far
  known, removed,  \* history: devices created, certificates deleted
  fetched,    \* history: fingerprints fetched from an address and compared
  last,       \* history: per device, the pin that was confirmed last
  held, told, \* history: certificates that a switch took, who was sent credentials
  changes, crashes

stored == <<devices, index, serials, known, removed>>
switch == <<installed, presents, held, changes>>
vars == <<stored, switch, pc, job, fetched, last, told, crashes>>

Device == [name : Names, host : Hosts, pin : Fingerprints, pinHost : Hosts, creds : BOOLEAN]
Outcomes == {"verified", "unverified", "failed"}
Job == [op : {"edit", "add", "test", "refresh", "push", "revoke"},
        id : Ids \cup {None}, dev : Device, name : CertIds \cup {None},
        fresh : BOOLEAN,                        \* an edit's pin is newly confirmed
        peer : Fingerprints \cup {None},         \* the certificate of the connection
        serial : Serials \cup {None}, outcome : Outcomes \cup {None}]

TypeOK ==
  /\ DOMAIN devices \subseteq Ids /\ devices \in [DOMAIN devices -> Device]
  /\ DOMAIN index \subseteq Serials /\ index \in [DOMAIN index -> SUBSET Outcomes]
  /\ installed \in [Hosts -> [CertIds -> Fingerprints \cup {None}]]
  /\ presents \in [Hosts -> Fingerprints]
  /\ pc \in [Requests -> {"idle", "save", "create", "inspect", "update", "list", "sign", "load",
                          "verify", "record", "rebound", "repin", "check", "revoke"}]
  /\ job \in [Requests -> Job \cup {None}]
  /\ \A r \in Requests : pc[r] # "idle" => job[r] \in Job
  /\ serials \in 0 .. MaxSerial
  /\ known \in SUBSET Ids /\ removed \in SUBSET Serials
  /\ last \in [Ids -> Fingerprints \cup {None}]
  /\ fetched \subseteq Hosts \X Fingerprints /\ held \subseteq Serials

\* A switch comes with its own certificate, under a protected name if it has one.
Init ==
  /\ devices = [i \in {} |-> None] /\ index = [s \in {} |-> None]
  /\ installed = [h \in Hosts |-> [c \in CertIds |-> IF c \in Protected THEN h ELSE None]]
  /\ presents = [h \in Hosts |-> h]
  /\ pc = [r \in Requests |-> "idle"] /\ job = [r \in Requests |-> None]
  /\ serials = 0 /\ known = {} /\ removed = {} /\ fetched = {}
  /\ last = [i \in Ids |-> None] /\ held = {} /\ told = {}
  /\ changes = 0 /\ crashes = 0

Goto(r, at) == pc' = [pc EXCEPT ![r] = at]
Reply(r) == Goto(r, "idle") /\ job' = [job EXCEPT ![r] = None]
Begin(r, at, j) == pc[r] = "idle" /\ Goto(r, at) /\ job' = [job EXCEPT ![r] = j]
Task(op, id, dev, name) ==
  [op |-> op, id |-> id, dev |-> dev, name |-> name, fresh |-> FALSE, peer |-> None,
   serial |-> None, outcome |-> None]
Host(r) == job[r].dev.host

\* Mutant of Pinned: a check that is not the push's own trusts any certificate.
AnyPeer(r, also) == TRUE
\* gnoiTLSConfig: the switch must present what is pinned, or, in the check of a push,
\* what was just issued.
Pinned(r, also) == presents[Host(r)] \in {job[r].dev.pin} \cup also
\* The credentials go to whoever is connected.
Login(r) == told' = told \cup {presents[Host(r)]}
\* An open connection, and it breaks when the port presents another certificate.
Connected(r) == presents[Host(r)] = job[r].peer

----------------------------------------------------------------------------
(* The inventory.                                                          *)

\* handleDeviceProbe; who compares the fingerprint does not confirm another machine.
Fetch(h) ==
  /\ presents[h] # Other
  /\ fetched' = fetched \cup {<<h, presents[h]>>}
  /\ UNCHANGED <<stored, switch, pc, job, last, told, crashes>>

\* Mutant of Keeps: a pin is kept when the address is.
KeepsAddress(old, host, fp) == old.pinHost = host
\* deviceFromForm: the pin in the form is the stored one for the stored address.
Keeps(old, host, fp) == old.pinHost = host /\ old.pin = fp

\* The form shows what was the pin when the page was loaded, or what was fetched since.
Shown == {f[2] : f \in fetched} \cup 1 .. serials

Edit(r, id) ==
  /\ id \in DOMAIN devices
  /\ \E name \in Names, host \in Hosts, fp \in Shown, creds \in BOOLEAN :
       /\ Keeps(devices[id], host, fp) \/ <<host, fp>> \in fetched
       /\ LET dev == [devices[id] EXCEPT !.name = name, !.host = host, !.pin = fp,
                                         !.pinHost = host, !.creds = creds]
          IN Begin(r, "save", [Task("edit", id, dev, None) EXCEPT
                                 !.fresh = ~ Keeps(devices[id], host, fp)])
  /\ UNCHANGED <<stored, switch, fetched, last, told, crashes>>

NameFree(id, name) == \A o \in DOMAIN devices \ {id} : devices[o].name # name

\* SaveDevice replaces the whole record.
Save(r) ==
  /\ pc[r] = "save"
  /\ LET id == job[r].id
         dev == job[r].dev
     IN IF id \in DOMAIN devices /\ NameFree(id, dev.name)
        THEN /\ devices' = [devices EXCEPT ![id] = dev]
             /\ last' = IF job[r].fresh THEN [last EXCEPT ![id] = dev.pin] ELSE last
        ELSE UNCHANGED <<devices, last>>
  /\ Reply(r)
  /\ UNCHANGED <<index, serials, known, removed, switch, fetched, told, crashes>>

\* addDevice: a device is stored once it was seen.
Add(r) ==
  /\ \E name \in Names, f \in fetched :
       LET dev == [name |-> name, host |-> f[1], pin |-> f[2], pinHost |-> f[1],
                   creds |-> TRUE]
       IN Begin(r, "inspect", Task("add", None, dev, None))
  /\ UNCHANGED <<stored, switch, fetched, last, told, crashes>>

NewIds == Ids \ known      \* newDeviceID

Create(r) ==
  /\ pc[r] = "create"
  /\ IF NameFree(None, job[r].dev.name)
     THEN \E id \in NewIds :
            /\ devices' = [i \in DOMAIN devices \cup {id} |-> IF i = id THEN job[r].dev ELSE devices[i]]
            /\ known' = known \cup {id} /\ last' = [last EXCEPT ![id] = job[r].dev.pin]
     ELSE UNCHANGED <<devices, known, last>>
  /\ Reply(r)
  /\ UNCHANGED <<index, serials, removed, switch, fetched, told, crashes>>

DeleteDevice(id) ==
  /\ id \in DOMAIN devices
  /\ devices' = [i \in DOMAIN devices \ {id} |-> devices[i]]
  /\ UNCHANGED <<index, serials, known, removed, switch, pc, job, fetched, last, told, crashes>>

\* Mutant of Updated: a record that is not there is written again.
Upserted(r, dev) ==
  devices' = [i \in DOMAIN devices \cup {job[r].id} |-> IF i = job[r].id THEN dev ELSE devices[i]]
\* UpdateDevice changes the stored record under the lock, and fails where there is none.
Updated(r, dev) ==
  devices' = [i \in DOMAIN devices |-> IF i = job[r].id THEN dev ELSE devices[i]]
Stored(r) == IF job[r].id \in DOMAIN devices THEN devices[job[r].id] ELSE job[r].dev

----------------------------------------------------------------------------
(* Looking at a switch.                                                    *)

Check(r, id) ==
  /\ id \in DOMAIN devices /\ devices[id].creds
  /\ \E op \in {"test", "refresh"} : Begin(r, "inspect", Task(op, id, devices[id], None))
  /\ UNCHANGED <<stored, switch, fetched, last, told, crashes>>

\* gnoiInspect: the list of certificates, over a connection to what is pinned.  (What
\* the port presents is read in a handshake of its own, without credentials.)
Inspect(r) ==
  /\ pc[r] = "inspect" /\ Pinned(r, {})
  /\ Login(r)
  /\ Goto(r, IF job[r].op = "add" THEN "create" ELSE "update")
  /\ UNCHANGED <<stored, switch, job, fetched, last, crashes>>

\* The snapshot, or the model and the serial number, of which the records here have
\* nothing.
Update(r) ==
  /\ pc[r] = "update"
  /\ Updated(r, Stored(r))
  /\ Reply(r)
  /\ UNCHANGED <<index, serials, known, removed, switch, fetched, last, told, crashes>>

----------------------------------------------------------------------------
(* A push to one device; the devices of a push follow one another.         *)

Push(r, id) ==
  /\ id \in DOMAIN devices
  /\ \E c \in CertIds \ Protected : Begin(r, "list", Task("push", id, devices[id], c))
  /\ UNCHANGED <<stored, switch, fetched, last, told, crashes>>

\* A certificate of that name is there: the device is skipped.
List(r) ==
  /\ pc[r] = "list" /\ Pinned(r, {})
  /\ Login(r)
  /\ IF installed[Host(r)][job[r].name] = None
     THEN Goto(r, "sign") /\ job' = [job EXCEPT ![r].peer = presents[Host(r)]]
     ELSE Reply(r)
  /\ UNCHANGED <<stored, switch, fetched, last, crashes>>

Listed(s) == index' = [x \in DOMAIN index \cup {s} |-> IF x = s THEN {} ELSE index[x]]

\* The switch has sent a CSR; SaveCert and AddRecord (CaStore has them one by one).
Sign(r) ==
  /\ pc[r] = "sign" /\ serials < MaxSerial
  /\ serials' = serials + 1 /\ Listed(serials')
  /\ Goto(r, "load") /\ job' = [job EXCEPT ![r].serial = serials']
  /\ UNCHANGED <<devices, known, removed, switch, fetched, last, told, crashes>>

\* The switch takes the certificate or does not, and the reply comes, is lost with
\* the connection, or does not come in time: then the push has failed.
Load(r) ==
  /\ pc[r] = "load"
  /\ \/ /\ Connected(r)
        /\ installed' = [installed EXCEPT ![Host(r)][job[r].name] = job[r].serial]
        /\ held' = held \cup {job[r].serial}
     \/ UNCHANGED <<installed, held>>
  /\ \/ Goto(r, "verify") /\ UNCHANGED job
     \/ Goto(r, "record") /\ job' = [job EXCEPT ![r].outcome = "failed"]
  /\ UNCHANGED <<stored, presents, changes, fetched, last, told, crashes>>

\* Mutant of Seen: the name is enough.
SeenByName(r) == installed[Host(r)][job[r].name] # None
\* gnoiSeenOnDevice: the switch lists this certificate under the name.
Seen(r) == installed[Host(r)][job[r].name] = job[r].serial

Verify(r) ==
  /\ pc[r] = "verify"
  /\ \/ /\ Pinned(r, {job[r].serial}) /\ Login(r)
        /\ job' = [job EXCEPT ![r].outcome = IF Seen(r) THEN "verified" ELSE "unverified"]
     \/ job' = [job EXCEPT ![r].outcome = "unverified"] /\ UNCHANGED told
  /\ Goto(r, "record")
  /\ UNCHANGED <<stored, switch, fetched, last, crashes>>

\* AddPush; that the record was deleted is only logged.
Recorded(s, outcome) ==
  index' = [x \in DOMAIN index |-> IF x = s THEN index[x] \cup {outcome} ELSE index[x]]

Record(r) ==
  /\ pc[r] = "record"
  /\ Recorded(job[r].serial, job[r].outcome)
  /\ IF job[r].outcome = "verified" THEN Goto(r, "rebound") /\ UNCHANGED job ELSE Reply(r)
  /\ UNCHANGED <<devices, serials, known, removed, switch, fetched, last, told, crashes>>

\* gnoiServedAfterInstall: what the port presents now.
Rebound(r) ==
  /\ pc[r] = "rebound"
  /\ Goto(r, IF presents[Host(r)] = job[r].serial THEN "repin" ELSE "inspect")
  /\ UNCHANGED <<stored, switch, job, fetched, last, told, crashes>>

Repin(r) ==
  /\ pc[r] = "repin"
  /\ Updated(r, [Stored(r) EXCEPT !.pin = job[r].serial, !.pinHost = Host(r)])
  /\ IF job[r].id \in DOMAIN devices
     THEN /\ last' = [last EXCEPT ![job[r].id] = job[r].serial]
          /\ job' = [job EXCEPT ![r].dev.pin = job[r].serial] /\ Goto(r, "inspect")
     ELSE Reply(r) /\ UNCHANGED last
  /\ UNCHANGED <<index, serials, known, removed, switch, fetched, told, crashes>>

----------------------------------------------------------------------------
(* Removing a certificate from a switch.                                   *)

Revoke(r, id) ==
  /\ id \in DOMAIN devices /\ devices[id].creds
  /\ \E c \in CertIds : Begin(r, "check", Task("revoke", id, devices[id], c))
  /\ UNCHANGED <<stored, switch, fetched, last, told, crashes>>

\* Mutant of Removable: what the connection presents is not compared.
RemovableUncompared(r) == job[r].name \notin Protected
\* Not a SUDI or Catalyst Center certificate, and not that of this connection.
Removable(r) ==
  /\ job[r].name \notin Protected
  /\ installed[Host(r)][job[r].name] \notin {None, presents[Host(r)]}

CheckCert(r) ==
  /\ pc[r] = "check" /\ Pinned(r, {})
  /\ Login(r)
  /\ IF Removable(r)
     THEN Goto(r, "revoke") /\ job' = [job EXCEPT ![r].peer = presents[Host(r)]]
     ELSE Reply(r)
  /\ UNCHANGED <<stored, switch, fetched, last, crashes>>

\* Whatever becomes of the request, the device is inspected again.
RevokeCert(r) ==
  /\ pc[r] = "revoke"
  /\ \/ Connected(r) /\ installed' = [installed EXCEPT ![Host(r)][job[r].name] = None]
     \/ UNCHANGED installed
  /\ Goto(r, "inspect")
  /\ UNCHANGED <<stored, presents, held, changes, job, fetched, last, told, crashes>>

----------------------------------------------------------------------------
\* No connection, a refusal, the end of the time or of the client's patience.
GiveUp(r) ==
  /\ pc[r] \in {"inspect", "list", "sign", "rebound", "check"}
  /\ Reply(r)
  /\ UNCHANGED <<stored, switch, fetched, last, told, crashes>>

\* An installed certificate is deleted from the inventory.
DeleteCert(s) ==
  /\ s \in DOMAIN index
  /\ index' = [x \in DOMAIN index \ {s} |-> index[x]] /\ removed' = removed \cup {s}
  /\ UNCHANGED <<devices, serials, known, switch, pc, job, fetched, last, told, crashes>>

\* A switch binds its port to a certificate that it has, or its address is given to
\* another machine.
Rebind(h) ==
  /\ changes < MaxChanges /\ changes' = changes + 1
  /\ \E f \in ({installed[h][c] : c \in CertIds} \ {None}) \cup {h, Other} :
       presents' = [presents EXCEPT ![h] = f]
  /\ UNCHANGED <<stored, installed, held, pc, job, fetched, last, told, crashes>>

Crash ==
  /\ crashes < MaxCrashes /\ crashes' = crashes + 1
  /\ pc' = [r \in Requests |-> "idle"] /\ job' = [r \in Requests |-> None]
  /\ UNCHANGED <<stored, switch, fetched, last, told>>

Inventory ==
  \/ \E h \in Hosts : Fetch(h)
  \/ \E r \in Requests :
       \/ Add(r) \/ Create(r) \/ Save(r)
       \/ \E id \in Ids : Edit(r, id)
  \/ \E id \in Ids : DeleteDevice(id)
  \/ \E s \in Serials : DeleteCert(s)

Look(r) == (\E id \in Ids : Check(r, id)) \/ Inspect(r) \/ Update(r)

Install(r) ==
  \/ \E id \in Ids : Push(r, id)
  \/ List(r) \/ Sign(r) \/ Load(r) \/ Verify(r) \/ Record(r) \/ Rebound(r) \/ Repin(r)

Remove(r) == (\E id \in Ids : Revoke(r, id)) \/ CheckCert(r) \/ RevokeCert(r)

Next ==
  \/ Inventory
  \/ \E r \in Requests : Look(r) \/ Install(r) \/ Remove(r) \/ GiveUp(r)
  \/ \E h \in Hosts : Rebind(h)
  \/ Crash

Spec == Init /\ [][Next]_vars

----------------------------------------------------------------------------
\* A pin was fetched from its address and compared, or is a certificate that a push
\* saw the port present there (deviceFromForm, afterInstall).
Confirmed(dev) == <<dev.pinHost, dev.pin>> \in fetched \/ dev.pin \in held
PinsConfirmed == \A id \in DOMAIN devices : Confirmed(devices[id])

\* Credentials are only sent to who presents such a certificate: "the device server
\* is never trusted without a pin" (gnoi_push.go:53); never to another machine that
\* has got the address.
CredentialsKept == told \subseteq {f[2] : f \in fetched} \cup held

\* A device that was deleted while an operation talked to it does not come back
\* (SaveDevice, UpdateDevice: errDeviceNotFound).
DeletedStaysDeleted ==
  [][\A id \in known : id \notin DOMAIN devices => id \notin DOMAIN devices']_vars

\* "Names must stay unique" (SaveDevice), though an operation takes a minute from
\* the form to the inventory.
UniqueNames ==
  \A i, j \in DOMAIN devices : devices[i].name = devices[j].name => i = j

\* The inventory after whatever has met: "names must stay unique" (SaveDevice), and no
\* pin comes from anywhere else.
InventorySound == UniqueNames /\ PinsConfirmed

\* A push that was recorded as verified did install its own certificate
\* (gnoiSeenOnDevice compares the bytes), whatever other pushes did meanwhile.
VerifiedWasHeld == \A s \in DOMAIN index : "verified" \in index[s] => s \in held

\* What a switch was given is listed, until it is deleted (gnoiSignCSR adds the record
\* before the certificate is sent), and is then not listed again (AddPush).
InstalledIsListed == held \subseteq DOMAIN index \cup removed
DeletedStaysUnlisted == DOMAIN index \cap removed = {}

\* What the records say of a push agrees with what happened on the switch
\* (gnoiInstall, AddPush).
RecordsTellTheTruth == VerifiedWasHeld /\ InstalledIsListed /\ DeletedStaysUnlisted

\* What holds between the steps of the operations; DevicePushProofs shows that it is
\* inductive.  A request works with a pin that was confirmed.
WorksConfirmed == \A r \in Requests : pc[r] # "idle" => Confirmed(job[r].dev)
\* A switch has and presents no certificate of NetAnchor that it has not taken.
Taken ==
  \A h \in Hosts :
    /\ presents[h] \in Serials => presents[h] \in held
    /\ \A c \in CertIds : installed[h][c] \in Serials => installed[h][c] \in held
\* A push has a certificate of its own, that is on record, and was not sent before.
Numbered == DOMAIN index \cup removed \cup held \subseteq 1 .. serials
Owned ==
  \A r \in Requests :
    /\ pc[r] \in {"load", "verify", "record", "rebound", "repin"} =>
         job[r].serial \in DOMAIN index \cup removed
    /\ pc[r] = "load" =>
         /\ job[r].serial \notin held
         /\ \A q \in Requests \ {r} : pc[q] = "load" => job[q].serial # job[r].serial
    /\ pc[r] = "record" => job[r].outcome \in Outcomes
    /\ pc[r] \in {"rebound", "repin"} \/ (pc[r] = "record" /\ job[r].outcome = "verified") =>
         job[r].serial \in held
\* Who is going to remove a certificate is not connected to it.
Apart ==
  \A r \in Requests :
    /\ pc[r] \in {"list", "sign", "load", "verify", "check", "revoke"} => job[r].name \in CertIds
    /\ pc[r] = "revoke" =>
         /\ job[r].name \notin Protected /\ installed[Host(r)][job[r].name] # job[r].peer
         /\ job[r].peer # None /\ (job[r].peer \in Serials => job[r].peer \in held)
IInv ==
  /\ TypeOK /\ WorksConfirmed /\ Taken /\ Numbered /\ Owned /\ Apart
  /\ InventorySound /\ CredentialsKept /\ RecordsTellTheTruth

\* "The gRPC-served certificate and Cisco SUDI/IDEVID certificates are refused, on
\* the device page and on the server" (README.md:412).
ServedIsSpared ==
  [][\A h \in Hosts, c \in CertIds :
       installed[h][c] # None /\ installed'[h][c] = None
         => c \notin Protected /\ installed[h][c] # presents[h]]_vars

\* "If the server then presents the new certificate, the device's pin is updated to
\* it" (README.md:381): the pin is the one that was confirmed last.
PinIsLast == \A id \in DOMAIN devices : devices[id].pin = last[id]
=============================================================================
