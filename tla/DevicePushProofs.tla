------------------------- MODULE DevicePushProofs -------------------------
(***************************************************************************)
(* Theorems about DevicePush, for any number of devices, switches,         *)
(* requests, certificates, changes of what a switch presents, and deaths   *)
(* of the process.                                                         *)
(***************************************************************************)
EXTENDS DevicePush, TLAPS

LEMMA InitIInv ==
  ASSUME Init PROVE IInv
BY Bounds, Markers DEF Init, IInv, TypeOK, WorksConfirmed, Taken, Numbered, Owned, Apart, InventorySound,
  UniqueNames, PinsConfirmed, CredentialsKept, RecordsTellTheTruth, VerifiedWasHeld,
  InstalledIsListed, DeletedStaysUnlisted, Fingerprints, Serials

----------------------------------------------------------------------------
(* Who changes what.                                                       *)

\* The switches change when a certificate is loaded or removed, or on their own.
LEMMA SwitchSteps ==
  ASSUME Next
  PROVE  \/ \E r \in Requests : Load(r) \/ RevokeCert(r)
         \/ \E h \in Hosts : Rebind(h)
         \/ UNCHANGED switch
BY DEF Next, Inventory, Look, Install, Remove, Fetch, Add, Create, Save, Edit, DeleteDevice, DeleteCert,
  Check, Inspect, Update, Push, List, Sign, Verify, Record, Rebound, Repin, Revoke, CheckCert,
  GiveUp, Crash, switch, stored

\* The records change when a certificate is made, a push is noted or a certificate deleted.
LEMMA IndexSteps ==
  ASSUME Next
  PROVE  \/ \E r \in Requests : Sign(r) \/ Record(r)
         \/ \E s \in Serials : DeleteCert(s)
         \/ UNCHANGED <<index, removed, serials>>
BY DEF Next, Inventory, Look, Install, Remove, Fetch, Add, Create, Save, Edit, DeleteDevice, Load,
  Check, Inspect, Update, Push, List, Verify, Rebound, Repin, Revoke, CheckCert, RevokeCert,
  GiveUp, Rebind, Crash, switch, stored

LEMMA DeviceSteps ==
  ASSUME Next
  PROVE  \/ \E r \in Requests : Save(r) \/ Create(r) \/ Update(r) \/ Repin(r)
         \/ \E id \in Ids : DeleteDevice(id)
         \/ UNCHANGED <<devices, known>>
BY DEF Next, Inventory, Look, Install, Remove, Fetch, Add, Edit, DeleteCert, Load, Sign, Record,
  Check, Inspect, Push, List, Verify, Rebound, Revoke, CheckCert, RevokeCert,
  GiveUp, Rebind, Crash, switch, stored

\* Fingerprints are compared, credentials sent.
LEMMA ToldSteps ==
  ASSUME Next
  PROVE  \/ \E r \in Requests : Inspect(r) \/ List(r) \/ Verify(r) \/ CheckCert(r)
         \/ UNCHANGED told
BY DEF Next, Inventory, Look, Install, Remove, Fetch, Add, Create, Save, Edit, DeleteDevice, DeleteCert,
  Check, Update, Push, Sign, Load, Record, Rebound, Repin, Revoke, RevokeCert, Rebind,
  GiveUp, Crash, switch, stored

\* A request moves alone, and the process dies with all of them.
RequestStep(r) ==
  \/ Add(r) \/ Create(r) \/ Save(r) \/ (\E id \in Ids : Edit(r, id))
  \/ Look(r) \/ Install(r) \/ Remove(r) \/ GiveUp(r)

LEMMA RequestSteps ==
  ASSUME Next
  PROVE  \/ \E r \in Requests : RequestStep(r)
         \/ Crash
         \/ UNCHANGED <<pc, job>>
BY DEF Next, Inventory, RequestStep, Fetch, DeleteDevice, DeleteCert, Rebind

\* What was confirmed stays so.
LEMMA Grows ==
  ASSUME TypeOK, Next
  PROVE  fetched \subseteq fetched' /\ held \subseteq held'
<1>1. held \subseteq held'
  BY SwitchSteps DEF Load, RevokeCert, Rebind, switch
<1>2. fetched \subseteq fetched'
  BY DEF Next, Inventory, Look, Install, Remove, Fetch, Add, Create, Save, Edit, DeleteDevice, DeleteCert,
  Check, Inspect, Update, Push, List, Sign, Load, Verify, Record, Rebound, Repin, Revoke, CheckCert,
  RevokeCert, GiveUp, Rebind, Crash
<1>3. QED
  BY <1>1, <1>2

----------------------------------------------------------------------------
(* The requests keep their types, and the others stay where they are.      *)

LEMMA TaskType ==
  ASSUME NEW op \in {"edit", "add", "test", "refresh", "push", "revoke"},
         NEW id \in Ids \cup {None}, NEW dev \in Device, NEW name \in CertIds \cup {None}
  PROVE  /\ Task(op, id, dev, name) \in Job
         /\ Task(op, id, dev, name).dev = dev /\ Task(op, id, dev, name).name = name
BY DEF Task, Job

LEMMA ShownType ==
  ASSUME TypeOK PROVE Shown \subseteq Fingerprints
BY Bounds DEF TypeOK, Shown, Fingerprints, Serials

Typed(r) ==
  /\ pc' \in [Requests -> {"idle", "save", "create", "inspect", "update", "list", "sign", "load",
                           "verify", "record", "rebound", "repin", "check", "revoke"}]
  /\ job' \in [Requests -> Job \cup {None}]
  /\ pc'[r] # "idle" => job'[r] \in Job
  /\ \A q \in Requests \ {r} : pc'[q] = pc[q] /\ job'[q] = job[q]

LEMMA BeginTyped ==
  ASSUME TypeOK, NEW r \in Requests, NEW j \in Job,
         NEW at \in {"save", "inspect", "list", "check"}, Begin(r, at, j)
  PROVE  Typed(r) /\ pc'[r] = at /\ job'[r] = j
BY DEF Typed, TypeOK, Begin, Goto

LEMMA ReplyTyped ==
  ASSUME TypeOK, NEW r \in Requests, Reply(r)
  PROVE  Typed(r) /\ pc'[r] = "idle"
BY DEF Typed, TypeOK, Reply, Goto

LEMMA GotoTyped ==
  ASSUME TypeOK, NEW r \in Requests, pc[r] # "idle", UNCHANGED job,
         NEW at \in {"create", "update", "inspect", "load", "verify", "record", "rebound", "repin",
                     "revoke", "sign"}, Goto(r, at)
  PROVE  Typed(r) /\ pc'[r] = at /\ job'[r] = job[r]
BY DEF Typed, TypeOK, Goto

\* A request that goes on with another record of what it has learned.
LEMMA JobTyped ==
  ASSUME TypeOK, NEW r \in Requests, NEW j \in Job, job' = [job EXCEPT ![r] = j],
         NEW at \in {"inspect", "load", "record", "revoke", "sign"}, Goto(r, at)
  PROVE  Typed(r) /\ pc'[r] = at /\ job'[r] = j
BY DEF Typed, TypeOK, Goto

LEMMA Devices ==
  ASSUME TypeOK
  PROVE  /\ \A id \in DOMAIN devices : devices[id] \in Device
         /\ \A r \in Requests : pc[r] # "idle" => /\ job[r] \in Job /\ job[r].dev \in Device
                                                /\ Host(r) \in Hosts
         /\ \A h \in Hosts : presents[h] \in Fingerprints
BY DEF TypeOK, Job, Device, Host

\* How a request starts: with a device of the inventory, or with one of the form.
Starts(r) ==
  \/ Add(r)
  \/ \E id \in Ids : Edit(r, id) \/ Check(r, id) \/ Push(r, id) \/ Revoke(r, id)

LEMMA StartFacts ==
  ASSUME TypeOK, WorksConfirmed, PinsConfirmed, NEW r \in Requests, Starts(r)
  PROVE  /\ Typed(r) /\ job'[r] \in Job /\ Confirmed(job'[r].dev)
         /\ pc'[r] \in {"save", "inspect", "list", "check"}
         /\ pc'[r] \in {"list", "check"} => job'[r].name \in CertIds
<1>1. CASE Add(r)
  <2>1. PICK name \in Names, f \in fetched :
          Begin(r, "inspect", Task("add", None, [name |-> name, host |-> f[1], pin |-> f[2],
                                                 pinHost |-> f[1], creds |-> TRUE], None))
    BY <1>1 DEF Add
  <2> DEFINE dev == [name |-> name, host |-> f[1], pin |-> f[2], pinHost |-> f[1], creds |-> TRUE]
  <2>2. dev \in Device /\ f = <<f[1], f[2]>>
    BY DEF Device, TypeOK
  <2>3. Confirmed(dev)
    BY <2>2 DEF Confirmed
  <2>4. QED
    BY <2>1, <2>2, <2>3, TaskType, BeginTyped
<1>2. ASSUME NEW id \in Ids, Edit(r, id) PROVE Typed(r) /\ job'[r] \in Job
        /\ Confirmed(job'[r].dev) /\ pc'[r] = "save"
  <2>1. PICK name \in Names, host \in Hosts, fp \in Shown, creds \in BOOLEAN :
          LET dev == [devices[id] EXCEPT !.name = name, !.host = host, !.pin = fp,
                                         !.pinHost = host, !.creds = creds]
          IN /\ Keeps(devices[id], host, fp) \/ <<host, fp>> \in fetched
             /\ Begin(r, "save", [Task("edit", id, dev, None) EXCEPT
                                 !.fresh = ~ Keeps(devices[id], host, fp)])
    BY <1>2 DEF Edit
  <2> DEFINE dev == [devices[id] EXCEPT !.name = name, !.host = host, !.pin = fp,
                                        !.pinHost = host, !.creds = creds]
             j == [Task("edit", id, dev, None) EXCEPT !.fresh = ~ Keeps(devices[id], host, fp)]
  <2>2. devices[id] \in Device /\ id \in DOMAIN devices
    BY <1>2, Devices DEF Edit
  <2>3. dev \in Device /\ dev.pin = fp /\ dev.pinHost = host
    BY <2>2, ShownType DEF Device
  <2>4. Task("edit", id, dev, None) \in Job /\ Task("edit", id, dev, None).dev = dev
    BY <2>3, TaskType
  <2>5. j \in Job /\ j.dev = dev
    <3> HIDE DEF dev
    <3>1. Keeps(devices[id], host, fp) \in BOOLEAN
      BY DEF Keeps
    <3>2. QED
      BY <2>4, <3>1 DEF Job
  <2>6. Confirmed(dev)
    BY <2>1, <2>2, <2>3 DEF Confirmed, Keeps, PinsConfirmed
  <2>7. Begin(r, "save", j)
    BY <2>1
  <2>8. QED
    <3> HIDE DEF j, dev
    <3>1. QED
      BY <2>5, <2>6, <2>7, BeginTyped
<1>3. ASSUME NEW id \in Ids, Check(r, id) \/ Push(r, id) \/ Revoke(r, id)
      PROVE  /\ Typed(r) /\ job'[r] \in Job /\ Confirmed(job'[r].dev)
             /\ pc'[r] \in {"inspect", "list", "check"}
             /\ pc'[r] \in {"list", "check"} => job'[r].name \in CertIds
  <2>1. PICK op \in {"test", "refresh", "push", "revoke"}, at \in {"inspect", "list", "check"},
             name \in CertIds \cup {None} :
          /\ Begin(r, at, Task(op, id, devices[id], name)) /\ id \in DOMAIN devices
          /\ at \in {"list", "check"} => name \in CertIds
    BY <1>3 DEF Check, Push, Revoke
  <2>2. devices[id] \in Device /\ Confirmed(devices[id])
    BY <2>1, Devices DEF PinsConfirmed
  <2>3. QED
    BY <2>1, <2>2, TaskType, BeginTyped
<1>4. QED
  BY <1>1, <1>2, <1>3 DEF Starts

\* How it goes on: to the next call with what it knows, or with something learned.
Calls == {<<"inspect", "create">>, <<"inspect", "update">>, <<"load", "verify">>,
          <<"rebound", "inspect">>, <<"revoke", "inspect">>}
Goes(r) ==
  \/ <<pc[r], pc'[r]>> \in Calls /\ job'[r] = job[r]
  \/ /\ pc[r] = "record" /\ pc'[r] = "rebound" /\ job'[r] = job[r]
     /\ job[r].outcome = "verified"
  \/ /\ pc[r] = "rebound" /\ pc'[r] = "repin" /\ job'[r] = job[r]
     /\ presents[Host(r)] = job[r].serial
  \/ /\ pc[r] = "list" /\ pc'[r] = "sign"
     /\ job'[r] = [job[r] EXCEPT !.peer = presents[Host(r)]]
  \/ /\ Sign(r) /\ pc[r] = "sign" /\ pc'[r] = "load"
     /\ job'[r] = [job[r] EXCEPT !.serial = serials']
  \/ /\ pc[r] = "load" /\ pc'[r] = "record"
     /\ job'[r] = [job[r] EXCEPT !.outcome = "failed"]
  \/ /\ pc[r] = "verify" /\ pc'[r] = "record"
     /\ job'[r].outcome \in Outcomes /\ (job'[r].outcome = "verified" => Seen(r))
     /\ job'[r] = [job[r] EXCEPT !.outcome = job'[r].outcome]
  \/ /\ pc[r] = "repin" /\ pc'[r] = "inspect"
     /\ job'[r] = [job[r] EXCEPT !.dev.pin = job[r].serial]
  \/ /\ CheckCert(r) /\ Removable(r) /\ pc[r] = "check" /\ pc'[r] = "revoke"
     /\ job'[r] = [job[r] EXCEPT !.peer = presents[Host(r)]]

LEMMA JobFields ==
  ASSUME NEW j \in Job
  PROVE  /\ \A x \in Fingerprints : [j EXCEPT !.peer = x] \in Job
         /\ \A x \in Serials : [j EXCEPT !.serial = x] \in Job
         /\ \A x \in Outcomes : [j EXCEPT !.outcome = x] \in Job
         /\ \A x \in Fingerprints : [j EXCEPT !.dev.pin = x] \in Job
BY DEF Job, Device

LEMMA Moves ==
  ASSUME TypeOK, Owned, Numbered, NEW r \in Requests, RequestStep(r), ~ Starts(r)
  PROVE  Typed(r) /\ (pc'[r] = "idle" \/ Goes(r))
<1>1. CASE Create(r) \/ Save(r) \/ Update(r) \/ GiveUp(r)
  BY <1>1, ReplyTyped DEF Create, Save, Update, GiveUp
<1>2. CASE Inspect(r)
  <2>1. PICK at \in {"create", "update"} : Goto(r, at)
    BY <1>2 DEF Inspect
  <2>2. QED
    BY <1>2, <2>1, GotoTyped DEF Inspect, Goes, Calls
<1>3. CASE List(r)
  <2>1. CASE Reply(r)
    BY <2>1, ReplyTyped
  <2>2. CASE Goto(r, "sign") /\ job' = [job EXCEPT ![r].peer = presents[Host(r)]]
    <3>1. [job[r] EXCEPT !.peer = presents[Host(r)]] \in Job
      BY <1>3, Devices, JobFields DEF List
    <3>2. job' = [job EXCEPT ![r] = [job[r] EXCEPT !.peer = presents[Host(r)]]]
      BY <2>2
    <3>3. QED
      BY <1>3, <2>2, <3>1, <3>2, JobTyped DEF List, Goes
  <2>3. QED
    BY <1>3, <2>1, <2>2 DEF List
<1>4. CASE Sign(r)
  <2>1. serials' \in Serials /\ pc[r] = "sign"
    BY <1>4, Bounds DEF Sign, TypeOK, Serials
  <2>2. [job[r] EXCEPT !.serial = serials'] \in Job
    BY <2>1, Devices, JobFields
  <2>3. job' = [job EXCEPT ![r] = [job[r] EXCEPT !.serial = serials']] /\ Goto(r, "load")
    BY <1>4 DEF Sign
  <2>4. QED
    BY <1>4, <2>1, <2>2, <2>3, JobTyped DEF Goes
<1>5. CASE Load(r)
  <2>1. CASE Goto(r, "verify") /\ UNCHANGED job
    BY <1>5, <2>1, GotoTyped DEF Load, Goes, Calls
  <2>2. CASE Goto(r, "record") /\ job' = [job EXCEPT ![r].outcome = "failed"]
    <3>1. [job[r] EXCEPT !.outcome = "failed"] \in Job
      BY <1>5, Devices, JobFields DEF Load, Outcomes
    <3>2. job' = [job EXCEPT ![r] = [job[r] EXCEPT !.outcome = "failed"]]
      BY <2>2
    <3>3. QED
      BY <1>5, <2>2, <3>1, <3>2, JobTyped DEF Load, Goes
  <2>3. QED
    BY <1>5, <2>1, <2>2 DEF Load
<1>6. CASE Verify(r)
  <2>1. PICK outcome \in Outcomes :
          /\ job' = [job EXCEPT ![r] = [job[r] EXCEPT !.outcome = outcome]]
          /\ outcome = "verified" => Seen(r)
    BY <1>6 DEF Verify, Outcomes
  <2>2. [job[r] EXCEPT !.outcome = outcome] \in Job
    BY <1>6, Devices, JobFields DEF Verify
  <2>3. [job[r] EXCEPT !.outcome = outcome].outcome = outcome
    BY <1>6, Devices DEF Verify, Job
  <2>4. Typed(r) /\ pc'[r] = "record" /\ job'[r] = [job[r] EXCEPT !.outcome = outcome]
    BY <1>6, <2>1, <2>2, JobTyped DEF Verify
  <2>5. QED
    BY <1>6, <2>1, <2>3, <2>4 DEF Verify, Goes
<1>7. CASE Record(r)
  <2>1. CASE job[r].outcome = "verified"
    BY <1>7, <2>1, GotoTyped DEF Record, Goes
  <2>2. CASE job[r].outcome # "verified"
    BY <1>7, <2>2, ReplyTyped DEF Record
  <2>3. QED
    BY <2>1, <2>2
<1>8. CASE Rebound(r)
  <2>1. CASE presents[Host(r)] = job[r].serial
    BY <1>8, <2>1, GotoTyped DEF Rebound, Goes
  <2>2. CASE presents[Host(r)] # job[r].serial
    BY <1>8, <2>2, GotoTyped DEF Rebound, Goes, Calls
  <2>3. QED
    BY <2>1, <2>2
<1>9. CASE Repin(r)
  <2>1. CASE Reply(r)
    BY <2>1, ReplyTyped
  <2>2. CASE job' = [job EXCEPT ![r].dev.pin = job[r].serial] /\ Goto(r, "inspect")
    <3>1. job[r].serial \in Fingerprints
      BY <1>9 DEF Repin, Owned, TypeOK, Fingerprints
    <3>2. [job[r] EXCEPT !.dev.pin = job[r].serial] \in Job
      BY <1>9, <3>1, Devices, JobFields DEF Repin
    <3>3. job' = [job EXCEPT ![r] = [job[r] EXCEPT !.dev.pin = job[r].serial]]
      BY <2>2
    <3>4. QED
      BY <1>9, <2>2, <3>2, <3>3, JobTyped DEF Repin, Goes
  <2>3. QED
    BY <1>9, <2>1, <2>2 DEF Repin
<1>10. CASE CheckCert(r)
  <2>1. CASE Reply(r)
    BY <2>1, ReplyTyped
  <2>2. CASE /\ Removable(r) /\ Goto(r, "revoke")
             /\ job' = [job EXCEPT ![r].peer = presents[Host(r)]]
    <3>1. [job[r] EXCEPT !.peer = presents[Host(r)]] \in Job
      BY <1>10, Devices, JobFields DEF CheckCert
    <3>2. job' = [job EXCEPT ![r] = [job[r] EXCEPT !.peer = presents[Host(r)]]]
      BY <2>2
    <3>3. QED
      BY <1>10, <2>2, <3>1, <3>2, JobTyped DEF CheckCert, Goes
  <2>3. QED
    BY <1>10, <2>1, <2>2 DEF CheckCert
<1>11. CASE RevokeCert(r)
  BY <1>11, GotoTyped DEF RevokeCert, Goes, Calls
<1>12. QED
  BY <1>1, <1>2, <1>3, <1>4, <1>5, <1>6, <1>7, <1>8, <1>9, <1>10, <1>11
  DEF RequestStep, Starts, Look, Install, Remove

LEMMA RequestsTyped ==
  ASSUME IInv, Next
  PROVE  /\ pc' \in [Requests -> {"idle", "save", "create", "inspect", "update", "list", "sign",
                      "load", "verify", "record", "rebound", "repin", "check", "revoke"}]
         /\ job' \in [Requests -> Job \cup {None}]
         /\ \A r \in Requests : pc'[r] # "idle" => job'[r] \in Job
<1>1. ASSUME NEW r \in Requests, RequestStep(r) PROVE Typed(r)
  BY <1>1, StartFacts, Moves DEF IInv, InventorySound
<1>2. CASE \E r \in Requests : RequestStep(r)
  BY <1>1, <1>2 DEF Typed, IInv, TypeOK
<1>3. CASE Crash
  BY <1>3 DEF Crash, IInv, TypeOK
<1>4. CASE UNCHANGED <<pc, job>>
  BY <1>4 DEF IInv, TypeOK
<1>5. QED
  BY <1>2, <1>3, <1>4, RequestSteps

----------------------------------------------------------------------------
(* The inventory.                                                          *)

\* UpdateDevice, of a record that is there.
LEMMA UpdatedFacts ==
  ASSUME TypeOK, NEW r \in Requests, NEW dev \in Device, Updated(r, dev)
  PROVE  /\ DOMAIN devices' = DOMAIN devices /\ devices' \in [DOMAIN devices' -> Device]
         /\ \A id \in DOMAIN devices :
              devices'[id] = IF id = job[r].id THEN dev ELSE devices[id]
BY DEF Updated, TypeOK

LEMMA StoredFacts ==
  ASSUME TypeOK, NEW r \in Requests, pc[r] # "idle"
  PROVE  /\ Stored(r) \in Device
         /\ job[r].id \in DOMAIN devices => Stored(r) = devices[job[r].id]
BY Devices DEF Stored

\* The record that afterInstall writes.
LEMMA RepinFacts ==
  ASSUME TypeOK, Owned, Numbered, NEW r \in Requests, Repin(r)
  PROVE  LET dev == [Stored(r) EXCEPT !.pin = job[r].serial, !.pinHost = Host(r)]
         IN /\ dev \in Device /\ dev.name = Stored(r).name /\ dev.pin = job[r].serial
            /\ job[r].serial \in held /\ job[r].serial \in Serials
            /\ Updated(r, dev)
<1>1. job[r].serial \in held /\ job[r].serial \in Serials
  BY DEF Repin, Owned, TypeOK
<1>2. Stored(r) \in Device /\ Host(r) \in Hosts
  BY Devices, StoredFacts DEF Repin
<1>3. QED
  BY <1>1, <1>2 DEF Device, Repin, Fingerprints

LEMMA DevicesTyped ==
  ASSUME IInv, Next
  PROVE  /\ DOMAIN devices' \subseteq Ids /\ devices' \in [DOMAIN devices' -> Device]
         /\ known' \in SUBSET Ids /\ last' \in [Ids -> Fingerprints \cup {None}]
<1> USE DEF IInv
<1>1. ASSUME NEW r \in Requests, Save(r) PROVE DOMAIN devices' = DOMAIN devices
        /\ devices' \in [DOMAIN devices' -> Device] /\ known' = known
        /\ last' \in [Ids -> Fingerprints \cup {None}]
  <2>1. job[r].dev \in Device /\ job[r].dev.pin \in Fingerprints
    BY <1>1, Devices DEF Save, Device
  <2>2. QED
    BY <1>1, <2>1 DEF Save, TypeOK, stored
<1>2. ASSUME NEW r \in Requests, Create(r)
      PROVE  /\ DOMAIN devices' \subseteq Ids /\ devices' \in [DOMAIN devices' -> Device]
             /\ known' \in SUBSET Ids /\ last' \in [Ids -> Fingerprints \cup {None}]
  <2>1. job[r].dev \in Device /\ job[r].dev.pin \in Fingerprints
    BY <1>2, Devices DEF Create, Device
  <2>2. CASE NameFree(None, job[r].dev.name)
    <3>1. PICK id \in NewIds :
            /\ devices' = [i \in DOMAIN devices \cup {id} |->
                             IF i = id THEN job[r].dev ELSE devices[i]]
            /\ known' = known \cup {id} /\ last' = [last EXCEPT ![id] = job[r].dev.pin]
      BY <1>2, <2>2 DEF Create
    <3>2. QED
      BY <2>1, <3>1 DEF TypeOK, NewIds
  <2>3. CASE ~ NameFree(None, job[r].dev.name)
    BY <1>2, <2>3 DEF Create, TypeOK
  <2>4. QED
    BY <2>2, <2>3
<1>3. ASSUME NEW r \in Requests, Update(r)
      PROVE  /\ DOMAIN devices' = DOMAIN devices /\ devices' \in [DOMAIN devices' -> Device]
             /\ known' = known /\ last' = last
  BY <1>3, StoredFacts, UpdatedFacts DEF Update
<1>4. ASSUME NEW r \in Requests, Repin(r)
      PROVE  /\ DOMAIN devices' = DOMAIN devices /\ devices' \in [DOMAIN devices' -> Device]
             /\ known' = known /\ last' \in [Ids -> Fingerprints \cup {None}]
  <2>1. job[r].serial \in Fingerprints
    BY <1>4, RepinFacts DEF Fingerprints
  <2>2. DOMAIN devices' = DOMAIN devices /\ devices' \in [DOMAIN devices' -> Device]
    BY <1>4, RepinFacts, UpdatedFacts
  <2>3. QED
    BY <1>4, <2>1, <2>2 DEF Repin, TypeOK
<1>5. ASSUME NEW id \in Ids, DeleteDevice(id)
      PROVE  /\ DOMAIN devices' \subseteq Ids /\ devices' \in [DOMAIN devices' -> Device]
             /\ known' = known /\ last' = last
  BY <1>5 DEF DeleteDevice, TypeOK
<1>6. CASE UNCHANGED <<devices, known>>
  <2>1. ASSUME ~ \E r \in Requests : Save(r) \/ Create(r) \/ Repin(r) PROVE last' = last
    BY <2>1 DEF Next, Inventory, Look, Install, Remove, Fetch, Add, Edit, DeleteDevice, DeleteCert,
      Check, Inspect, Update, Push, List, Sign, Load, Verify, Record, Rebound, Revoke, CheckCert,
      RevokeCert, GiveUp, Rebind, Crash
  <2>2. QED
    BY <1>1, <1>2, <1>4, <1>6, <2>1 DEF TypeOK
<1>7. QED
  BY <1>1, <1>2, <1>3, <1>4, <1>5, <1>6, DeviceSteps DEF TypeOK

\* SaveDevice looks for the name under the lock, UpdateDevice keeps it.
LEMMA UniqueNamesStep ==
  ASSUME IInv, Next PROVE UniqueNames'
<1> USE DEF IInv, InventorySound
<1>1. ASSUME NEW r \in Requests, Save(r) PROVE UniqueNames'
  BY <1>1 DEF Save, TypeOK, UniqueNames, NameFree
<1>2. ASSUME NEW r \in Requests, Create(r) PROVE UniqueNames'
  <2>1. CASE NameFree(None, job[r].dev.name)
    <3>1. PICK id \in NewIds :
            devices' = [i \in DOMAIN devices \cup {id} |->
                          IF i = id THEN job[r].dev ELSE devices[i]]
      BY <1>2, <2>1 DEF Create
    <3>2. \A o \in DOMAIN devices : devices[o].name # job[r].dev.name
      BY <2>1, Markers DEF NameFree, TypeOK
    <3>3. QED
      BY <3>1, <3>2 DEF UniqueNames
  <2>2. CASE ~ NameFree(None, job[r].dev.name)
    BY <1>2, <2>2 DEF Create, UniqueNames
  <2>3. QED
    BY <2>1, <2>2
<1>3. ASSUME NEW r \in Requests, Update(r) \/ Repin(r) PROVE UniqueNames'
  <2>1. PICK dev \in Device : Updated(r, dev) /\ dev.name = Stored(r).name
    BY <1>3, StoredFacts, RepinFacts DEF Update
  <2>2. \A id \in DOMAIN devices : devices'[id].name = devices[id].name
    BY <1>3, <2>1, UpdatedFacts, StoredFacts DEF Update, Repin
  <2>3. QED
    BY <2>1, <2>2, UpdatedFacts DEF UniqueNames
<1>4. ASSUME NEW id \in Ids, DeleteDevice(id) PROVE UniqueNames'
  BY <1>4 DEF DeleteDevice, UniqueNames
<1>5. CASE UNCHANGED <<devices, known>>
  BY <1>5 DEF UniqueNames
<1>6. QED
  BY <1>1, <1>2, <1>3, <1>4, <1>5, DeviceSteps

LEMMA PinsConfirmedStep ==
  ASSUME IInv, Next PROVE PinsConfirmed'
<1> USE DEF IInv, InventorySound
<1> DEFINE Kept(dev) == <<dev.pinHost, dev.pin>> \in fetched' \/ dev.pin \in held'
<1>1. \A dev \in Device : Confirmed(dev) => Kept(dev)
  BY Grows DEF Confirmed
<1>2. \A id \in DOMAIN devices : Kept(devices[id])
  BY <1>1, Devices DEF PinsConfirmed
<1>3. SUFFICES \A id \in DOMAIN devices' : Kept(devices'[id])
  BY DEF PinsConfirmed, Confirmed
<1>4. ASSUME NEW r \in Requests, Save(r) PROVE \A id \in DOMAIN devices' : Kept(devices'[id])
  <2>1. Kept(job[r].dev)
    BY <1>1, <1>4, Devices DEF WorksConfirmed, Save
  <2> HIDE DEF Kept
  <2>2. QED
    BY <1>2, <1>4, <2>1 DEF Save, TypeOK
<1>5. ASSUME NEW r \in Requests, Create(r) PROVE \A id \in DOMAIN devices' : Kept(devices'[id])
  <2>1. Kept(job[r].dev)
    BY <1>1, <1>5, Devices DEF WorksConfirmed, Create
  <2> HIDE DEF Kept
  <2>2. QED
    BY <1>2, <1>5, <2>1 DEF Create, TypeOK
<1>6. ASSUME NEW r \in Requests, Update(r) PROVE \A id \in DOMAIN devices' : Kept(devices'[id])
  <2>1. \A id \in DOMAIN devices : devices'[id] = devices[id] /\ DOMAIN devices' = DOMAIN devices
    BY <1>6, UpdatedFacts, StoredFacts DEF Update
  <2> HIDE DEF Kept
  <2>2. QED
    BY <1>2, <1>6, <2>1, UpdatedFacts, StoredFacts DEF Update
<1>7. ASSUME NEW r \in Requests, Repin(r) PROVE \A id \in DOMAIN devices' : Kept(devices'[id])
  <2>1. PICK dev \in Device : Updated(r, dev) /\ dev.pin \in held
    BY <1>7, RepinFacts
  <2>2. Kept(dev)
    BY <2>1, Grows
  <2> HIDE DEF Kept
  <2>3. QED
    BY <1>2, <2>1, <2>2, UpdatedFacts
<1>8. ASSUME NEW id \in Ids, DeleteDevice(id)
      PROVE  \A i \in DOMAIN devices' : Kept(devices'[i])
  <2> HIDE DEF Kept
  <2>1. QED
    BY <1>2, <1>8 DEF DeleteDevice
<1>9. CASE UNCHANGED <<devices, known>>
  BY <1>2, <1>9
<1>10. QED
  BY <1>4, <1>5, <1>6, <1>7, <1>8, <1>9, DeviceSteps

\* A request starts with a pin that was confirmed, and learns no other.
LEMMA WorksConfirmedStep ==
  ASSUME IInv, Next PROVE WorksConfirmed'
<1> USE DEF IInv, InventorySound
<1> DEFINE Kept(dev) == <<dev.pinHost, dev.pin>> \in fetched' \/ dev.pin \in held'
<1>1. \A dev \in Device : Confirmed(dev) => Kept(dev)
  BY Grows DEF Confirmed
<1>2. \A r \in Requests : pc[r] # "idle" => Kept(job[r].dev)
  BY <1>1, Devices DEF WorksConfirmed
<1>3. SUFFICES \A r \in Requests : pc'[r] # "idle" => Kept(job'[r].dev)
  BY DEF WorksConfirmed, Confirmed
<1>4. ASSUME NEW r \in Requests, RequestStep(r)
      PROVE  \A q \in Requests : pc'[q] # "idle" => Kept(job'[q].dev)
  <2>1. Typed(r) /\ (pc'[r] # "idle" => Kept(job'[r].dev))
    <3>1. CASE Starts(r)
      <4>1. job'[r].dev \in Device
        BY <3>1, StartFacts DEF Job
      <4>2. QED
        BY <1>1, <3>1, <4>1, StartFacts
    <3>2. CASE ~ Starts(r)
      <4>1. Typed(r) /\ (pc'[r] = "idle" \/ Goes(r))
        BY <1>4, <3>2, Moves
      <4>2. ASSUME Goes(r) PROVE Kept(job'[r].dev)
        <5>1. pc[r] # "idle" /\ job[r] \in Job /\ job[r].dev \in Device
          BY <4>2, Devices DEF Goes, Calls
        <5>2. CASE pc[r] = "repin"
          <6>1. job[r].serial \in held /\ job'[r] = [job[r] EXCEPT !.dev.pin = job[r].serial]
            BY <4>2, <5>2 DEF Goes, Calls, Owned
          <6>2. job'[r].dev.pin = job[r].serial
            BY <5>1, <6>1 DEF Job, Device
          <6>3. QED
            BY <6>1, <6>2, Grows
        <5>3. CASE pc[r] # "repin"
          <6>1. \A x : /\ [job[r] EXCEPT !.peer = x].dev = job[r].dev
                       /\ [job[r] EXCEPT !.serial = x].dev = job[r].dev
                       /\ [job[r] EXCEPT !.outcome = x].dev = job[r].dev
            BY <5>1 DEF Job
          <6>2. CASE pc[r] = "verify" /\ pc'[r] = "record"
            <7>1. <<pc[r], pc'[r]>> \notin Calls
              BY <6>2 DEF Calls
            <7>2. job'[r] = [job[r] EXCEPT !.outcome = job'[r].outcome]
              BY <4>2, <6>2, <7>1 DEF Goes
            <7>3. job'[r].dev = job[r].dev
              BY <5>1, <7>2 DEF Job
            <7>4. QED
              BY <1>2, <5>1, <7>3
          <6>3. CASE ~ (pc[r] = "verify" /\ pc'[r] = "record")
            <7>1. job'[r].dev = job[r].dev
              BY <4>2, <5>3, <6>1, <6>3 DEF Goes
            <7>2. QED
              BY <1>2, <5>1, <7>1
          <6>4. QED
            BY <6>2, <6>3
        <5>4. QED
          BY <5>2, <5>3
      <4>3. QED
        BY <4>1, <4>2
    <3>3. QED
      BY <3>1, <3>2
  <2> HIDE DEF Kept
  <2>2. QED
    BY <1>2, <2>1 DEF Typed
<1>5. CASE Crash
  BY <1>5 DEF Crash
<1>6. CASE UNCHANGED <<pc, job>>
  BY <1>2, <1>6
<1>7. QED
  BY <1>4, <1>5, <1>6, RequestSteps

----------------------------------------------------------------------------
(* The switches and the records.                                           *)

\* One name of one switch gets another certificate, or none.
LEMMA InstalledFacts ==
  ASSUME NEW f \in [Hosts -> [CertIds -> Fingerprints \cup {None}]],
         NEW host, NEW name, NEW x \in Fingerprints \cup {None}
  PROVE  LET g == [f EXCEPT ![host][name] = x]
         IN /\ g \in [Hosts -> [CertIds -> Fingerprints \cup {None}]]
            /\ \A h \in Hosts, c \in CertIds :
                 g[h][c] = IF h = host /\ c = name THEN x ELSE f[h][c]
<1> DEFINE row == [f[host] EXCEPT ![name] = x]
           g == [f EXCEPT ![host] = row]
<1>1. CASE host \in Hosts
  <2>1. row \in [CertIds -> Fingerprints \cup {None}]
    BY <1>1
  <2>2. \A c \in CertIds : row[c] = IF c = name THEN x ELSE f[host][c]
    BY <1>1
  <2>3. QED
    <3> HIDE DEF row
    <3>1. g \in [Hosts -> [CertIds -> Fingerprints \cup {None}]]
      BY <2>1
    <3>2. \A h \in Hosts : g[h] = IF h = host THEN row ELSE f[h]
      BY <1>1
    <3>3. QED
      BY <2>2, <3>1, <3>2 DEF row
<1>2. CASE host \notin Hosts
  BY <1>2
<1>3. QED
  BY <1>1, <1>2

LEMMA SwitchTyped ==
  ASSUME IInv, Next
  PROVE  /\ installed' \in [Hosts -> [CertIds -> Fingerprints \cup {None}]]
         /\ presents' \in [Hosts -> Fingerprints] /\ held' \subseteq Serials
         /\ Taken'
<1> USE DEF IInv
<1>1. ASSUME NEW r \in Requests, Load(r)
      PROVE  /\ installed' \in [Hosts -> [CertIds -> Fingerprints \cup {None}]]
             /\ presents' \in [Hosts -> Fingerprints] /\ held' \subseteq Serials
             /\ Taken'
  <2>1. job[r].serial \in Serials /\ job[r].serial \in Fingerprints
    BY <1>1 DEF Load, Owned, TypeOK, Fingerprints
  <2>2. CASE /\ installed' = [installed EXCEPT ![Host(r)][job[r].name] = job[r].serial]
             /\ held' = held \cup {job[r].serial}
    <3>1. installed' \in [Hosts -> [CertIds -> Fingerprints \cup {None}]]
      BY <2>1, <2>2, InstalledFacts DEF TypeOK
    <3>2. \A h \in Hosts, c \in CertIds :
            installed'[h][c] \in {installed[h][c], job[r].serial}
      BY <2>1, <2>2, InstalledFacts DEF TypeOK
    <3>3. QED
      BY <1>1, <2>1, <2>2, <3>1, <3>2 DEF Load, TypeOK, Taken
  <2>3. CASE UNCHANGED <<installed, held>>
    BY <1>1, <2>3 DEF Load, TypeOK, Taken
  <2>4. QED
    BY <1>1, <2>2, <2>3 DEF Load
<1>2. ASSUME NEW r \in Requests, RevokeCert(r)
      PROVE  /\ installed' \in [Hosts -> [CertIds -> Fingerprints \cup {None}]]
             /\ presents' \in [Hosts -> Fingerprints] /\ held' \subseteq Serials
             /\ Taken'
  <2>1. CASE installed' = [installed EXCEPT ![Host(r)][job[r].name] = None]
    <3>1. installed' \in [Hosts -> [CertIds -> Fingerprints \cup {None}]]
      BY <2>1, InstalledFacts DEF TypeOK
    <3>2. \A h \in Hosts, c \in CertIds : installed'[h][c] \in {installed[h][c], None}
      BY <2>1, InstalledFacts DEF TypeOK
    <3>3. None \notin Serials
      BY Markers DEF Fingerprints
    <3>4. QED
      BY <1>2, <3>1, <3>2, <3>3 DEF RevokeCert, TypeOK, Taken
  <2>2. CASE UNCHANGED installed
    BY <1>2, <2>2 DEF RevokeCert, TypeOK, Taken
  <2>3. QED
    BY <1>2, <2>1, <2>2 DEF RevokeCert
<1>3. ASSUME NEW h \in Hosts, Rebind(h)
      PROVE  /\ installed' \in [Hosts -> [CertIds -> Fingerprints \cup {None}]]
             /\ presents' \in [Hosts -> Fingerprints] /\ held' \subseteq Serials
             /\ Taken'
  <2>1. PICK f \in ({installed[h][c] : c \in CertIds} \ {None}) \cup {h, Other} :
          presents' = [presents EXCEPT ![h] = f]
    BY <1>3 DEF Rebind
  <2>2. f \in Fingerprints /\ (f \in Serials => f \in held)
    BY Bounds, Markers DEF TypeOK, Taken, Fingerprints, Serials
  <2>3. QED
    BY <1>3, <2>1, <2>2 DEF Rebind, TypeOK, Taken
<1>4. CASE UNCHANGED switch
  BY <1>4 DEF switch, TypeOK, Taken
<1>5. QED
  BY <1>1, <1>2, <1>3, <1>4, SwitchSteps

LEMMA FetchedTyped ==
  ASSUME TypeOK, Next PROVE fetched' \subseteq Hosts \X Fingerprints
<1>1. ASSUME NEW h \in Hosts, Fetch(h) PROVE fetched' \subseteq Hosts \X Fingerprints
  BY <1>1 DEF Fetch, TypeOK
<1>2. CASE fetched' = fetched
  BY <1>2 DEF TypeOK
<1>3. (\E h \in Hosts : Fetch(h)) \/ fetched' = fetched
  BY DEF Next, Inventory, Look, Install, Remove, Add, Create, Save, Edit, DeleteDevice, DeleteCert,
  Check, Inspect, Update, Push, List, Sign, Load, Verify, Record, Rebound, Repin, Revoke, CheckCert,
  RevokeCert, GiveUp, Rebind, Crash
<1>4. QED
  BY <1>1, <1>2, <1>3

\* Sign takes a number that nobody has had.
LEMMA IndexTyped ==
  ASSUME IInv, Next
  PROVE  /\ DOMAIN index' \subseteq Serials /\ index' \in [DOMAIN index' -> SUBSET Outcomes]
         /\ removed' \in SUBSET Serials /\ serials' \in 0 .. MaxSerial /\ serials' >= serials
         /\ DOMAIN index' \cup removed' \subseteq 1 .. serials'
         /\ DOMAIN index \cup removed \subseteq DOMAIN index' \cup removed'
         /\ DeletedStaysUnlisted'
<1> DEFINE Goal == /\ DOMAIN index' \subseteq Serials /\ index' \in [DOMAIN index' -> SUBSET Outcomes]
                   /\ removed' \in SUBSET Serials /\ serials' \in 0 .. MaxSerial /\ serials' >= serials
                   /\ DOMAIN index' \cup removed' \subseteq 1 .. serials'
                   /\ DOMAIN index \cup removed \subseteq DOMAIN index' \cup removed'
                   /\ DeletedStaysUnlisted'
<1> USE DEF IInv, RecordsTellTheTruth
<1>1. ASSUME NEW r \in Requests, Sign(r) PROVE Goal
  <2>1. serials \in Nat /\ serials' = serials + 1 /\ serials' \in Serials /\ serials' <= MaxSerial
    BY <1>1, Bounds DEF Sign, TypeOK, Serials
  <2>2. serials' \notin DOMAIN index \cup removed
    BY <2>1 DEF Numbered
  <2>3. /\ DOMAIN index' = DOMAIN index \cup {serials'} /\ removed' = removed
        /\ index' = [x \in DOMAIN index \cup {serials'} |-> IF x = serials' THEN {} ELSE index[x]]
    BY <1>1 DEF Sign, Listed
  <2>4. DOMAIN index' \cup removed' \subseteq 1 .. serials'
    BY <2>1, <2>3 DEF Numbered
  <2>5. index' \in [DOMAIN index' -> SUBSET Outcomes]
    BY <2>3 DEF TypeOK
  <2>6. QED
    BY <2>1, <2>2, <2>3, <2>4, <2>5 DEF TypeOK, DeletedStaysUnlisted
<1>2. ASSUME NEW r \in Requests, Record(r) PROVE Goal
  <2>1. job[r].outcome \in Outcomes
    BY <1>2 DEF Record, Owned
  <2>2. DOMAIN index' = DOMAIN index /\ UNCHANGED <<removed, serials>>
    BY <1>2 DEF Record, Recorded
  <2>3. index' \in [DOMAIN index' -> SUBSET Outcomes]
    BY <1>2, <2>1 DEF Record, Recorded, TypeOK
  <2>4. QED
    BY <2>2, <2>3, Bounds DEF TypeOK, Numbered, DeletedStaysUnlisted
<1>3. ASSUME NEW s \in Serials, DeleteCert(s) PROVE Goal
  <2>1. /\ DOMAIN index' = DOMAIN index \ {s} /\ removed' = removed \cup {s}
        /\ serials' = serials /\ s \in DOMAIN index
        /\ index' \in [DOMAIN index' -> SUBSET Outcomes]
    BY <1>3 DEF DeleteCert, TypeOK
  <2>2. QED
    BY <2>1, Bounds DEF TypeOK, Numbered, DeletedStaysUnlisted
<1>4. CASE UNCHANGED <<index, removed, serials>>
  BY <1>4, Bounds DEF TypeOK, Numbered, DeletedStaysUnlisted
<1>5. QED
  BY <1>1, <1>2, <1>3, <1>4, IndexSteps

\* What was taken by a switch is what a push was about to send.
LEMMA HeldSteps ==
  ASSUME TypeOK, Next
  PROVE  held' = held \/ \E r \in Requests : Load(r) /\ held' = held \cup {job[r].serial}
BY SwitchSteps DEF Load, RevokeCert, Rebind, switch

LEMMA NumberedStep ==
  ASSUME IInv, Next
  PROVE  Numbered' /\ InstalledIsListed'
<1> USE DEF IInv, RecordsTellTheTruth
<1>1. held' \subseteq DOMAIN index \cup removed
  BY HeldSteps DEF InstalledIsListed, Owned, Load
<1>2. held' \subseteq DOMAIN index' \cup removed'
  BY <1>1, IndexTyped
<1>3. QED
  BY <1>2, IndexTyped DEF Numbered, InstalledIsListed

LEMMA VerifiedStep ==
  ASSUME IInv, Next
  PROVE  VerifiedWasHeld'
<1> USE DEF IInv, RecordsTellTheTruth
<1>1. ASSUME NEW r \in Requests, Sign(r) PROVE VerifiedWasHeld'
  BY <1>1, Grows DEF Sign, Listed, VerifiedWasHeld
<1>2. ASSUME NEW r \in Requests, Record(r) PROVE VerifiedWasHeld'
  BY <1>2, Grows DEF Record, Recorded, VerifiedWasHeld, Owned
<1>3. ASSUME NEW s \in Serials, DeleteCert(s) PROVE VerifiedWasHeld'
  BY <1>3, Grows DEF DeleteCert, VerifiedWasHeld
<1>4. CASE UNCHANGED <<index, removed, serials>>
  BY <1>4, Grows DEF VerifiedWasHeld
<1>5. QED
  BY <1>1, <1>2, <1>3, <1>4, IndexSteps

\* Credentials go to who presents the pin of the request, or what it has just sent.
LEMMA CredentialsStep ==
  ASSUME IInv, Next
  PROVE  CredentialsKept'
<1> USE DEF IInv
<1> DEFINE Trusted == {f[2] : f \in fetched} \cup held
<1>0. told \subseteq Trusted
  BY DEF CredentialsKept
<1>1. Trusted \subseteq {f[2] : f \in fetched'} \cup held'
  BY Grows
<1>2. ASSUME NEW r \in Requests, Inspect(r) \/ List(r) \/ CheckCert(r)
      PROVE  told' \subseteq Trusted
  <2>1. told' = told \cup {presents[Host(r)]} /\ presents[Host(r)] = job[r].dev.pin
    BY <1>2 DEF Inspect, List, CheckCert, Login, Pinned
  <2>2. Confirmed(job[r].dev)
    BY <1>2 DEF Inspect, List, CheckCert, WorksConfirmed
  <2>3. <<job[r].dev.pinHost, job[r].dev.pin>>[2] = job[r].dev.pin
    OBVIOUS
  <2>4. job[r].dev.pin \in Trusted
    BY <2>2, <2>3 DEF Confirmed
  <2>5. QED
    BY <2>1, <2>4 DEF CredentialsKept
<1>3. ASSUME NEW r \in Requests, Verify(r)
      PROVE  told' \subseteq Trusted
  <2>1. CASE told' = told
    BY <2>1 DEF CredentialsKept
  <2>2. CASE Pinned(r, {job[r].serial}) /\ Login(r)
    <3>1. job[r].serial \in Serials /\ Host(r) \in Hosts
      BY <1>3, Devices DEF Verify, Owned, TypeOK
    <3>2. presents[Host(r)] \in {job[r].dev.pin, job[r].serial}
      BY <2>2 DEF Pinned
    <3>3. CASE presents[Host(r)] = job[r].serial
      BY <2>2, <3>1, <3>3 DEF Taken, Login, CredentialsKept
    <3>4. CASE presents[Host(r)] = job[r].dev.pin
      <4>1. Confirmed(job[r].dev)
        BY <1>3 DEF Verify, WorksConfirmed
      <4>2. <<job[r].dev.pinHost, job[r].dev.pin>>[2] = job[r].dev.pin
        OBVIOUS
      <4>3. job[r].dev.pin \in Trusted
        BY <4>1, <4>2 DEF Confirmed
      <4>4. QED
        BY <2>2, <3>4, <4>3 DEF Login, CredentialsKept
    <3>5. QED
      BY <3>2, <3>3, <3>4
  <2>3. QED
    BY <1>3, <2>1, <2>2 DEF Verify
<1>5. told' \subseteq Trusted
  <2> HIDE DEF Trusted
  <2>1. QED
    BY <1>0, <1>2, <1>3, ToldSteps
<1>6. QED
  BY <1>1, <1>5 DEF CredentialsKept

----------------------------------------------------------------------------
(* What a request in the middle of a push or a removal may rely on.        *)

\* The serial and the name of a request are its own once it has them.
LEMMA GoesFields ==
  ASSUME TypeOK, NEW r \in Requests, Goes(r)
  PROVE  /\ pc[r] # "idle" /\ job'[r].name = job[r].name
         /\ pc[r] # "sign" => job'[r].serial = job[r].serial
         /\ pc'[r] \in {"load", "verify", "record", "rebound", "repin"} /\ pc'[r] # "load" =>
              pc[r] \in {"load", "verify", "record", "rebound", "repin"}
<1>1. pc[r] # "idle"
  BY DEF Goes, Calls
<1>2. job[r] \in Job
  BY <1>1, Devices
<1>3. CASE job'[r] = job[r]
  BY <1>3 DEF Goes, Calls
<1>4. CASE job'[r] = [job[r] EXCEPT !.peer = presents[Host(r)]]
  BY <1>2, <1>4 DEF Goes, Calls, Job
<1>5. CASE pc[r] = "sign" /\ pc'[r] = "load" /\ job'[r] = [job[r] EXCEPT !.serial = serials']
  BY <1>2, <1>5 DEF Job
<1>6. CASE /\ pc[r] \in {"load", "verify"} /\ pc'[r] = "record"
           /\ \/ job'[r] = [job[r] EXCEPT !.outcome = "failed"]
              \/ job'[r] = [job[r] EXCEPT !.outcome = job'[r].outcome]
  BY <1>2, <1>6 DEF Job
<1>7. CASE pc[r] = "repin" /\ pc'[r] = "inspect" /\ job'[r] = [job[r] EXCEPT !.dev.pin = job[r].serial]
  BY <1>2, <1>7 DEF Job
<1>8. QED
  BY <1>1, <1>3, <1>4, <1>5, <1>6, <1>7 DEF Goes

\* What is on its way to a switch has not been there, whatever is sent to another.
LEMMA UnsentStep ==
  ASSUME IInv, Next, NEW q \in Requests, pc[q] = "load", pc'[q] = "load"
  PROVE  job[q].serial \notin held'
<1>1. job[q].serial \notin held
  BY DEF IInv, Owned
<1>2. ASSUME NEW r \in Requests, Load(r), held' = held \cup {job[r].serial}
      PROVE  job[q].serial \notin held'
  <2>1. pc'[r] # "load" /\ pc[r] = "load"
    BY <1>2 DEF Load, Goto, IInv, TypeOK
  <2>2. job[q].serial # job[r].serial
    BY <2>1 DEF IInv, Owned
  <2>3. QED
    BY <1>1, <1>2, <2>2
<1>3. QED
  BY <1>1, <1>2, HeldSteps DEF IInv

LEMMA SignFacts ==
  ASSUME IInv, NEW r \in Requests, Sign(r)
  PROVE  /\ serials' \in Serials /\ serials' \in DOMAIN index' /\ held' = held
         /\ serials' \notin DOMAIN index \cup removed \cup held
<1>1. serials \in Nat /\ serials' = serials + 1 /\ serials' \in Serials
  BY Bounds DEF IInv, TypeOK, Sign, Serials
<1>2. serials' \notin 1 .. serials
  BY <1>1
<1>3. QED
  BY <1>1, <1>2 DEF IInv, Numbered, Sign, Listed, switch

LEMMA OwnedStep ==
  ASSUME IInv, Next PROVE Owned'
<1> USE DEF IInv
<1> DEFINE Pushing == {"load", "verify", "record", "rebound", "repin"}
           Mine(q) ==
             /\ pc'[q] \in Pushing => job'[q].serial \in DOMAIN index' \cup removed'
             /\ pc'[q] = "load" => job'[q].serial \notin held'
             /\ pc'[q] = "record" => job'[q].outcome \in Outcomes
             /\ pc'[q] \in {"rebound", "repin"}
                  \/ (pc'[q] = "record" /\ job'[q].outcome = "verified") =>
                  job'[q].serial \in held'
           Apart2(p, q) == pc'[p] = "load" /\ pc'[q] = "load" => job'[p].serial # job'[q].serial
<1>1. SUFFICES \A q \in Requests : Mine(q) /\ \A p \in Requests \ {q} : Apart2(p, q)
  BY DEF Owned
<1>2. ASSUME NEW q \in Requests, pc'[q] = pc[q], job'[q] = job[q] PROVE Mine(q)
  <2>1. pc'[q] = "load" => job'[q].serial \notin held'
    BY <1>2, UnsentStep
  <2>2. QED
    BY <1>2, <2>1, Grows, IndexTyped DEF Owned
<1>3. ASSUME NEW p \in Requests, NEW q \in Requests \ {p}, pc'[q] = pc[q], job'[q] = job[q],
             pc'[p] = pc[p], job'[p] = job[p]
      PROVE  Apart2(p, q)
  BY <1>3 DEF Owned
<1>4. ASSUME NEW r \in Requests, RequestStep(r)
      PROVE  \A q \in Requests : Mine(q) /\ \A p \in Requests \ {q} : Apart2(p, q)
  <2>1. CASE Starts(r)
    <3>1. Typed(r) /\ pc'[r] \in {"save", "inspect", "list", "check"}
      BY <2>1, StartFacts DEF InventorySound
    <3>2. Mine(r) /\ \A q \in Requests : Apart2(r, q) /\ Apart2(q, r)
      BY <3>1
    <3> HIDE DEF Mine, Apart2
    <3>3. QED
      BY <1>2, <1>3, <3>1, <3>2 DEF Typed
  <2>2. CASE ~ Starts(r)
    <3>1. Typed(r) /\ (pc'[r] = "idle" \/ Goes(r))
      BY <1>4, <2>2, Moves
    <3>2. CASE pc'[r] # "load"
      <4>1. \A q \in Requests : Apart2(r, q) /\ Apart2(q, r)
        BY <3>2
      <4>2. Mine(r)
        <5>1. CASE pc'[r] = "idle"
          BY <5>1
        <5>2. CASE Goes(r)
          <6>1. pc'[r] \in Pushing => pc[r] \in Pushing /\ job'[r].serial = job[r].serial
            BY <3>2, <5>2, GoesFields
          <6>2. pc'[r] \in Pushing => job'[r].serial \in DOMAIN index' \cup removed'
            BY <6>1, IndexTyped DEF Owned
          <6>3. ASSUME pc'[r] \in {"rebound", "repin"} PROVE job'[r].serial \in held'
            <7>1. job'[r].serial = job[r].serial /\ job[r].serial \in Serials /\ Host(r) \in Hosts
              BY <6>1, <6>3, Devices DEF Owned, TypeOK
            <7>2. job[r].serial \in held \/ presents[Host(r)] = job[r].serial
              BY <5>2, <6>3 DEF Goes, Calls, Owned
            <7>3. QED
              BY <7>1, <7>2, Grows DEF Taken
          <6>4. ASSUME pc'[r] = "record"
                PROVE  /\ job'[r].outcome \in Outcomes
                       /\ job'[r].outcome = "verified" => job'[r].serial \in held'
            <7>1. CASE pc[r] = "load" /\ job'[r] = [job[r] EXCEPT !.outcome = "failed"]
              BY <7>1, Devices DEF Job, Outcomes
            <7>2. CASE /\ pc[r] = "verify" /\ job'[r].outcome \in Outcomes
                       /\ job'[r].outcome = "verified" => Seen(r)
              <8>1. /\ job'[r].serial = job[r].serial /\ job[r].serial \in Serials
                    /\ Host(r) \in Hosts /\ job[r].name \in CertIds
                BY <6>1, <6>4, <7>2, Devices DEF Owned, Apart, TypeOK
              <8>2. QED
                BY <7>2, <8>1, Grows DEF Seen, Taken
            <7>3. QED
              BY <5>2, <6>4, <7>1, <7>2 DEF Goes, Calls
          <6>5. QED
            BY <3>2, <6>2, <6>3, <6>4
        <5>3. QED
          BY <3>1, <5>1, <5>2
      <4> HIDE DEF Mine, Apart2
      <4>3. QED
        BY <1>2, <1>3, <3>1, <4>1, <4>2 DEF Typed
    <3>3. CASE pc'[r] = "load"
      <4>1. Sign(r) /\ job'[r] = [job[r] EXCEPT !.serial = serials'] /\ pc[r] = "sign"
        BY <3>1, <3>3 DEF Goes, Calls
      <4>2. job'[r].serial = serials'
        BY <4>1, Devices DEF Job
      <4>3. Mine(r)
        BY <3>3, <4>1, <4>2, SignFacts
      <4>4. ASSUME NEW q \in Requests \ {r} PROVE Apart2(r, q) /\ Apart2(q, r)
        <5>1. pc'[q] = pc[q] /\ job'[q] = job[q]
          BY <3>1 DEF Typed
        <5>2. QED
          BY <4>1, <4>2, <5>1, SignFacts DEF Owned
      <4> HIDE DEF Mine, Apart2
      <4>5. QED
        BY <1>2, <1>3, <3>1, <4>3, <4>4 DEF Typed
    <3>4. QED
      BY <3>2, <3>3
  <2>3. QED
    BY <2>1, <2>2
<1>5. CASE Crash
  BY <1>5 DEF Crash
<1>6. CASE UNCHANGED <<pc, job>>
  <2> HIDE DEF Mine, Apart2
  <2>1. QED
    BY <1>2, <1>3, <1>6
<1>7. QED
  BY <1>4, <1>5, <1>6, RequestSteps

\* A certificate under the name that is going to be removed is new, and presented by
\* no connection that is open.
LEMMA ApartStep ==
  ASSUME IInv, Next PROVE Apart'
<1> USE DEF IInv
<1> DEFINE Named(q) == pc'[q] \in {"list", "sign", "load", "verify", "check", "revoke"} =>
                         job'[q].name \in CertIds
           Removing(q) == pc'[q] = "revoke" =>
             /\ job'[q].name \notin Protected
             /\ installed'[job'[q].dev.host][job'[q].name] # job'[q].peer
             /\ job'[q].peer # None /\ (job'[q].peer \in Serials => job'[q].peer \in held')
<1>1. SUFFICES \A q \in Requests : Named(q) /\ Removing(q)
  BY DEF Apart, Host
<1>2. ASSUME NEW q \in Requests, pc'[q] = pc[q], job'[q] = job[q] PROVE Named(q) /\ Removing(q)
  <2>1. Named(q)
    BY <1>2 DEF Apart
  <2>2. ASSUME pc[q] = "revoke"
        PROVE  installed'[Host(q)][job[q].name] # job[q].peer
    <3>1. /\ Host(q) \in Hosts /\ job[q].name \in CertIds
          /\ installed[Host(q)][job[q].name] # job[q].peer /\ job[q].peer # None
          /\ job[q].peer \in Serials => job[q].peer \in held
      BY <2>2, Devices DEF Apart
    <3>2. ASSUME NEW r \in Requests, Load(r)
          PROVE  installed'[Host(q)][job[q].name] # job[q].peer
      <4>1. job[r].serial \in Serials /\ job[r].serial \notin held /\ job[r].serial \in Fingerprints
        BY <3>2 DEF Load, Owned, TypeOK, Fingerprints
      <4>2. installed'[Host(q)][job[q].name] \in {installed[Host(q)][job[q].name], job[r].serial}
        BY <3>1, <3>2, <4>1, InstalledFacts DEF Load, TypeOK
      <4>3. QED
        BY <3>1, <4>1, <4>2
    <3>3. ASSUME NEW r \in Requests, RevokeCert(r)
          PROVE  installed'[Host(q)][job[q].name] # job[q].peer
      BY <3>1, <3>3, InstalledFacts DEF RevokeCert, TypeOK
    <3>4. QED
      BY <3>1, <3>2, <3>3, SwitchSteps DEF Rebind, switch
  <2>3. QED
    BY <1>2, <2>1, <2>2, Grows DEF Apart, Host
<1>3. ASSUME NEW r \in Requests, RequestStep(r) PROVE \A q \in Requests : Named(q) /\ Removing(q)
  <2>1. Typed(r) /\ Named(r) /\ Removing(r)
    <3>1. CASE Starts(r)
      BY <3>1, StartFacts DEF InventorySound
    <3>2. CASE ~ Starts(r)
      <4>1. Typed(r) /\ (pc'[r] = "idle" \/ Goes(r))
        BY <1>3, <3>2, Moves
      <4>2. CASE pc'[r] = "idle"
        BY <4>1, <4>2
      <4>3. CASE Goes(r)
        <5>1. Named(r)
          BY <4>3, GoesFields DEF Goes, Calls, Apart
        <5>2. CASE pc'[r] = "revoke"
          <6>1. /\ CheckCert(r) /\ Removable(r) /\ pc[r] = "check"
                /\ job'[r] = [job[r] EXCEPT !.peer = presents[Host(r)]]
            BY <4>3, <5>2 DEF Goes, Calls
          <6>2. /\ job'[r].peer = presents[Host(r)] /\ job'[r].name = job[r].name
                /\ job'[r].dev.host = Host(r) /\ Host(r) \in Hosts
            BY <6>1, Devices DEF Job, Host
          <6>3. installed' = installed /\ held' = held
            BY <6>1 DEF CheckCert, switch
          <6>4. presents[Host(r)] # None
            BY <6>2, Markers, Devices
          <6>5. QED
            BY <4>1, <5>1, <6>1, <6>2, <6>3, <6>4 DEF Removable, Taken
        <5>3. QED
          BY <4>1, <5>1, <5>2
      <4>4. QED
        BY <4>1, <4>2, <4>3
    <3>3. QED
      BY <3>1, <3>2
  <2> HIDE DEF Named, Removing
  <2>2. QED
    BY <1>2, <2>1 DEF Typed
<1>4. CASE Crash
  BY <1>4 DEF Crash
<1>5. CASE UNCHANGED <<pc, job>>
  <2> HIDE DEF Named, Removing
  <2>1. QED
    BY <1>2, <1>5
<1>6. QED
  BY <1>3, <1>4, <1>5, RequestSteps

----------------------------------------------------------------------------
LEMMA IInvStep ==
  ASSUME IInv, [Next]_vars PROVE IInv'
<1>1. CASE Next
  <2>1. TypeOK'
    BY <1>1, RequestsTyped, DevicesTyped, SwitchTyped, FetchedTyped, IndexTyped DEF IInv, TypeOK
  <2>2. InventorySound'
    BY <1>1, UniqueNamesStep, PinsConfirmedStep DEF InventorySound
  <2>3. RecordsTellTheTruth'
    BY <1>1, VerifiedStep, NumberedStep, IndexTyped DEF RecordsTellTheTruth
  <2>4. QED
    BY <1>1, <2>1, <2>2, <2>3, WorksConfirmedStep, SwitchTyped, NumberedStep, OwnedStep, ApartStep,
      CredentialsStep DEF IInv
<1>2. CASE UNCHANGED vars
  BY <1>2 DEF vars, stored, switch, IInv, TypeOK, WorksConfirmed, Confirmed, Taken, Numbered, Owned,
    Apart, Host, InventorySound, UniqueNames, PinsConfirmed, CredentialsKept, RecordsTellTheTruth,
    VerifiedWasHeld, InstalledIsListed, DeletedStaysUnlisted
<1>3. QED
  BY <1>1, <1>2

\* The inventory, the switches and the requests agree in every reachable state: a
\* request works with a confirmed pin, a switch holds no certificate that it was not
\* sent, and a push has a recorded certificate of its own (gnoiPush, afterInstall).
THEOREM Invariant == Spec => []IInv
<1>1. Init => IInv
  BY InitIInv
<1>2. IInv /\ [Next]_vars => IInv'
  BY IInvStep
<1>3. QED
  BY <1>1, <1>2, PTL DEF Spec

\* The variables keep their types.
THEOREM TypeCorrect == Spec => []TypeOK
<1>1. IInv => TypeOK
  BY DEF IInv
<1>2. QED
  BY <1>1, Invariant, PTL

\* Names stay unique, and every pin was fetched from its address and compared, or is a
\* certificate that a push installed (SaveDevice, deviceFromForm, afterInstall).
THEOREM InventoryIsSound == Spec => []InventorySound
<1>1. IInv => InventorySound
  BY DEF IInv
<1>2. QED
  BY <1>1, Invariant, PTL

\* Credentials are sent to nobody but the holder of a confirmed certificate, or of one
\* that a push has just installed (gnoiTLSConfig).
THEOREM CredentialsAreKept == Spec => []CredentialsKept
<1>1. IInv => CredentialsKept
  BY DEF IInv
<1>2. QED
  BY <1>1, Invariant, PTL

\* What the records say of a push is what happened on the switch (gnoiInstall, AddPush).
THEOREM RecordsAreTrue == Spec => []RecordsTellTheTruth
<1>1. IInv => RecordsTellTheTruth
  BY DEF IInv
<1>2. QED
  BY <1>1, Invariant, PTL

\* A deleted device does not come back, whatever was talking to it (SaveDevice,
\* UpdateDevice).
THEOREM DeletionIsFinal == Spec => DeletedStaysDeleted
<1>1. ASSUME IInv, [Next]_vars
      PROVE  \A id \in known : id \notin DOMAIN devices => id \notin DOMAIN devices'
  <2>1. ASSUME NEW r \in Requests, Save(r) PROVE DOMAIN devices' = DOMAIN devices
    BY <2>1 DEF Save
  <2>2. ASSUME NEW r \in Requests, Create(r)
        PROVE  \/ devices' = devices
               \/ \E id \in NewIds : DOMAIN devices' = DOMAIN devices \cup {id}
    BY <2>2 DEF Create
  <2>3. ASSUME NEW r \in Requests, Update(r) \/ Repin(r) PROVE DOMAIN devices' = DOMAIN devices
    BY <2>3 DEF Update, Repin, Updated
  <2>4. ASSUME NEW id \in Ids, DeleteDevice(id) PROVE DOMAIN devices' \subseteq DOMAIN devices
    BY <2>4 DEF DeleteDevice
  <2>5. CASE UNCHANGED vars
    BY <2>5 DEF vars, stored
  <2>6. QED
    BY <1>1, <2>1, <2>2, <2>3, <2>4, <2>5, DeviceSteps DEF NewIds
<1>2. QED
  BY <1>1, Invariant, PTL DEF Spec, DeletedStaysDeleted

\* No step removes a protected certificate, or the one that a port presents
\* (gnoiRevoke), not even when another push has put it there since it was looked at.
THEOREM ServedCertificatesStay == Spec => ServedIsSpared
<1>1. ASSUME IInv, [Next]_vars
      PROVE  \A h \in Hosts, c \in CertIds :
               installed[h][c] # None /\ installed'[h][c] = None
                 => c \notin Protected /\ installed[h][c] # presents[h]
  <2> SUFFICES ASSUME NEW h \in Hosts, NEW c \in CertIds,
                      installed[h][c] # None, installed'[h][c] = None
               PROVE  c \notin Protected /\ installed[h][c] # presents[h]
    OBVIOUS
  <2>1. TypeOK /\ Owned /\ Apart
    BY <1>1 DEF IInv
  <2>2. ASSUME NEW r \in Requests, Load(r) PROVE FALSE
    <3>1. job[r].serial \in Serials
      BY <2>1, <2>2 DEF Load, Owned, TypeOK
    <3>2. job[r].serial \in Fingerprints /\ job[r].serial # None
      BY <3>1, Markers DEF Fingerprints
    <3>3. installed'[h][c] \in {installed[h][c], job[r].serial}
      <4>1. CASE installed' = [installed EXCEPT ![Host(r)][job[r].name] = job[r].serial]
        BY <2>1, <3>2, <4>1, InstalledFacts DEF TypeOK
      <4>2. QED
        BY <2>2, <4>1 DEF Load
    <3>4. QED
      BY <3>2, <3>3
  <2>3. ASSUME NEW r \in Requests, RevokeCert(r)
        PROVE  c \notin Protected /\ installed[h][c] # presents[h]
    <3>1. Connected(r) /\ installed' = [installed EXCEPT ![Host(r)][job[r].name] = None]
      BY <2>3 DEF RevokeCert
    <3>2. h = Host(r) /\ c = job[r].name
      BY <2>1, <3>1, InstalledFacts DEF TypeOK
    <3>3. QED
      BY <2>1, <2>3, <3>1, <3>2 DEF RevokeCert, Connected, Apart
  <2>4. QED
    BY <1>1, <2>2, <2>3, SwitchSteps DEF Rebind, switch, vars
<1>2. QED
  BY <1>1, Invariant, PTL DEF Spec, ServedIsSpared
=============================================================================
