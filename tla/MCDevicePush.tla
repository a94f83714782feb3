---------------------------- MODULE MCDevicePush ----------------------------
(* Instances of DevicePush for TLC.                                        *)
EXTENDS DevicePush, TLC

CONSTANTS r1, r2, h1, h2, d1, d2, n1, n2, sudi, web

TwoRequests == {r1, r2}
OneHost == {h1}
TwoHosts == {h1, h2}
OneDevice == {d1}
TwoDevices == {d1, d2}
OneName == {n1}
TwoNames == {n1, n2}
OneCert == {web}
WithSudi == {sudi, web}
Sudi == {sudi}
Nobody == {}
Symmetry == Permutations(TwoRequests)

\* A behaviour of a scene: one device at one address is pushed to, edited and deleted;
\* one device is moved between two addresses; or two devices are added, renamed and
\* looked at while the process may die.
VARIABLE scene

Ops == {job[r].op : r \in {q \in Requests : pc[q] # "idle"}}
NamesUsed == {devices[i].name : i \in DOMAIN devices}
               \cup {job[r].dev.name : r \in {q \in Requests : pc[q] # "idle"}}
OneDeviceOnly == known' \subseteq {d1} /\ NamesUsed' \subseteq {n1} /\ crashes' = 0
OneHostOnly ==
  /\ \A f \in fetched' : f[1] = h1
  /\ \A h \in Hosts \ {h1} : presents'[h] = h
Within ==
  \/ scene = "pushing" /\ OneDeviceOnly /\ OneHostOnly
  \/ scene = "moving" /\ OneDeviceOnly /\ Ops' \cap {"push", "revoke"} = {}
  \/ scene = "naming" /\ OneHostOnly /\ Ops' \cap {"push", "revoke"} = {}

SceneInit == Init /\ scene \in {"pushing", "moving", "naming"}
SceneNext == Next /\ Within /\ UNCHANGED scene
SceneSpec == SceneInit /\ [][SceneNext]_<<vars, scene>>
=============================================================================
