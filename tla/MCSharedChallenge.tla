------------------------ MODULE MCSharedChallenge ------------------------
(* Instances of SharedChallenge for TLC.                                   *)
EXTENDS SharedChallenge, TLC

CONSTANTS plain, named, sw1, sw2, fqdn, c1, c2

TwoChallenges == {c1, c2}
TwoCsrs == {plain, named}
TwoSources == {sw1, sw2}
OneName == {fqdn}
AsksOne == (plain :> {}) @@ (named :> {fqdn})
\* The range of both switches, with the domain of their name or without names.
WithName == [ranges |-> TwoSources, suffixes |-> OneName]
Plain == [ranges |-> TwoSources, suffixes |-> {}]
BothOptions == {WithName, Plain}

\* A behaviour of a scene: one challenge with names, under changes of the network, over
\* the retention; or two without names, which fill the journal, with a backup that is
\* restored at some time.
VARIABLE restoring

OptionsUsed == {[ranges |-> journal[c].ranges, suffixes |-> journal[c].suffixes] :
                  c \in DOMAIN journal}
Within ==
  IF restoring
  THEN /\ OptionsUsed' \subseteq {Plain} /\ edits' = 0
       /\ now' <= Window /\ Cardinality(DOMAIN minted') < MaxCerts
       /\ \A x \in DOMAIN minted' : minted'[x].csr = plain
  ELSE /\ OptionsUsed' \subseteq {WithName} /\ snapshot' = None
       /\ created' \subseteq {c1}

SceneInit == Init /\ restoring \in BOOLEAN
SceneNext == Next /\ Within /\ UNCHANGED restoring
SceneSpec == SceneInit /\ [][SceneNext]_<<vars, restoring>>
===========================================================================
