----------------------------- MODULE ClientProofs -----------------------------
(*****************************************************************************)
(* Proofs about two parts of the client that share nothing: its              *)
(* configuration (ManagedConfig), for any number of servers, nodes, names,   *)
(* edits, credentials and crashes, and the block-IP requests of a session    *)
(* (BlockRequests), for any set of requests, any number of answers and any   *)
(* timing of the end of the session.                                         *)
(*****************************************************************************)
EXTENDS ManagedConfig, BlockRequests, WellFoundedInduction, TLAPS

-----------------------------------------------------------------------------
(* Configurations and their fields.                                        *)

LEMMA CredentialFacts ==
    /\ NoCred \in Credentials
    /\ \A c \in Credentials : Access(c) \in Credentials /\ (c # NoCred => Access(c) # NoCred)
    /\ \A c \in Credentials : c.kind # "boot" => Access(c) = c
<1>1. NoCred \in Credentials BY DEF NoCred, Credentials
<1>2. ASSUME NEW c \in Credentials PROVE Access(c) \in Credentials
  BY DEF Access, Credentials
<1>3. ASSUME NEW c \in Credentials, c # NoCred PROVE Access(c) # NoCred
  <2>1. CASE c.kind = "boot"
    <3>1. Access(c).kind = "access" BY <2>1 DEF Access, Credentials
    <3>2. NoCred.kind = "none" BY DEF NoCred
    <3> QED BY <3>1, <3>2
  <2>2. CASE c.kind # "boot"
    <3>1. Access(c) = c BY <2>2 DEF Access, Credentials
    <3> QED BY <1>3, <3>1
  <2> QED BY <2>1, <2>2
<1>4. ASSUME NEW c \in Credentials, c.kind # "boot" PROVE Access(c) = c
  BY <1>4 DEF Access, Credentials
<1> QED BY <1>1, <1>2, <1>3, <1>4

ServerIds == {<<>>, BuiltIn.id, <<"current-custom">>} \cup {s.id : s \in Customs}

LEMMA ConfigFields ==
    ASSUME NEW c \in Configs
    PROVE  /\ \A v \in Credentials : /\ [c EXCEPT !.boot = v] \in Configs
                                     /\ [c EXCEPT !.token = v] \in Configs
                                     /\ [c EXCEPT !.pass = v] \in Configs
           /\ \A v \in Addrs \cup {""} : [c EXCEPT !.addr = v] \in Configs
           /\ \A v \in Names : [c EXCEPT !.tls = v] \in Configs
           /\ \A v \in Nodes : [c EXCEPT !.node = v] \in Configs
           /\ \A v \in ServerIds : [c EXCEPT !.sel = v] \in Configs
           /\ \A v \in Seq(Customs) : [c EXCEPT !.list = v] \in Configs
           /\ \A v \in Nat : [c EXCEPT !.presets = v] \in Configs
<1>1. \A v \in Credentials : [c EXCEPT !.boot = v] \in Configs BY DEF Configs
<1>2. \A v \in Credentials : [c EXCEPT !.token = v] \in Configs BY DEF Configs
<1>3. \A v \in Credentials : [c EXCEPT !.pass = v] \in Configs BY DEF Configs
<1>4. \A v \in Addrs \cup {""} : [c EXCEPT !.addr = v] \in Configs BY DEF Configs
<1>5. \A v \in Names : [c EXCEPT !.tls = v] \in Configs BY DEF Configs
<1>6. \A v \in Nodes : [c EXCEPT !.node = v] \in Configs BY DEF Configs
<1>7. \A v \in ServerIds : [c EXCEPT !.sel = v] \in Configs BY DEF Configs, ServerIds
<1>8. \A v \in Seq(Customs) : [c EXCEPT !.list = v] \in Configs BY DEF Configs
<1>9. \A v \in Nat : [c EXCEPT !.presets = v] \in Configs BY DEF Configs
<1> QED BY <1>1, <1>2, <1>3, <1>4, <1>5, <1>6, <1>7, <1>8, <1>9

LEMMA FieldTypes ==
    ASSUME NEW c \in Configs
    PROVE  /\ c.boot \in Credentials /\ c.token \in Credentials /\ c.pass \in Credentials
           /\ c.addr \in Addrs \cup {""} /\ c.tls \in Names /\ c.node \in Nodes
           /\ c.sel \in ServerIds /\ c.list \in Seq(Customs) /\ c.presets \in Nat
BY DEF Configs, ServerIds

(* A server's id is never empty.                                           *)
LEMMA IdFacts ==
    /\ BuiltIn.id \in ServerIds \ {<<>>} /\ <<"current-custom">> \in ServerIds \ {<<>>}
    /\ \A s \in Customs : s.id \in ServerIds \ {<<>>} /\ s.addr \in Addrs /\ s.tls \in Names
BY DEF ServerIds, Customs, CustomServer, BuiltIn

Servers == [id : ServerIds \ {<<>>}, addr : Addrs, tls : Names]

LEMMA ServerFacts == BuiltIn \in Servers /\ Customs \subseteq Servers
<1>1. BuiltIn.id \in ServerIds \ {<<>>} BY IdFacts
<1>2. BuiltIn \in Servers BY <1>1, ManagedAssumption DEF Servers, BuiltIn
<1>3. ASSUME NEW s \in Customs PROVE s \in Servers
  <2>1. PICK a \in Addrs, t \in Names : s = CustomServer(a, t) BY DEF Customs
  <2>2. s = [id |-> s.id, addr |-> s.addr, tls |-> s.tls] BY <2>1 DEF CustomServer
  <2>3. s.id \in ServerIds \ {<<>>} /\ s.addr \in Addrs /\ s.tls \in Names BY IdFacts
  <2> QED BY <2>2, <2>3 DEF Servers
<1> QED BY <1>2, <1>3

LEMMA SeqOfMore ==
    ASSUME NEW S, NEW T, S \subseteq T, NEW s \in Seq(S)
    PROVE  s \in Seq(T)
OBVIOUS

LEMMA CatalogTypes ==
    ASSUME NEW c \in Configs
    PROVE  Catalog(c) \in Seq(Servers) /\ Catalog(c) # <<>>
<1> DEFINE listed == <<BuiltIn>> \o c.list
<1>1. c.list \in Seq(Servers) BY FieldTypes, ServerFacts, SeqOfMore
<1>2. <<BuiltIn>> \in Seq(Servers) BY ServerFacts
<1>3. listed \in Seq(Servers) /\ Len(listed) > 0 BY <1>1, <1>2
<1>4. ASSUME c.addr # ""
      PROVE  [id |-> <<"current-custom">>, addr |-> c.addr, tls |-> c.tls] \in Servers
  BY <1>4, IdFacts, FieldTypes DEF Servers
<1> HIDE DEF listed
<1>5. \A s \in Servers : Append(listed, s) \in Seq(Servers) /\ Append(listed, s) # <<>>
  BY <1>3
<1>6. listed # <<>> BY <1>3
<1> QED BY <1>3, <1>4, <1>5, <1>6 DEF Catalog, listed

LEMMA CatalogServers ==
    ASSUME NEW c \in Configs
    PROVE  ToSet(Catalog(c)) \subseteq Servers
BY CatalogTypes DEF ToSet

(* A set of indices has a least one.                                       *)
LEMMA LeastIn ==
    ASSUME NEW S, S \subseteq Nat, S # {}
    PROVE  Min(S) \in S
<1> DEFINE Less == {ss \in Nat \X Nat : ss[1] < ss[2]}
<1>1. IsWellFoundedOn(Less, Nat) BY NatLessThanWellFounded DEF OpToRel
<1>2. PICK x \in S : \A y \in S : ~(<<y, x>> \in Less) BY <1>1, WFMin
<1>3. ASSUME NEW y \in S PROVE x <= y
  <2>1. x \in Nat /\ y \in Nat OBVIOUS
  <2>2. y < x => <<y, x>> \in Less BY <2>1
  <2> QED BY <1>2, <2>1, <2>2
<1> QED BY <1>3 DEF Min

LEMMA IDForAddressTypes ==
    ASSUME NEW list \in Seq(Servers), NEW a
    PROVE  IDForAddress(list, a) \in ServerIds
<1> DEFINE found == {i \in DOMAIN list : list[i].addr = a}
<1>1. CASE found = {} BY <1>1 DEF IDForAddress, ServerIds
<1>2. CASE found # {}
  <2>1. Min(found) \in found BY <1>2, LeastIn
  <2>2. list[Min(found)] \in Servers BY <2>1
  <2>3. IDForAddress(list, a) = list[Min(found)].id BY <1>2 DEF IDForAddress
  <2>4. \A s \in Servers : s.id \in ServerIds BY DEF Servers
  <2> QED BY <2>2, <2>3, <2>4
<1> QED BY <1>1, <1>2

LEMMA SelectedTypes ==
    ASSUME NEW c \in Configs
    PROVE  Selected(c) \in ServerIds \ {<<>>}
<1> DEFINE servers == Catalog(c)
<1>1. servers \in Seq(Servers) /\ servers # <<>> BY CatalogTypes
<1>2. servers[1] \in Servers BY <1>1
<1>3. \A s \in Servers : s.id \in ServerIds \ {<<>>} BY DEF Servers
<1>4. IDForAddress(servers, c.addr) \in ServerIds BY <1>1, IDForAddressTypes
<1>5. CASE \E s \in ToSet(servers) : s.id = c.sel /\ s.addr = c.addr
  <2>1. c.sel \in ServerIds \ {<<>>} BY <1>3, <1>5, CatalogServers
  <2> QED BY <1>5, <2>1 DEF Selected
<1>6. CASE ~\E s \in ToSet(servers) : s.id = c.sel /\ s.addr = c.addr
  <2>1. Selected(c) = IF IDForAddress(servers, c.addr) # <<>> THEN IDForAddress(servers, c.addr)
                      ELSE servers[1].id
    BY <1>6 DEF Selected
  <2> HIDE DEF servers
  <2> QED BY <1>2, <1>3, <1>4, <2>1
<1> QED BY <1>5, <1>6

LEMMA StoredTypes ==
    ASSUME NEW c \in Configs
    PROVE  /\ Stored(c) \in Configs /\ EditsOf(Stored(c)) = EditsOf(c)
           /\ Stored(c).sel = c.sel /\ Stored(c).list = c.list
<1>1. Stored(c) \in Configs
  BY ConfigFields, CredentialFacts DEF Stored
<1>2. /\ Stored(c).sel = c.sel /\ Stored(c).list = c.list /\ Stored(c).presets = c.presets
  BY DEF Stored, Configs
<1> QED BY <1>1, <1>2 DEF EditsOf

LEMMA PreparedTypes ==
    ASSUME NEW c \in Configs
    PROVE  /\ Prepared(c) \in Configs /\ Prepared(c).sel # <<>>
           /\ \A f \in {"boot", "addr", "tls", "token", "pass", "node", "list", "presets"} :
                 Prepared(c)[f] = c[f]
           /\ c.sel # <<>> => Prepared(c) = c
<1>1. Selected(c) \in ServerIds \ {<<>>} BY SelectedTypes
<1>2. Prepared(c) \in Configs BY <1>1, ConfigFields DEF Prepared
<1>3. Prepared(c).sel # <<>> BY <1>1 DEF Prepared, Configs
<1>4. \A f \in {"boot", "addr", "tls", "token", "pass", "node", "list", "presets"} :
          Prepared(c)[f] = c[f]
  BY DEF Prepared, Configs
<1> QED BY <1>2, <1>3, <1>4 DEF Prepared

LEMMA ResolvedTypes ==
    ASSUME NEW c \in Configs
    PROVE  /\ Resolved(c) \in Configs
           /\ \A f \in {"boot", "tls", "pass", "sel", "list", "presets"} : Resolved(c)[f] = c[f]
<1>1. \A b \in Credentials : b.at \in Addrs \cup {""} /\ b.node \in Nodes \cup {""}
  BY DEF Credentials
<1>2. c.boot \in Credentials /\ Access(c.boot) \in Credentials /\ c.pass \in Credentials
  BY FieldTypes, CredentialFacts
<1>3. CASE c.boot # NoCred
  <2> DEFINE c1 == [c EXCEPT !.addr = c.boot.at]
             c2 == [c1 EXCEPT !.token = Access(c.boot)]
             n == IF c.boot.node # "" THEN c.boot.node ELSE c.node
  <2>1. c1 \in Configs BY <1>1, <1>2, ConfigFields
  <2>2. c2 \in Configs BY <1>2, <2>1, ConfigFields
  <2>3. n \in Nodes BY <1>1, <1>2, FieldTypes
  <2>4. [c2 EXCEPT !.node = n] \in Configs BY <2>2, <2>3, ConfigFields
  <2>5. Resolved(c) = [c EXCEPT !.addr = c.boot.at, !.token = Access(c.boot), !.node = n]
    BY <1>3 DEF Resolved, Configs
  <2>6. Resolved(c) = [c2 EXCEPT !.node = n] BY <2>5 DEF Configs
  <2>7. \A f \in {"boot", "tls", "pass", "sel", "list", "presets"} : Resolved(c)[f] = c[f]
    BY <2>5 DEF Configs
  <2> QED BY <2>4, <2>6, <2>7
<1>4. CASE c.boot = NoCred
  <2>1. Resolved(c) \in Configs BY <1>2, <1>4, ConfigFields DEF Resolved
  <2>2. \A f \in {"boot", "tls", "pass", "sel", "list", "presets"} : Resolved(c)[f] = c[f]
    BY <1>4 DEF Resolved, Configs
  <2> QED BY <2>1, <2>2
<1> QED BY <1>3, <1>4

-----------------------------------------------------------------------------
(* The stored form is read back as what was saved.                         *)

(* A configuration the client runs with: a bootstrap token decides server, *)
(* token and node, and an enrolment password is kept with a token only.    *)
WellFormed(c) ==
    /\ c.sel # <<>>
    /\ c.boot # NoCred => /\ c.addr = c.boot.at /\ c.token = Access(c.boot)
                          /\ c.pass = NoCred
                          /\ c.boot.node # "" => c.node = c.boot.node
    /\ c.boot = NoCred /\ c.token = NoCred => c.pass = NoCred

(* What SaveConfig leaves out of the file, readConfig puts back: a         *)
(* configuration the client runs with is read back as it was saved.        *)
THEOREM RoundTrip ==
    ASSUME NEW c \in Configs, WellFormed(c)
    PROVE  Prepared(Stored(c)) = Stored(c) /\ Resolved(Stored(c)) = c
<1>0. Prepared(Stored(c)) = Stored(c) BY StoredTypes, PreparedTypes DEF WellFormed
<1>1. CASE c.boot # NoCred
  <2>1. Stored(c) = [c EXCEPT !.addr = "", !.token = NoCred, !.pass = NoCred]
    BY <1>1 DEF Stored
  <2>2. /\ Stored(c).boot = c.boot /\ Stored(c).node = c.node
    BY <2>1 DEF Configs
  <2>3. Resolved(Stored(c)) = [Stored(c) EXCEPT !.addr = c.boot.at, !.token = Access(c.boot),
                                                !.node = c.node]
    BY <1>1, <2>2, StoredTypes DEF Resolved, WellFormed, Configs
  <2>4. c.addr = c.boot.at /\ c.token = Access(c.boot) /\ c.pass = NoCred
    BY <1>1 DEF WellFormed
  <2>5. [[c EXCEPT !.addr = "", !.token = NoCred, !.pass = NoCred]
            EXCEPT !.addr = c.addr, !.token = c.token, !.node = c.node]
          = [c EXCEPT !.pass = NoCred]
    BY DEF Configs
  <2>6. [c EXCEPT !.pass = c.pass] = c BY DEF Configs
  <2>7. Resolved(Stored(c)) = c BY <2>1, <2>3, <2>4, <2>5, <2>6
  <2> QED BY <1>0, <2>7
<1>2. CASE c.boot = NoCred /\ c.pass # NoCred /\ c.token = c.pass
  <2>1. Stored(c) = [c EXCEPT !.token = NoCred] BY <1>2 DEF Stored
  <2>2. Stored(c).boot = NoCred /\ Stored(c).token = NoCred /\ Stored(c).pass = c.pass
    BY <1>2, <2>1 DEF Configs
  <2>3. Resolved(Stored(c)) = [Stored(c) EXCEPT !.token = c.pass] BY <2>2 DEF Resolved
  <2>4. [[c EXCEPT !.token = NoCred] EXCEPT !.token = c.token] = c BY DEF Configs
  <2>5. Resolved(Stored(c)) = [[c EXCEPT !.token = NoCred] EXCEPT !.token = c.token]
    BY <1>2, <2>1, <2>3
  <2> QED BY <1>0, <2>4, <2>5
<1>3. CASE c.boot = NoCred /\ ~(c.pass # NoCred /\ c.token = c.pass)
  <2>1. Stored(c) = c BY <1>3 DEF Stored
  <2>2. CASE c.token = NoCred
    <3>1. c.pass = c.token BY <1>3, <2>2 DEF WellFormed
    <3>2. Resolved(c) = [c EXCEPT !.token = c.token] BY <1>3, <2>2, <3>1 DEF Resolved
    <3> QED BY <1>0, <2>1, <3>2 DEF Configs
  <2>3. CASE c.token # NoCred BY <1>0, <1>3, <2>1, <2>3 DEF Resolved
  <2> QED BY <2>2, <2>3
<1> QED BY <1>1, <1>2, <1>3

(* What the file is read back as: what was saved, or the initial           *)
(* configuration.                                                          *)
FileHolds(c) == c \in Configs /\ WellFormed(c) /\ file = <<Stored(c)>>

LEMMA FileConfigOfSaved ==
    ASSUME NEW c, FileHolds(c)
    PROVE  FileConfig = c /\ Seed = Stored(c)
<1>1. file # <<>> /\ file[1] = Stored(c) BY DEF FileHolds
<1>2. Seed = Prepared(Stored(c)) BY <1>1 DEF Seed
<1> QED BY <1>2, RoundTrip DEF FileHolds, FileConfig

Initial ==
    [boot |-> NoCred, addr |-> "", tls |-> PlainTls, token |-> NoCred, pass |-> NoCred,
     node |-> Hostname, sel |-> <<>>, list |-> <<>>, presets |-> 0]

LEMMA FileConfigOfNone ==
    ASSUME file = <<>>
    PROVE  /\ Seed \in Configs /\ Seed.sel # <<>> /\ EditsOf(Seed) = EditsOf(FileConfig)
           /\ Seed.list = <<>> /\ Seed.tls \in Names
           /\ FileConfig \in Configs /\ WellFormed(FileConfig) /\ ~Valid(FileConfig)
           /\ FileConfig.list = <<>>
<1>0. PlainTls \in Names /\ Hostname \in Nodes /\ NoCred \in Credentials
  BY CredentialFacts, ManagedAssumption
<1>1. Initial \in Configs
  <2>1. <<>> \in Seq(Customs) /\ 0 \in Nat OBVIOUS
  <2> QED BY <1>0, <2>1 DEF Initial, Configs
<1>2. Seed = Prepared(Initial) BY DEF Seed, Initial
<1>3. /\ Seed \in Configs /\ Seed.sel # <<>>
      /\ \A f \in {"boot", "addr", "tls", "token", "pass", "node", "list", "presets"} :
            Seed[f] = Initial[f]
  BY <1>1, <1>2, PreparedTypes
<1>4. /\ Seed.boot = NoCred /\ Seed.token = NoCred /\ Seed.pass = NoCred /\ Seed.addr = ""
      /\ Seed.list = <<>>
  BY <1>3 DEF Initial
<1>5. FileConfig = [Seed EXCEPT !.token = NoCred] BY <1>4 DEF FileConfig, Resolved
<1>6. FileConfig \in Configs BY <1>3, <1>5, ConfigFields, CredentialFacts
<1>7. /\ FileConfig.boot = NoCred /\ FileConfig.token = NoCred /\ FileConfig.pass = NoCred
      /\ FileConfig.sel # <<>> /\ FileConfig.list = Seed.list
      /\ FileConfig.presets = Seed.presets
  BY <1>3, <1>4, <1>5 DEF Configs
<1>8. Seed.tls \in Names BY <1>3, FieldTypes
<1> QED BY <1>3, <1>4, <1>6, <1>7, <1>8 DEF WellFormed, Valid, EditsOf

FileInv == file = <<>> \/ FileHolds(FileConfig)

LEMMA FileConfigFacts ==
    ASSUME FileInv
    PROVE  /\ Seed \in Configs /\ Seed.sel # <<>> /\ EditsOf(Seed) = EditsOf(FileConfig)
           /\ Seed.list = FileConfig.list
           /\ FileConfig \in Configs /\ WellFormed(FileConfig)
<1>1. CASE file = <<>>  BY <1>1, FileConfigOfNone
<1>2. CASE FileHolds(FileConfig)
  <2>1. Seed = Stored(FileConfig) BY <1>2, FileConfigOfSaved
  <2>2. FileConfig \in Configs /\ WellFormed(FileConfig) BY <1>2 DEF FileHolds
  <2> QED BY <2>1, <2>2, StoredTypes DEF WellFormed
<1> QED BY <1>1, <1>2 DEF FileInv

-----------------------------------------------------------------------------
(* What a writer installs.                                                 *)

NoRepeats(list) == \A i, j \in DOMAIN list : list[i] = list[j] => i = j

LEMMA ApplyHostedTypes ==
    ASSUME NEW c \in Configs, NEW s \in ToSet(Catalog(c))
    PROVE  /\ ApplyHosted(c, s) \in Configs /\ ApplyHosted(c, s).sel # <<>>
           /\ \A f \in {"boot", "token", "pass", "node", "list", "presets"} :
                 ApplyHosted(c, s)[f] = c[f]
<1>1. s.id \in ServerIds \ {<<>>} /\ s.addr \in Addrs \cup {""} /\ s.tls \in Names
  BY CatalogServers DEF Servers
<1>2. CASE s.id = Selected(c) /\ s.addr = c.addr
  <2>1. ApplyHosted(c, s) = [c EXCEPT !.sel = s.id] BY <1>2 DEF ApplyHosted
  <2>2. [c EXCEPT !.sel = s.id] \in Configs BY <1>1, ConfigFields
  <2>3. /\ ApplyHosted(c, s).sel = s.id
        /\ \A f \in {"boot", "token", "pass", "node", "list", "presets"} :
              ApplyHosted(c, s)[f] = c[f]
    BY <2>1 DEF Configs
  <2> QED BY <1>1, <2>1, <2>2, <2>3
<1>3. CASE ~(s.id = Selected(c) /\ s.addr = c.addr)
  <2> DEFINE c1 == [c EXCEPT !.sel = s.id]
             c2 == [c1 EXCEPT !.addr = s.addr]
  <2>1. ApplyHosted(c, s) = [c EXCEPT !.sel = s.id, !.addr = s.addr, !.tls = s.tls]
    BY <1>3 DEF ApplyHosted
  <2>2. c1 \in Configs BY <1>1, ConfigFields
  <2>3. c2 \in Configs BY <1>1, <2>2, ConfigFields
  <2>4. [c2 EXCEPT !.tls = s.tls] \in Configs BY <1>1, <2>3, ConfigFields
  <2>5. ApplyHosted(c, s) = [c2 EXCEPT !.tls = s.tls] BY <2>1 DEF Configs
  <2>6. /\ ApplyHosted(c, s).sel = s.id
        /\ \A f \in {"boot", "token", "pass", "node", "list", "presets"} :
              ApplyHosted(c, s)[f] = c[f]
    BY <2>1 DEF Configs
  <2> QED BY <1>1, <2>4, <2>5, <2>6
<1> QED BY <1>2, <1>3

(* n is c with the credential cred.                                        *)
WithCredential(n, c, cred) ==
    /\ n \in Configs
    /\ \A f \in {"addr", "tls", "sel", "list", "presets"} : n[f] = c[f]
    /\ n.token = Access(cred)
    /\ cred.kind = "boot" => n.boot = cred /\ n.pass = NoCred
    /\ cred.kind # "boot" => n.boot = NoCred
    /\ n.node = IF cred.kind = "boot" /\ cred.node # "" THEN cred.node ELSE c.node

LEMMA ApplyCredentialTypes ==
    ASSUME NEW c \in Configs, NEW cred \in Credentials, cred # NoCred
    PROVE  WithCredential(ApplyCredential(c, cred), c, cred)
<1>0. cred.node \in Nodes \cup {""} BY DEF Credentials
<1>1. Access(cred) \in Credentials /\ NoCred \in Credentials BY CredentialFacts
<1>2. CASE cred.kind = "boot"
  <2> DEFINE n == IF cred.node # "" THEN cred.node ELSE c.node
             c1 == [c EXCEPT !.boot = cred]
             c2 == [c1 EXCEPT !.token = Access(cred)]
             c3 == [c2 EXCEPT !.pass = NoCred]
  <2>1. c1 \in Configs BY ConfigFields
  <2>2. c2 \in Configs BY <1>1, <2>1, ConfigFields
  <2>3. c3 \in Configs BY <1>1, <2>2, ConfigFields
  <2>4. n \in Nodes BY <1>0, FieldTypes
  <2>5. [c3 EXCEPT !.node = n] \in Configs BY <2>3, <2>4, ConfigFields
  <2>6. ApplyCredential(c, cred) = [c EXCEPT !.boot = cred, !.token = Access(cred),
                                             !.pass = NoCred, !.node = n]
    BY <1>2 DEF ApplyCredential, Configs
  <2>7. ApplyCredential(c, cred) = [c3 EXCEPT !.node = n] BY <2>6 DEF Configs
  <2>8. /\ \A f \in {"addr", "tls", "sel", "list", "presets"} : ApplyCredential(c, cred)[f] = c[f]
        /\ ApplyCredential(c, cred).token = Access(cred)
        /\ ApplyCredential(c, cred).boot = cred /\ ApplyCredential(c, cred).pass = NoCred
        /\ ApplyCredential(c, cred).node = n
    BY <2>6 DEF Configs
  <2> QED BY <1>2, <2>5, <2>7, <2>8 DEF WithCredential
<1>3. CASE cred.kind # "boot"
  <2> DEFINE c1 == [c EXCEPT !.boot = NoCred]
             c2 == [c1 EXCEPT !.token = cred]
  <2>1. c1 \in Configs BY <1>1, ConfigFields
  <2>2. c2 \in Configs BY <2>1, ConfigFields
  <2>3. [c2 EXCEPT !.pass = cred] \in Configs BY <2>2, ConfigFields
  <2>4. ApplyCredential(c, cred) = [c EXCEPT !.boot = NoCred, !.token = cred, !.pass = cred]
    BY <1>3 DEF ApplyCredential
  <2>5. ApplyCredential(c, cred) = [c2 EXCEPT !.pass = cred] BY <2>4 DEF Configs
  <2>6. Access(cred) = cred BY <1>3, CredentialFacts
  <2>7. /\ \A f \in {"addr", "tls", "sel", "list", "presets"} : ApplyCredential(c, cred)[f] = c[f]
        /\ ApplyCredential(c, cred).token = cred
        /\ ApplyCredential(c, cred).boot = NoCred
        /\ ApplyCredential(c, cred).node = c.node
    BY <2>4 DEF Configs
  <2> QED BY <1>3, <2>3, <2>5, <2>6, <2>7 DEF WithCredential
<1> QED BY <1>2, <1>3

-----------------------------------------------------------------------------
(* The lists of servers a writer makes.                                    *)

LEMMA Appended ==
    ASSUME NEW S, NEW list \in Seq(S), NEW e \in S, e \notin ToSet(list), NoRepeats(list)
    PROVE  /\ Append(list, e) \in Seq(S) /\ NoRepeats(Append(list, e))
           /\ ToSet(Append(list, e)) = ToSet(list) \cup {e}
           /\ Len(Append(list, e)) = Len(list) + 1
<1> DEFINE new == Append(list, e)
<1>1. /\ new \in Seq(S) /\ Len(new) = Len(list) + 1 /\ new[Len(list) + 1] = e
      /\ DOMAIN new = 1..(Len(list) + 1) /\ DOMAIN list = 1..Len(list)
      /\ \A i \in 1..Len(list) : new[i] = list[i]
  OBVIOUS
<1>2. Len(list) \in Nat OBVIOUS
<1>3. \A i \in 1..Len(list) : list[i] # e BY <1>1 DEF ToSet
<1> HIDE DEF new
<1>4. NoRepeats(new) BY <1>1, <1>2, <1>3 DEF NoRepeats
<1>5. ToSet(new) = ToSet(list) \cup {e} BY <1>1, <1>2 DEF ToSet
<1> QED BY <1>1, <1>4, <1>5 DEF new

LEMMA Removed ==
    ASSUME NEW S, NEW list \in Seq(S), NEW i \in DOMAIN list, NoRepeats(list)
    PROVE  /\ RemoveAt(list, i) \in Seq(S) /\ NoRepeats(RemoveAt(list, i))
           /\ ToSet(RemoveAt(list, i)) = ToSet(list) \ {list[i]}
           /\ Len(RemoveAt(list, i)) <= Len(list)
<1> DEFINE n == Len(list)
           front == SubSeq(list, 1, i - 1)
           back == SubSeq(list, i + 1, n)
           new == RemoveAt(list, i)
           at(j) == IF j < i THEN j ELSE j + 1
<1>1. n \in Nat /\ i \in 1..n /\ DOMAIN list = 1..n OBVIOUS
<1>2. front \in Seq(S) /\ Len(front) = i - 1 /\ \A j \in 1..(i - 1) : front[j] = list[j]
  BY <1>1
<1>3. back \in Seq(S) /\ Len(back) = n - i /\ \A j \in 1..(n - i) : back[j] = list[i + j]
  BY <1>1
<1>4. new = front \o back BY DEF RemoveAt
<1> HIDE DEF front, back, new
<1>5. /\ new \in Seq(S) /\ Len(new) = n - 1
      /\ \A j \in 1..(i - 1) : new[j] = front[j]
      /\ \A j \in 1..(n - i) : new[i - 1 + j] = back[j]
  <2>0. front \in Seq(S) /\ back \in Seq(S) BY <1>2, <1>3
  <2>1. new \in Seq(S) BY <1>4, <2>0
  <2>2. Len(new) = Len(front) + Len(back) BY <1>4, <2>0
  <2>6. \A k \in 1..(Len(front) + Len(back)) :
           new[k] = IF k <= Len(front) THEN front[k] ELSE back[k - Len(front)]
    BY <1>4, <2>0
  <2>7. Len(front) = i - 1 /\ Len(back) = n - i BY <1>2, <1>3
  <2>3. ASSUME NEW j \in 1..(i - 1) PROVE new[j] = front[j]
    <3>1. j \in 1..((i - 1) + (n - i)) /\ j <= i - 1 BY <1>1
    <3> QED BY <2>6, <2>7, <3>1
  <2>4. ASSUME NEW j \in 1..(n - i) PROVE new[i - 1 + j] = back[j]
    <3>1. i - 1 + j \in 1..((i - 1) + (n - i)) /\ ~(i - 1 + j <= i - 1) BY <1>1
    <3>2. (i - 1 + j) - (i - 1) = j BY <1>1
    <3> QED BY <2>6, <2>7, <3>1, <3>2
  <2>5. Len(front) + Len(back) = n - 1 BY <1>1, <1>2, <1>3
  <2> QED BY <2>1, <2>2, <2>3, <2>4, <2>5
<1>6. DOMAIN new = 1..(n - 1) BY <1>5
<1>7. \A j \in 1..(n - 1) : at(j) \in 1..n /\ at(j) # i /\ new[j] = list[at(j)]
  <2> SUFFICES ASSUME NEW j \in 1..(n - 1)
               PROVE  at(j) \in 1..n /\ at(j) # i /\ new[j] = list[at(j)]
    OBVIOUS
  <2>1. CASE j < i
    <3>1. j \in 1..(i - 1) BY <1>1, <2>1
    <3>2. new[j] = list[j] BY <1>2, <1>5, <3>1
    <3> QED BY <1>1, <2>1, <3>2
  <2>2. CASE ~(j < i)
    <3> DEFINE k == j - (i - 1)
    <3>1. k \in 1..(n - i) /\ i - 1 + k = j /\ i + k = j + 1 BY <1>1, <2>2
    <3> HIDE DEF k
    <3>2. new[j] = list[j + 1] BY <1>3, <1>5, <3>1
    <3> QED BY <1>1, <2>2, <3>2
  <2> QED BY <2>1, <2>2
<1>8. \A j \in 1..n : j # i => \E k \in 1..(n - 1) : new[k] = list[j]
  <2> SUFFICES ASSUME NEW j \in 1..n, j # i PROVE \E k \in 1..(n - 1) : new[k] = list[j]
    OBVIOUS
  <2> DEFINE k == IF j < i THEN j ELSE j - 1
  <2>1. k \in 1..(n - 1) /\ at(k) = j BY <1>1
  <2> QED BY <1>7, <2>1
<1>9. NoRepeats(new)
  <2> SUFFICES ASSUME NEW j \in 1..(n - 1), NEW k \in 1..(n - 1), new[j] = new[k] PROVE j = k
    BY <1>6 DEF NoRepeats
  <2>1. at(j) = at(k) BY <1>1, <1>7 DEF NoRepeats
  <2> QED BY <1>1, <2>1
<1> HIDE DEF at
<1>10. ToSet(new) = ToSet(list) \ {list[i]}
  <2>1. ASSUME NEW x \in ToSet(new) PROVE x \in ToSet(list) \ {list[i]}
    <3>1. PICK j \in 1..(n - 1) : x = new[j] BY <1>6 DEF ToSet
    <3>2. x = list[at(j)] /\ at(j) \in 1..n /\ at(j) # i BY <1>7, <3>1
    <3> QED BY <1>1, <3>2 DEF ToSet, NoRepeats
  <2>2. ASSUME NEW x \in ToSet(list) \ {list[i]} PROVE x \in ToSet(new)
    <3>1. PICK j \in 1..n : x = list[j] BY <1>1 DEF ToSet
    <3> QED BY <1>6, <1>8, <3>1 DEF ToSet
  <2> QED BY <2>1, <2>2
<1> QED BY <1>1, <1>5, <1>9, <1>10 DEF new

LEMMA ListedInCatalog ==
    ASSUME NEW c \in Configs
    PROVE  ToSet(c.list) \subseteq ToSet(Catalog(c))
<1> DEFINE listed == <<BuiltIn>> \o c.list
<1>0. c.list \in Seq(Customs) BY FieldTypes
<1>1. c.list \in Seq(Servers) /\ <<BuiltIn>> \in Seq(Servers)
  BY <1>0, ServerFacts, SeqOfMore
<1>2. /\ listed \in Seq(Servers) /\ Len(listed) = Len(c.list) + 1
      /\ \A i \in 1..Len(c.list) : listed[i + 1] = c.list[i]
  BY <1>1
<1> HIDE DEF listed
<1>3. ToSet(c.list) \subseteq ToSet(listed)
  <2> SUFFICES ASSUME NEW i \in 1..Len(c.list) PROVE c.list[i] \in ToSet(listed)
    BY <1>1 DEF ToSet
  <2>1. i + 1 \in DOMAIN listed /\ listed[i + 1] = c.list[i] BY <1>1, <1>2
  <2> QED BY <2>1 DEF ToSet
<1>4. \A s : ToSet(listed) \subseteq ToSet(Append(listed, s))
  <2> SUFFICES ASSUME NEW s, NEW i \in DOMAIN listed PROVE listed[i] \in ToSet(Append(listed, s))
    BY DEF ToSet
  <2>1. i \in DOMAIN Append(listed, s) /\ Append(listed, s)[i] = listed[i] BY <1>2
  <2> QED BY <2>1 DEF ToSet
<1>5. Catalog(c) = listed \/ \E s : Catalog(c) = Append(listed, s) BY DEF Catalog, listed
<1> QED BY <1>3, <1>4, <1>5

-----------------------------------------------------------------------------
(* The invariant.                                                          *)

(* A configuration that may be presented, given the consents.              *)
Sound(c, given) ==
    /\ c \in Configs /\ WellFormed(c) /\ NoRepeats(c.list) /\ Len(c.list) <= MaxServers
    /\ Valid(c) => Presents(c) \in given

(* Client.cfg, the file and the holder of updateMu: the holder has already *)
(* written what it will install, and what it will acknowledge.  Between    *)
(* writers the file is read back as Client.cfg, unless a writer was cut    *)
(* off after its write.                                                    *)
Agreement ==
    /\ up => EditsOf(mem) = acked
    /\ busy # Idle => /\ up /\ busy.op \in {"config", "swap"} /\ busy.next = <<FileConfig>>
                      /\ busy.acks = <<EditsOf(FileConfig)>>
    /\ up /\ busy = Idle /\ ~doubt => FileConfig = mem
    /\ ~up => /\ mem = FileConfig /\ busy = Idle
              /\ ~doubt => EditsOf(FileConfig) = acked

ConfigInv ==
    /\ TypeOK /\ FileInv
    /\ Sound(mem, consent) /\ Sound(FileConfig, consent)
    /\ Agreement

LEMMA IdleFacts ==
    /\ Idle.op = "none" /\ Idle \in [op : {"none", "config", "swap"}, next : Optional(Configs),
                                     acks : Optional(Edits)]
    /\ \A kind \in {"config", "swap"}, n \in Configs, e \in Edits :
          /\ Holder(kind, n, e) # Idle
          /\ Holder(kind, n, e) \in [op : {"none", "config", "swap"}, next : Optional(Configs),
                                     acks : Optional(Edits)]
          /\ Holder(kind, n, e).op = kind /\ Holder(kind, n, e).next = <<n>>
          /\ Holder(kind, n, e).acks = <<e>>
<1>1. \A n \in Configs : <<n>> \in Optional(Configs) BY DEF Optional
<1>2. \A e \in Edits : <<e>> \in Optional(Edits) BY DEF Optional
<1>3. <<>> \in Optional(Configs) /\ <<>> \in Optional(Edits) BY DEF Optional
<1>4. ASSUME NEW kind \in {"config", "swap"}, NEW n \in Configs, NEW e \in Edits
      PROVE  /\ Holder(kind, n, e) # Idle
             /\ Holder(kind, n, e) \in [op : {"none", "config", "swap"}, next : Optional(Configs),
                                     acks : Optional(Edits)]
             /\ Holder(kind, n, e).op = kind /\ Holder(kind, n, e).next = <<n>>
             /\ Holder(kind, n, e).acks = <<e>>
  <2>1. /\ Holder(kind, n, e).op = kind /\ Holder(kind, n, e).next = <<n>>
        /\ Holder(kind, n, e).acks = <<e>>
    BY DEF Holder
  <2>2. Idle.op = "none" BY DEF Idle
  <2>3. Holder(kind, n, e) # Idle BY <2>1, <2>2
  <2>4. <<n>> \in Optional(Configs) /\ <<e>> \in Optional(Edits) BY <1>1, <1>2
  <2>5. Holder(kind, n, e) \in [op : {"none", "config", "swap"}, next : Optional(Configs),
                                     acks : Optional(Edits)]
    BY <2>4 DEF Holder
  <2> QED BY <2>1, <2>3, <2>5
<1> QED BY <1>3, <1>4 DEF Idle

LEMMA EditsTypes ==
    ASSUME NEW c \in Configs
    PROVE  EditsOf(c) \in Edits
<1>1. c.list \in Seq(Customs) /\ c.presets \in Nat BY FieldTypes
<1>2. ToSet(c.list) \in SUBSET Customs BY <1>1 DEF ToSet
<1> QED BY <1>1, <1>2 DEF EditsOf, Edits

LEMMA SoundMore ==
    ASSUME NEW c, NEW given, NEW more, Sound(c, given), given \subseteq more
    PROVE  Sound(c, more)
BY DEF Sound

(* A file that is replaced is read back as the configuration it was        *)
(* replaced with.                                                          *)
LEMMA Replaced ==
    ASSUME NEW n \in Configs, WellFormed(n), file' = <<Stored(n)>>
    PROVE  FileConfig' = n /\ FileInv'
<1>1. file' # <<>> /\ file'[1] = Stored(n) OBVIOUS
<1>2. Seed' = Prepared(Stored(n)) BY <1>1 DEF Seed
<1>3. FileConfig' = n BY <1>2, RoundTrip DEF FileConfig
<1> QED BY <1>3 DEF FileInv, FileHolds

LEMMA FileKept ==
    ASSUME file' = file
    PROVE  FileConfig' = FileConfig /\ (FileInv => FileInv')
BY DEF FileConfig, Seed, FileInv, FileHolds

(* What a writer does to everything but the types: it puts a sound         *)
(* configuration into the file and keeps updateMu.                         *)
Writes(kind, n) ==
    /\ file' = <<Stored(n)>> /\ busy' = Holder(kind, n, EditsOf(n))
    /\ mem' = mem /\ up' = up /\ doubt' = doubt /\ acked' = acked

LEMMA WriterStep ==
    ASSUME ConfigInv, up, NEW kind \in {"config", "swap"}, NEW n, Sound(n, consent'),
           consent \subseteq consent', Writes(kind, n)
    PROVE  /\ FileInv' /\ Sound(mem, consent)' /\ Sound(FileConfig, consent)' /\ Agreement'
           /\ mem' \in Configs /\ Len(mem'.list) <= MaxServers /\ file' \in Optional(Configs)
           /\ busy' \in [op : {"none", "config", "swap"}, next : Optional(Configs),
                         acks : Optional(Edits)]
<1>1. n \in Configs /\ WellFormed(n) BY DEF Sound
<1>2. FileConfig' = n /\ FileInv' BY <1>1, Replaced DEF Writes
<1>3. EditsOf(n) \in Edits BY <1>1, EditsTypes
<1>4. /\ busy' # Idle /\ busy'.op = kind /\ busy'.next = <<n>> /\ busy'.acks = <<EditsOf(n)>>
      /\ busy' \in [op : {"none", "config", "swap"}, next : Optional(Configs),
                    acks : Optional(Edits)]
  BY <1>1, <1>3, IdleFacts DEF Writes
<1>5. Sound(mem, consent') /\ mem' = mem BY SoundMore DEF ConfigInv, Writes
<1>6. Stored(n) \in Configs BY <1>1, StoredTypes
<1>7. file' \in Optional(Configs) BY <1>6 DEF Writes, Optional
<1>8. up' /\ mem' = mem /\ acked' = acked BY DEF Writes
<1>9. EditsOf(mem)' = acked' BY <1>8 DEF ConfigInv, Agreement
<1>10. Agreement' BY <1>2, <1>4, <1>8, <1>9 DEF Agreement
<1>11. Sound(mem, consent)' /\ Sound(FileConfig, consent)' BY <1>2, <1>5
<1>12. mem' \in Configs /\ Len(mem'.list) <= MaxServers BY <1>5 DEF Sound
<1> QED BY <1>2, <1>4, <1>7, <1>10, <1>11, <1>12

(* An installation: the holder's configuration becomes Client.cfg.         *)
LEMMA HolderFacts ==
    ASSUME ConfigInv, busy # Idle
    PROVE  /\ busy.next[1] = FileConfig /\ busy.acks[1] = EditsOf(FileConfig)
           /\ EditsOf(FileConfig) \in Edits
<1>1. FileConfig \in Configs BY DEF ConfigInv, Sound
<1>2. EditsOf(FileConfig) \in Edits BY <1>1, EditsTypes
<1> QED BY <1>2 DEF ConfigInv, Agreement

LEMMA InstallStep ==
    ASSUME ConfigInv, up, busy # Idle, mem' = FileConfig, acked' = busy.acks[1], busy' = Idle,
           doubt' = FALSE, UNCHANGED <<file, up, session, consent, budget>>
    PROVE  ConfigInv'
<1>1. acked' = EditsOf(FileConfig) /\ EditsOf(FileConfig) \in Edits BY HolderFacts
<1>2. FileConfig' = FileConfig /\ FileInv' BY FileKept DEF ConfigInv
<1>3. Sound(mem, consent)' /\ Sound(FileConfig, consent)' BY <1>2 DEF ConfigInv
<1>4. mem' \in Configs /\ Len(mem'.list) <= MaxServers BY <1>3 DEF Sound
<1>5. busy' \in [op : {"none", "config", "swap"}, next : Optional(Configs),
                 acks : Optional(Edits)]
  BY IdleFacts
<1>6. TypeOK' BY <1>1, <1>4, <1>5 DEF ConfigInv, TypeOK
<1>7. Agreement' BY <1>1, <1>2 DEF Agreement
<1> QED BY <1>2, <1>3, <1>6, <1>7 DEF ConfigInv

-----------------------------------------------------------------------------
(* The steps.                                                              *)

(* What a user enters, and what it costs.                                  *)
LEMMA EnteredFacts ==
    ASSUME TypeOK
    PROVE  \A c \in Entered : c \in Credentials /\ c # NoCred
<1>1. budget.entries \in Nat BY DEF TypeOK
<1>2. \A c \in Entered : c \in Credentials BY <1>1 DEF Entered, Credentials
<1>3. \A c \in Entered : c.kind # "none" BY DEF Entered
<1>4. NoCred.kind = "none" BY DEF NoCred
<1> QED BY <1>2, <1>3, <1>4

LEMMA PresetsFacts ==
    ASSUME TypeOK, NEW c \in Configs, NEW p \in Presets(c)
    PROVE  p \in Nat /\ (p # c.presets => budget.edits > 0)
<1>1. budget.edits \in 0..MaxEdits /\ MaxEdits \in Nat /\ c.presets \in Nat
  BY FieldTypes, ManagedAssumption DEF TypeOK
<1> QED BY <1>1 DEF Presets

LEMMA SpendTypes ==
    ASSUME TypeOK, NEW cred, NEW edited \in BOOLEAN, Spend(cred, edited),
           cred # NoCred => budget.entries > 0, edited => budget.edits > 0
    PROVE  budget' \in [entries : Nat, edits : 0..MaxEdits, issued : Nat, crashes : Nat]
<1> DEFINE e == IF cred # NoCred THEN budget.entries - 1 ELSE budget.entries
           d == IF edited THEN budget.edits - 1 ELSE budget.edits
<1>1. budget \in [entries : Nat, edits : 0..MaxEdits, issued : Nat, crashes : Nat]
  BY DEF TypeOK
<1>2. e \in Nat /\ d \in 0..MaxEdits
  <2>1. budget.entries \in Nat /\ budget.edits \in 0..MaxEdits /\ MaxEdits \in Nat
    BY <1>1, ManagedAssumption
  <2> QED BY <2>1
<1>3. budget' = [budget EXCEPT !.entries = e, !.edits = d] BY <1>1 DEF Spend
<1> HIDE DEF e, d
<1> QED BY <1>1, <1>2, <1>3

(* The edits of a configuration.                                           *)
LEMMA EditsWith ==
    /\ \A c, d : d.list = c.list => EditsOf(d) = [EditsOf(c) EXCEPT !.presets = d.presets]
    /\ \A c, d : d.presets = c.presets =>
          EditsOf(d) = [EditsOf(c) EXCEPT !.servers = ToSet(d.list)]
<1>1. \A a, b, p : [[servers |-> a, presets |-> b] EXCEPT !.presets = p]
                      = [servers |-> a, presets |-> p]
  OBVIOUS
<1>2. \A a, b, p : [[servers |-> a, presets |-> b] EXCEPT !.servers = p]
                      = [servers |-> p, presets |-> b]
  OBVIOUS
<1> QED BY <1>1, <1>2 DEF EditsOf

(* The configuration a request saves.                                      *)
SavedNext(s, node, p, cred) ==
    LET named == [ApplyHosted(mem, s) EXCEPT !.node = node, !.presets = p]
    IN IF cred = NoCred THEN named ELSE ApplyCredential(named, cred)
Allowed(s, node, cred) ==
    /\ cred = NoCred => SameConnection(mem, ApplyHosted(mem, s)) /\ node = mem.node
    /\ cred.kind = "boot" => cred.at = ApplyHosted(mem, s).addr
Consents(s, node, cred) ==
    <<Access(cred), ApplyHosted(mem, s).addr, ApplyHosted(mem, s).tls,
      IF cred.node # "" THEN cred.node ELSE node>>
Consented(s, node, cred, given) ==
    /\ cred \in Credentials /\ Allowed(s, node, cred)
    /\ cred.kind # "boot" => cred.node = ""
    /\ cred # NoCred => Consents(s, node, cred) \in given
SoundWith(n, p, given) == Sound(n, given) /\ n.list = mem.list /\ n.presets = p

LEMMA SavedFacts ==
    ASSUME NEW given, Sound(mem, given), NEW s \in ToSet(Catalog(mem)), NEW node \in Nodes,
           NEW p \in Nat, NEW cred, Consented(s, node, cred, given)
    PROVE  SoundWith(SavedNext(s, node, p, cred), p, given)
<1> DEFINE moved == ApplyHosted(mem, s)
           named1 == [moved EXCEPT !.node = node]
           named == [named1 EXCEPT !.presets = p]
           next == SavedNext(s, node, p, cred)
<1>0. /\ cred \in Credentials /\ Allowed(s, node, cred)
      /\ cred.kind # "boot" => cred.node = ""
      /\ cred # NoCred => Consents(s, node, cred) \in given
  BY DEF Consented
<1>1. mem \in Configs BY DEF Sound
<1>2. /\ moved \in Configs /\ moved.sel # <<>>
      /\ \A f \in {"boot", "token", "pass", "node", "list", "presets"} : moved[f] = mem[f]
  BY <1>1, ApplyHostedTypes
<1>3. named1 \in Configs BY <1>2, ConfigFields
<1>4. named \in Configs BY <1>3, ConfigFields
<1>5. /\ named.boot = mem.boot /\ named.token = mem.token /\ named.pass = mem.pass
      /\ named.list = mem.list /\ named.addr = moved.addr /\ named.tls = moved.tls
      /\ named.sel # <<>> /\ named.node = node /\ named.presets = p
  BY <1>2 DEF Configs
<1>6. next = IF cred = NoCred THEN named ELSE ApplyCredential(named, cred)
  BY DEF SavedNext
<1> HIDE DEF named, named1, moved, next
<1>7. CASE cred = NoCred
  <2>1. next = named BY <1>6, <1>7
  <2>2. named.addr = mem.addr /\ named.tls = mem.tls /\ named.node = mem.node
    BY <1>0, <1>5, <1>7 DEF Allowed, SameConnection, moved
  <2>3. WellFormed(next) BY <1>5, <2>1, <2>2 DEF Sound, WellFormed
  <2>4. NoRepeats(next.list) /\ Len(next.list) <= MaxServers BY <1>5, <2>1 DEF Sound
  <2>5. Valid(next) => Presents(next) \in given
    BY <1>5, <2>1, <2>2 DEF Sound, Valid, Presents
  <2>6. next.list = mem.list /\ next.presets = p BY <1>5, <2>1
  <2> QED BY <1>4, <2>1, <2>3, <2>4, <2>5, <2>6 DEF Sound, SoundWith, next
<1>8. CASE cred # NoCred
  <2>1. next = ApplyCredential(named, cred) BY <1>6, <1>8
  <2>2. /\ next \in Configs
        /\ \A f \in {"addr", "tls", "sel", "list", "presets"} : next[f] = named[f]
        /\ next.token = Access(cred)
        /\ cred.kind = "boot" => next.boot = cred /\ next.pass = NoCred
        /\ cred.kind # "boot" => next.boot = NoCred
        /\ next.node = IF cred.kind = "boot" /\ cred.node # "" THEN cred.node ELSE named.node
    <3>1. WithCredential(next, named, cred) BY <1>0, <1>4, <1>8, <2>1, ApplyCredentialTypes
    <3> QED BY <3>1 DEF WithCredential
  <2>3. Access(cred) # NoCred BY <1>0, <1>8, CredentialFacts
  <2>4. WellFormed(next) BY <1>0, <1>5, <1>8, <2>2, <2>3 DEF WellFormed, Allowed, moved
  <2>5. NoRepeats(next.list) /\ Len(next.list) <= MaxServers BY <1>5, <2>2 DEF Sound
  <2>6. Presents(next) = Consents(s, node, cred)
    BY <1>0, <1>5, <2>2 DEF Presents, Consents, moved
  <2>7. next.list = mem.list /\ next.presets = p BY <1>5, <2>2
  <2> QED BY <1>0, <1>8, <2>2, <2>4, <2>5, <2>6, <2>7 DEF Sound, SoundWith, next
<1> QED BY <1>7, <1>8

LEMMA SaveStep == ConfigInv /\ Config_Save => ConfigInv'
<1> SUFFICES ASSUME ConfigInv, Config_Save PROVE ConfigInv'
  OBVIOUS
<1>0. TypeOK /\ mem \in Configs /\ up /\ Sound(mem, consent) /\ EditsOf(mem) = acked
  BY DEF ConfigInv, Sound, Config_Save, Agreement
<1>1. PICK s \in ToSet(Catalog(mem)), node \in Nodes, p \in Presets(mem),
           cred \in {NoCred} \cup (IF budget.entries > 0 THEN Entered ELSE {}) :
        /\ cred = NoCred => SameConnection(mem, ApplyHosted(mem, s)) /\ node = mem.node
        /\ cred.kind = "boot" => cred.at = ApplyHosted(mem, s).addr
        /\ Valid(SavedNext(s, node, p, cred))
        /\ file' = <<Stored(SavedNext(s, node, p, cred))>>
        /\ busy' = Holder("config", SavedNext(s, node, p, cred), [acked EXCEPT !.presets = p])
        /\ consent' = IF cred = NoCred THEN consent
                      ELSE consent \cup {<<Access(cred), ApplyHosted(mem, s).addr,
                                           ApplyHosted(mem, s).tls,
                                           IF cred.node # "" THEN cred.node ELSE node>>}
        /\ Spend(cred, p # mem.presets)
  BY DEF Config_Save, SavedNext
<1>a. /\ Allowed(s, node, cred)
      /\ consent' = IF cred = NoCred THEN consent ELSE consent \cup {Consents(s, node, cred)}
  BY <1>1 DEF Allowed, Consents
<1>2. p \in Nat /\ (p # mem.presets => budget.edits > 0) BY <1>0, PresetsFacts
<1>3. /\ cred \in Credentials /\ (cred # NoCred => budget.entries > 0)
      /\ cred.kind # "boot" => cred.node = ""
  <2>1. CASE cred = NoCred BY <2>1, CredentialFacts DEF NoCred
  <2>2. CASE cred # NoCred
    <3>1. cred \in Entered /\ budget.entries > 0 BY <2>2
    <3>2. cred.kind # "boot" => cred.node = "" BY <3>1 DEF Entered
    <3> QED BY <1>0, <3>1, <3>2, EnteredFacts
  <2> QED BY <2>1, <2>2
<1> DEFINE next == SavedNext(s, node, p, cred)
<1>4. consent \subseteq consent' /\ Sound(mem, consent')
  <2>1. consent \subseteq consent' BY <1>a
  <2> QED BY <1>0, <2>1, SoundMore
<1>5. cred # NoCred => Consents(s, node, cred) \in consent' BY <1>a
<1>6. Sound(next, consent') /\ EditsOf(next) = [acked EXCEPT !.presets = p]
  <2>1. Sound(mem, consent') /\ Consented(s, node, cred, consent')
    BY <1>a, <1>3, <1>4, <1>5 DEF Consented
  <2> DEFINE given == consent'
  <2> HIDE DEF given
  <2>2. Sound(mem, given) /\ Consented(s, node, cred, given) BY <2>1 DEF given
  <2>3. SoundWith(next, p, given) BY <1>2, <2>2, SavedFacts
  <2>4. EditsOf(next) = [EditsOf(mem) EXCEPT !.presets = p] BY <2>3, EditsWith DEF SoundWith
  <2> QED BY <1>0, <2>3, <2>4 DEF given, SoundWith
<1>7. Writes("config", next) BY <1>1, <1>6 DEF Writes, Config_Save
<1> HIDE DEF next
<1>8. /\ FileInv' /\ Sound(mem, consent)' /\ Sound(FileConfig, consent)' /\ Agreement'
      /\ mem' \in Configs /\ Len(mem'.list) <= MaxServers /\ file' \in Optional(Configs)
      /\ busy' \in [op : {"none", "config", "swap"}, next : Optional(Configs),
                    acks : Optional(Edits)]
  BY <1>0, <1>4, <1>6, <1>7, WriterStep
<1>9. budget' \in [entries : Nat, edits : 0..MaxEdits, issued : Nat, crashes : Nat]
  BY <1>0, <1>1, <1>2, <1>3, SpendTypes
<1>10. consent' \subseteq Credentials \X (Addrs \cup {""}) \X Names \X Nodes
  <2>1. Access(cred) \in Credentials BY <1>3, CredentialFacts
  <2>2. ApplyHosted(mem, s).addr \in Addrs \cup {""} /\ ApplyHosted(mem, s).tls \in Names
    BY <1>0, ApplyHostedTypes, FieldTypes
  <2>3. (IF cred.node # "" THEN cred.node ELSE node) \in Nodes BY <1>3 DEF Credentials
  <2>4. Consents(s, node, cred) \in Credentials \X (Addrs \cup {""}) \X Names \X Nodes
    BY <2>1, <2>2, <2>3 DEF Consents
  <2> QED BY <1>0, <1>a, <2>4 DEF TypeOK
<1>11. UNCHANGED <<up, session, doubt, acked>> BY DEF Config_Save
<1>12. TypeOK' BY <1>0, <1>8, <1>9, <1>10, <1>11 DEF TypeOK
<1> QED BY <1>8, <1>12 DEF ConfigInv

LEMMA LoadStep == ConfigInv /\ (Config_Load \/ Swap) => ConfigInv'
<1> SUFFICES ASSUME ConfigInv, Config_Load \/ Swap PROVE ConfigInv'
  OBVIOUS
<1>1. busy # Idle BY IdleFacts DEF Config_Load, Swap
<1>2. up /\ mem' = FileConfig /\ acked' = busy.acks[1] /\ busy' = Idle /\ doubt' = FALSE
  BY <1>1, HolderFacts DEF Config_Load, Swap
<1>3. UNCHANGED <<file, up, session, consent, budget>> BY DEF Config_Load, Swap
<1> QED BY <1>1, <1>2, <1>3, InstallStep

(* Steps that leave Client.cfg and the file alone: a read-back that fails, *)
(* and a session.                                                          *)
LEMMA QuietStep ==
    ASSUME ConfigInv, mem' = mem, file' = file, consent \subseteq consent'
    PROVE  /\ FileConfig' = FileConfig /\ FileInv'
           /\ Sound(mem, consent)' /\ Sound(FileConfig, consent)'
<1>1. FileConfig' = FileConfig /\ FileInv' BY FileKept DEF ConfigInv
<1>2. Sound(mem, consent') /\ Sound(FileConfig, consent') BY SoundMore DEF ConfigInv
<1> QED BY <1>1, <1>2

LEMMA LoadFailsStep == ConfigInv /\ Config_LoadFails => ConfigInv'
<1> SUFFICES ASSUME ConfigInv, Config_LoadFails PROVE ConfigInv'
  OBVIOUS
<1>1. /\ mem' = mem /\ file' = file /\ consent' = consent /\ acked' = acked /\ up' = up /\ up
      /\ busy' = Idle /\ doubt' = TRUE /\ session' = session
      /\ budget.crashes > 0 /\ budget' = [budget EXCEPT !.crashes = @ - 1]
  BY DEF Config_LoadFails
<1>2. /\ FileConfig' = FileConfig /\ FileInv'
      /\ Sound(mem, consent)' /\ Sound(FileConfig, consent)'
  BY <1>1, QuietStep
<1>3. Agreement' BY <1>1, <1>2 DEF ConfigInv, Agreement
<1>4. budget' \in [entries : Nat, edits : 0..MaxEdits, issued : Nat, crashes : Nat]
  <2>1. budget \in [entries : Nat, edits : 0..MaxEdits, issued : Nat, crashes : Nat]
    BY DEF ConfigInv, TypeOK
  <2>2. budget.crashes - 1 \in Nat BY <1>1, <2>1
  <2> QED BY <1>1, <2>1, <2>2
<1>5. TypeOK' BY <1>1, <1>4, IdleFacts DEF ConfigInv, TypeOK
<1> QED BY <1>2, <1>3, <1>5 DEF ConfigInv

LEMMA BoundTypes == MaxServers \in Nat /\ MaxEdits \in Nat
BY ManagedAssumption

LEMMA LengthType ==
    ASSUME NEW S, NEW s \in Seq(S)
    PROVE  Len(s) \in Nat
OBVIOUS

(* Changes of the list.                                                    *)
LEMMA ListedFacts ==
    ASSUME NEW given, Sound(mem, given), NEW list \in Seq(Customs), NoRepeats(list),
           Len(list) <= MaxServers
    PROVE  /\ Sound([mem EXCEPT !.list = list], given)
           /\ EditsOf([mem EXCEPT !.list = list]) = [EditsOf(mem) EXCEPT !.servers = ToSet(list)]
<1> DEFINE next == [mem EXCEPT !.list = list]
<1>1. mem \in Configs BY DEF Sound
<1>2. next \in Configs BY <1>1, ConfigFields
<1>3. /\ next.list = list /\ next.presets = mem.presets /\ next.boot = mem.boot
      /\ next.addr = mem.addr /\ next.tls = mem.tls /\ next.token = mem.token
      /\ next.pass = mem.pass /\ next.node = mem.node /\ next.sel = mem.sel
  BY <1>1 DEF Configs
<1> HIDE DEF next
<1>4. WellFormed(next) BY <1>3 DEF Sound, WellFormed
<1>5. Valid(next) => Presents(next) \in given BY <1>3 DEF Sound, Valid, Presents
<1>6. Sound(next, given) BY <1>2, <1>3, <1>4, <1>5 DEF Sound
<1>7. EditsOf(next) = [EditsOf(mem) EXCEPT !.servers = ToSet(list)]
  BY <1>3, EditsWith
<1> QED BY <1>6, <1>7 DEF next

LEMMA ListWriterStep ==
    ASSUME ConfigInv, up, budget.edits > 0, NEW list \in Seq(Customs), NoRepeats(list),
           Len(list) <= MaxServers,
           file' = <<Stored([mem EXCEPT !.list = list])>>,
           busy' = Holder("swap", [mem EXCEPT !.list = list],
                          [acked EXCEPT !.servers = ToSet(list)]),
           budget' = [budget EXCEPT !.edits = @ - 1],
           UNCHANGED <<mem, up, session, doubt, acked, consent>>
    PROVE  ConfigInv'
<1> DEFINE next == [mem EXCEPT !.list = list]
<1>1. Sound(mem, consent') /\ EditsOf(mem) = acked BY DEF ConfigInv, Agreement
<1>2. Sound(next, consent') /\ EditsOf(next) = [acked EXCEPT !.servers = ToSet(list)]
  BY <1>1, ListedFacts
<1>3. Writes("swap", next) BY <1>2 DEF Writes
<1> HIDE DEF next
<1>4. /\ FileInv' /\ Sound(mem, consent)' /\ Sound(FileConfig, consent)' /\ Agreement'
      /\ mem' \in Configs /\ Len(mem'.list) <= MaxServers /\ file' \in Optional(Configs)
      /\ busy' \in [op : {"none", "config", "swap"}, next : Optional(Configs),
                    acks : Optional(Edits)]
  BY <1>2, <1>3, WriterStep
<1>5. budget' \in [entries : Nat, edits : 0..MaxEdits, issued : Nat, crashes : Nat]
  <2>1. budget \in [entries : Nat, edits : 0..MaxEdits, issued : Nat, crashes : Nat]
    BY DEF ConfigInv, TypeOK
  <2>2. budget.edits \in 0..MaxEdits /\ MaxEdits \in Nat BY <2>1, ManagedAssumption
  <2>3. budget.edits - 1 \in 0..MaxEdits BY <2>2
  <2> QED BY <2>1, <2>3
<1>6. TypeOK' BY <1>4, <1>5 DEF ConfigInv, TypeOK
<1> QED BY <1>4, <1>6 DEF ConfigInv

LEMMA AddStep ==
    ASSUME NEW a \in Addrs, NEW t \in Names, ConfigInv, Servers_Add(a, t)
    PROVE  ConfigInv'
<1> DEFINE e == CustomServer(a, t)
           list == Append(mem.list, e)
<1>1. /\ mem \in Configs /\ NoRepeats(mem.list) /\ mem.list \in Seq(Customs)
      /\ acked = EditsOf(mem) /\ up
  BY FieldTypes DEF ConfigInv, Sound, Servers_Add, Agreement
<1>2. e \in Customs /\ e.addr = a /\ e.tls = t BY DEF Customs, CustomServer
<1>3. e \notin ToSet(mem.list) BY <1>1, <1>2, ListedInCatalog DEF Servers_Add
<1> HIDE DEF e
<1>4. /\ list \in Seq(Customs) /\ NoRepeats(list) /\ Len(list) = Len(mem.list) + 1
      /\ ToSet(list) = ToSet(mem.list) \cup {e}
  BY <1>1, <1>2, <1>3, Appended
<1>5. Len(list) <= MaxServers
  <2>1. Len(mem.list) < MaxServers BY DEF Servers_Add
  <2>2. Len(mem.list) \in Nat BY <1>1, LengthType
  <2>3. Len(list) = Len(mem.list) + 1 BY <1>4
  <2> QED BY <2>1, <2>2, <2>3, BoundTypes
<1>6. acked.servers = ToSet(mem.list) BY <1>1 DEF EditsOf
<1>7. [acked EXCEPT !.servers = @ \cup {e}] = [acked EXCEPT !.servers = ToSet(list)]
  BY <1>4, <1>6
<1>8. /\ file' = <<Stored([mem EXCEPT !.list = list])>>
      /\ busy' = Holder("swap", [mem EXCEPT !.list = list],
                        [acked EXCEPT !.servers = @ \cup {e}])
      /\ budget.edits > 0 /\ budget' = [budget EXCEPT !.edits = @ - 1]
      /\ UNCHANGED <<mem, up, session, doubt, acked, consent>>
  BY DEF Servers_Add, e
<1> HIDE DEF list
<1> QED BY <1>1, <1>4, <1>5, <1>7, <1>8, ListWriterStep

LEMMA RemoveStep ==
    ASSUME NEW i \in DOMAIN mem.list, ConfigInv, Servers_Remove(i)
    PROVE  ConfigInv'
<1> DEFINE list == RemoveAt(mem.list, i)
<1>1. /\ mem \in Configs /\ NoRepeats(mem.list) /\ mem.list \in Seq(Customs)
      /\ acked = EditsOf(mem) /\ up /\ Len(mem.list) <= MaxServers
  BY FieldTypes DEF ConfigInv, Sound, Servers_Remove, Agreement
<1>2. /\ list \in Seq(Customs) /\ NoRepeats(list) /\ Len(list) <= Len(mem.list)
      /\ ToSet(list) = ToSet(mem.list) \ {mem.list[i]}
  BY <1>1, Removed
<1>3. /\ file' = <<Stored([mem EXCEPT !.list = list])>>
      /\ busy' = Holder("swap", [mem EXCEPT !.list = list],
                        [acked EXCEPT !.servers = @ \ {mem.list[i]}])
      /\ budget.edits > 0 /\ budget' = [budget EXCEPT !.edits = @ - 1]
      /\ UNCHANGED <<mem, up, session, doubt, acked, consent>>
  BY <1>1 DEF Servers_Remove, Configs
<1> HIDE DEF list
<1>4. Len(list) <= MaxServers
  <2>1. Len(mem.list) \in Nat /\ Len(list) \in Nat BY <1>1, <1>2, LengthType
  <2>2. Len(list) <= Len(mem.list) /\ Len(mem.list) <= MaxServers BY <1>1, <1>2
  <2> QED BY <2>1, <2>2, BoundTypes
<1>5. acked.servers = ToSet(mem.list) BY <1>1 DEF EditsOf
<1>6. [acked EXCEPT !.servers = @ \ {mem.list[i]}] = [acked EXCEPT !.servers = ToSet(list)]
  BY <1>2, <1>5
<1> QED BY <1>1, <1>2, <1>3, <1>4, <1>6, ListWriterStep

(* A session keeps the configuration it started with.                      *)
LEMMA SessionStep == ConfigInv /\ Session_Start => ConfigInv'
<1> SUFFICES ASSUME ConfigInv, Session_Start PROVE ConfigInv'
  OBVIOUS
<1>1. UNCHANGED <<mem, file, up, busy, doubt, acked, consent, budget>> BY DEF Session_Start
<1>2. /\ FileConfig' = FileConfig /\ FileInv'
      /\ Sound(mem, consent)' /\ Sound(FileConfig, consent)'
  BY <1>1, QuietStep
<1>3. Agreement' BY <1>1, <1>2 DEF ConfigInv, Agreement
<1>4. session' \in Optional(Configs) BY DEF Session_Start, ConfigInv, TypeOK, Optional
<1>5. TypeOK' BY <1>1, <1>4 DEF ConfigInv, TypeOK
<1> QED BY <1>2, <1>3, <1>5 DEF ConfigInv

(* An issued credential, kept only while server, node and credential are   *)
(* the ones the session started with.                                      *)
LEMMA PersistedFacts ==
    ASSUME NEW given, Sound(mem, given), NEW source, NEW token \in Credentials, token # NoCred,
           <<token, mem.addr, mem.tls, mem.node>> \in given
    PROVE  /\ Sound(Persisted(source, token), given)
           /\ EditsOf(Persisted(source, token)) = EditsOf(mem)
<1> DEFINE next == Persisted(source, token)
           c1 == [mem EXCEPT !.boot = NoCred]
           c2 == [c1 EXCEPT !.pass = NoCred]
<1>1. mem \in Configs /\ NoCred \in Credentials BY CredentialFacts DEF Sound
<1>2. c1 \in Configs BY <1>1, ConfigFields
<1>3. c2 \in Configs BY <1>1, <1>2, ConfigFields
<1>4. [c2 EXCEPT !.token = token] \in Configs BY <1>3, ConfigFields
<1>5. next = [c2 EXCEPT !.token = token] BY <1>1 DEF Persisted, Configs
<1>6. /\ next.boot = NoCred /\ next.pass = NoCred /\ next.token = token
      /\ next.addr = mem.addr /\ next.tls = mem.tls /\ next.node = mem.node
      /\ next.sel = mem.sel /\ next.list = mem.list /\ next.presets = mem.presets
  BY <1>1 DEF Persisted, Configs
<1>7. next \in Configs BY <1>4, <1>5
<1> HIDE DEF next
<1>8. WellFormed(next) BY <1>6 DEF Sound, WellFormed
<1>9. Presents(next) \in given BY <1>6 DEF Presents
<1>10. Sound(next, given) BY <1>6, <1>7, <1>8, <1>9 DEF Sound
<1>11. EditsOf(next) = EditsOf(mem) BY <1>6 DEF EditsOf
<1> QED BY <1>10, <1>11 DEF next

LEMMA IssuedStep == ConfigInv /\ Session_Issued => ConfigInv'
<1> SUFFICES ASSUME ConfigInv, Session_Issued PROVE ConfigInv'
  OBVIOUS
<1> DEFINE source == session[1]
           token == [kind |-> "issued", at |-> source.addr, node |-> source.node,
                     n |-> budget.issued]
           next == Persisted(source, token)
<1>1. /\ up /\ session # <<>> /\ budget.issued > 0 /\ busy = Idle /\ session' = <<>>
      /\ consent' = consent \cup {<<token, source.addr, source.tls, source.node>>}
      /\ budget' = [budget EXCEPT !.issued = @ - 1]
      /\ UNCHANGED <<mem, up, doubt, acked>>
      /\ \/ /\ SameConnection(source, mem) /\ source.node = mem.node
            /\ file' = <<Stored(next)>> /\ busy' = Holder("swap", next, acked)
         \/ UNCHANGED <<file, busy>>
  BY DEF Session_Issued
<1>2. source \in Configs
  <2>1. session \in Optional(Configs) BY DEF ConfigInv, TypeOK
  <2>2. PICK x \in Configs : session = <<x>> BY <1>1, <2>1 DEF Optional
  <2> QED BY <2>2
<1>3. budget \in [entries : Nat, edits : 0..MaxEdits, issued : Nat, crashes : Nat]
  BY DEF ConfigInv, TypeOK
<1>4. /\ source.addr \in Addrs \cup {""} /\ source.tls \in Names /\ source.node \in Nodes
      /\ budget.issued \in Nat
  BY <1>2, <1>3, FieldTypes
<1>5. token \in Credentials BY <1>4 DEF Credentials
<1>6. token # NoCred
  <2>1. token.kind = "issued" /\ NoCred.kind = "none" BY DEF NoCred
  <2> QED BY <2>1
<1> HIDE DEF source, token, next
<1>7. consent \subseteq consent' BY <1>1
<1>8. consent' \subseteq Credentials \X (Addrs \cup {""}) \X Names \X Nodes
  <2>1. <<token, source.addr, source.tls, source.node>>
          \in Credentials \X (Addrs \cup {""}) \X Names \X Nodes
    BY <1>4, <1>5
  <2> QED BY <1>1, <2>1 DEF ConfigInv, TypeOK
<1>9. budget' \in [entries : Nat, edits : 0..MaxEdits, issued : Nat, crashes : Nat]
  <2>1. budget.issued > 0 /\ budget.issued \in Nat BY <1>1, <1>4
  <2>2. budget.issued - 1 \in Nat BY <2>1
  <2> QED BY <1>1, <1>3, <2>2
<1>10. session' \in Optional(Configs) BY <1>1 DEF Optional
<1>11. CASE /\ SameConnection(source, mem) /\ source.node = mem.node
            /\ file' = <<Stored(next)>> /\ busy' = Holder("swap", next, acked)
  <2> DEFINE given == consent'
  <2>1. <<token, mem.addr, mem.tls, mem.node>> = <<token, source.addr, source.tls, source.node>>
    BY <1>11 DEF SameConnection
  <2>2. <<token, mem.addr, mem.tls, mem.node>> \in given BY <1>1, <2>1
  <2>3. Sound(mem, given) /\ EditsOf(mem) = acked
    BY <1>1, <1>7, SoundMore DEF ConfigInv, Agreement
  <2> HIDE DEF given
  <2>4. Sound(next, given) /\ EditsOf(next) = acked
    BY <1>5, <1>6, <2>2, <2>3, PersistedFacts DEF next
  <2>5. Writes("swap", next) BY <1>1, <1>11, <2>4 DEF Writes
  <2>6. Sound(next, consent') BY <2>4 DEF given
  <2>7. /\ FileInv' /\ Sound(mem, consent)' /\ Sound(FileConfig, consent)' /\ Agreement'
        /\ mem' \in Configs /\ Len(mem'.list) <= MaxServers /\ file' \in Optional(Configs)
        /\ busy' \in [op : {"none", "config", "swap"}, next : Optional(Configs),
                      acks : Optional(Edits)]
    BY <1>1, <1>7, <2>5, <2>6, WriterStep
  <2>8. TypeOK' BY <1>1, <1>8, <1>9, <1>10, <2>7 DEF ConfigInv, TypeOK
  <2> QED BY <2>7, <2>8 DEF ConfigInv
<1>12. CASE UNCHANGED <<file, busy>>
  <2>1. /\ FileConfig' = FileConfig /\ FileInv'
        /\ Sound(mem, consent)' /\ Sound(FileConfig, consent)'
    BY <1>1, <1>7, <1>12, QuietStep
  <2>2. Agreement' BY <1>1, <1>12, <2>1 DEF ConfigInv, Agreement
  <2>3. TypeOK' BY <1>1, <1>8, <1>9, <1>10, <1>12 DEF ConfigInv, TypeOK
  <2> QED BY <2>1, <2>2, <2>3 DEF ConfigInv
<1> QED BY <1>1, <1>11, <1>12

(* The client ends and starts.                                             *)
LEMMA CrashStep == ConfigInv /\ Crash => ConfigInv'
<1> SUFFICES ASSUME ConfigInv, Crash PROVE ConfigInv'
  OBVIOUS
<1>1. /\ up /\ budget.crashes > 0 /\ budget' = [budget EXCEPT !.crashes = @ - 1]
      /\ up' = FALSE /\ busy' = Idle /\ session' = <<>> /\ doubt' = (doubt \/ busy # Idle)
      /\ mem' = FileConfig /\ file' = file /\ acked' = acked /\ consent' = consent
  BY DEF Crash
<1>2. FileConfig' = FileConfig /\ FileInv' BY <1>1, FileKept DEF ConfigInv
<1>3. Sound(mem, consent)' /\ Sound(FileConfig, consent)' BY <1>1, <1>2 DEF ConfigInv
<1>4. ~doubt' => EditsOf(FileConfig) = acked BY <1>1 DEF ConfigInv, Agreement
<1>5. Agreement' BY <1>1, <1>2, <1>4 DEF Agreement
<1>6. budget' \in [entries : Nat, edits : 0..MaxEdits, issued : Nat, crashes : Nat]
  <2>1. budget \in [entries : Nat, edits : 0..MaxEdits, issued : Nat, crashes : Nat]
    BY DEF ConfigInv, TypeOK
  <2>2. budget.crashes - 1 \in Nat BY <1>1, <2>1
  <2> QED BY <1>1, <2>1, <2>2
<1>7. mem' \in Configs /\ Len(mem'.list) <= MaxServers BY <1>3 DEF Sound
<1>8. session' \in Optional(Configs) /\ doubt' \in BOOLEAN
  BY <1>1 DEF Optional, ConfigInv, TypeOK
<1>9. TypeOK' BY <1>1, <1>6, <1>7, <1>8, IdleFacts DEF ConfigInv, TypeOK
<1> QED BY <1>2, <1>3, <1>5, <1>9 DEF ConfigInv

LEMMA StartStep == ConfigInv /\ Start => ConfigInv'
<1> SUFFICES ASSUME ConfigInv, Start PROVE ConfigInv'
  OBVIOUS
<1>1. /\ ~up /\ up' = TRUE /\ mem' = FileConfig /\ doubt' = FALSE
      /\ acked' = IF doubt THEN EditsOf(FileConfig) ELSE acked
      /\ UNCHANGED <<file, busy, session, consent, budget>>
  BY DEF Start
<1>2. FileConfig' = FileConfig /\ FileInv' BY <1>1, FileKept DEF ConfigInv
<1>3. Sound(mem, consent)' /\ Sound(FileConfig, consent)' BY <1>1, <1>2 DEF ConfigInv
<1>4. acked' = EditsOf(FileConfig) /\ busy = Idle BY <1>1 DEF ConfigInv, Agreement
<1>5. Agreement' BY <1>1, <1>2, <1>4 DEF Agreement
<1>6. mem' \in Configs /\ Len(mem'.list) <= MaxServers BY <1>3 DEF Sound
<1>7. acked' \in Edits BY <1>1, <1>4, <1>6, EditsTypes
<1>8. TypeOK' BY <1>1, <1>6, <1>7 DEF ConfigInv, TypeOK
<1> QED BY <1>2, <1>3, <1>5, <1>8 DEF ConfigInv

LEMMA InitializeStep == ConfigInv /\ InitializeManagedConfig => ConfigInv'
<1> SUFFICES ASSUME ConfigInv, InitializeManagedConfig PROVE ConfigInv'
  OBVIOUS
<1>1. /\ ~up /\ file' = <<Stored(FileConfig)>>
      /\ UNCHANGED <<mem, up, busy, session, doubt, acked, consent, budget>>
  BY DEF InitializeManagedConfig
<1>2. FileConfig \in Configs /\ WellFormed(FileConfig) BY DEF ConfigInv, Sound
<1>3. FileConfig' = FileConfig /\ FileInv' BY <1>1, <1>2, Replaced
<1>4. Sound(mem, consent)' /\ Sound(FileConfig, consent)' BY <1>1, <1>3 DEF ConfigInv
<1>5. Agreement' BY <1>1, <1>3 DEF ConfigInv, Agreement
<1>6. file' \in Optional(Configs) BY <1>1, <1>2, StoredTypes DEF Optional
<1>7. TypeOK' BY <1>1, <1>6 DEF ConfigInv, TypeOK
<1> QED BY <1>3, <1>4, <1>5, <1>7 DEF ConfigInv

(* The configuration the wizard writes.                                    *)
WizardCredential(node, p, cred) ==
    ApplyCredential([Seed EXCEPT !.node = node, !.presets = p], cred)
WizardAddr(a, cred) == IF cred.kind = "boot" THEN cred.at ELSE a
WizardNext(a, node, p, cred) ==
    [WizardCredential(node, p, cred) EXCEPT !.addr = WizardAddr(a, cred)]
WizardConsents(a, node, cred) ==
    <<Access(cred), WizardAddr(a, cred), Seed.tls,
      IF cred.node # "" /\ cred.kind = "boot" THEN cred.node ELSE node>>

LEMMA WizardFacts ==
    ASSUME ConfigInv, NEW a \in Addrs, NEW node \in Nodes, NEW p \in Nat,
           NEW cred \in Credentials, cred # NoCred, NEW given,
           WizardConsents(a, node, cred) \in given
    PROVE  /\ Sound(WizardNext(a, node, p, cred), given)
           /\ WizardNext(a, node, p, cred).list = FileConfig.list
           /\ WizardNext(a, node, p, cred).presets = p
<1> DEFINE c1 == [Seed EXCEPT !.node = node]
           c2 == [c1 EXCEPT !.presets = p]
           c3 == WizardCredential(node, p, cred)
           next == WizardNext(a, node, p, cred)
<1>1. Seed \in Configs /\ Seed.sel # <<>> /\ Seed.list = FileConfig.list
  BY FileConfigFacts DEF ConfigInv
<1>2. c1 \in Configs BY <1>1, ConfigFields
<1>3. c2 \in Configs BY <1>2, ConfigFields
<1>4. /\ c2.sel = Seed.sel /\ c2.list = Seed.list /\ c2.presets = p /\ c2.node = node
      /\ c2.tls = Seed.tls
  BY <1>1 DEF Configs
<1>5. c3 = ApplyCredential(c2, cred) BY <1>1 DEF WizardCredential, Configs
<1> HIDE DEF c1, c2, c3, next
<1>6. /\ c3 \in Configs
      /\ \A f \in {"addr", "tls", "sel", "list", "presets"} : c3[f] = c2[f]
      /\ c3.token = Access(cred)
      /\ cred.kind = "boot" => c3.boot = cred /\ c3.pass = NoCred
      /\ cred.kind # "boot" => c3.boot = NoCred
      /\ c3.node = IF cred.kind = "boot" /\ cred.node # "" THEN cred.node ELSE c2.node
  <2>1. WithCredential(c3, c2, cred) BY <1>3, <1>5, ApplyCredentialTypes
  <2> QED BY <2>1 DEF WithCredential
<1>7. WizardAddr(a, cred) \in Addrs \cup {""} BY DEF WizardAddr, Credentials
<1>8. next = [c3 EXCEPT !.addr = WizardAddr(a, cred)] BY DEF next, WizardNext, c3
<1>9. next \in Configs BY <1>6, <1>7, <1>8, ConfigFields
<1>10. /\ next.addr = WizardAddr(a, cred) /\ next.boot = c3.boot /\ next.pass = c3.pass
       /\ next.token = c3.token /\ next.node = c3.node /\ next.tls = c3.tls
       /\ next.sel = c3.sel /\ next.list = c3.list /\ next.presets = c3.presets
  BY <1>6, <1>8 DEF Configs
<1>11. /\ next.list = FileConfig.list /\ next.presets = p /\ next.sel # <<>>
       /\ next.tls = Seed.tls /\ next.token = Access(cred)
  BY <1>1, <1>4, <1>6, <1>10
<1>12. Access(cred) # NoCred BY CredentialFacts
<1>13. WellFormed(next)
  BY <1>4, <1>6, <1>10, <1>11, <1>12 DEF WellFormed, WizardAddr
<1>14. Presents(next) = WizardConsents(a, node, cred)
  BY <1>4, <1>6, <1>10, <1>11 DEF Presents, WizardConsents
<1>15. NoRepeats(next.list) /\ Len(next.list) <= MaxServers BY <1>11 DEF ConfigInv, Sound
<1>16. Sound(next, given) BY <1>9, <1>13, <1>14, <1>15 DEF Sound
<1> QED BY <1>11, <1>16 DEF next

LEMMA WizardStep == ConfigInv /\ Wizard => ConfigInv'
<1> SUFFICES ASSUME ConfigInv, Wizard PROVE ConfigInv'
  OBVIOUS
<1>0. /\ TypeOK /\ Seed \in Configs /\ ~up /\ budget.entries > 0 /\ busy = Idle
      /\ doubt' = FALSE /\ mem' = FileConfig' /\ UNCHANGED <<up, busy, session>>
      /\ mem = FileConfig
      /\ ~doubt => EditsOf(FileConfig) = acked
  BY FileConfigFacts DEF ConfigInv, Wizard, Agreement
<1>1. PICK cred \in {Kept(Seed)} \cup Entered,
           a \in Addrs, node \in Nodes, p \in Presets(Seed) :
        /\ cred # NoCred /\ Valid(WizardNext(a, node, p, cred))
        /\ file' = <<Stored(WizardNext(a, node, p, cred))>>
        /\ consent' = consent \cup {WizardConsents(a, node, cred)}
        /\ acked' = IF doubt THEN EditsOf(WizardNext(a, node, p, cred))
                    ELSE [acked EXCEPT !.presets = p]
        /\ Spend(cred, p # Seed.presets)
  BY DEF Wizard, WizardNext, WizardCredential, WizardAddr, WizardConsents
<1>2. p \in Nat /\ (p # Seed.presets => budget.edits > 0) BY <1>0, PresetsFacts
<1>3. cred \in Credentials /\ cred # NoCred
  <2>1. Kept(Seed) \in Credentials BY <1>0, FieldTypes DEF Kept
  <2> QED BY <1>0, <1>1, <2>1, EnteredFacts
<1> DEFINE next == WizardNext(a, node, p, cred)
           given == consent'
<1>4. consent \subseteq given /\ WizardConsents(a, node, cred) \in given BY <1>1
<1> HIDE DEF given
<1>5. Sound(next, given) /\ next.list = FileConfig.list /\ next.presets = p
  BY <1>2, <1>3, <1>4, WizardFacts
<1>6. file' = <<Stored(next)>> BY <1>1
<1> HIDE DEF next
<1>7. FileConfig' = next /\ FileInv' BY <1>5, <1>6, Replaced DEF Sound
<1>8. Sound(mem, consent)' /\ Sound(FileConfig, consent)' BY <1>0, <1>5, <1>7 DEF given
<1>9. acked' = EditsOf(next)
  <2>1. CASE doubt BY <1>1, <2>1 DEF next
  <2>2. CASE ~doubt
    <3>1. acked' = [EditsOf(FileConfig) EXCEPT !.presets = p] BY <1>0, <1>1, <2>2
    <3> QED BY <1>5, <3>1, EditsWith
  <2> QED BY <2>1, <2>2
<1>10. Agreement' BY <1>0, <1>7, <1>9 DEF Agreement
<1>11. next \in Configs /\ Len(next.list) <= MaxServers BY <1>5 DEF Sound
<1>12. file' \in Optional(Configs) /\ acked' \in Edits
  BY <1>6, <1>9, <1>11, StoredTypes, EditsTypes DEF Optional
<1>13. budget' \in [entries : Nat, edits : 0..MaxEdits, issued : Nat, crashes : Nat]
  BY <1>0, <1>1, <1>2, SpendTypes
<1>14. consent' \subseteq Credentials \X (Addrs \cup {""}) \X Names \X Nodes
  <2>1. Access(cred) \in Credentials BY <1>3, CredentialFacts
  <2>2. WizardAddr(a, cred) \in Addrs \cup {""} BY <1>3 DEF WizardAddr, Credentials
  <2>3. Seed.tls \in Names BY <1>0, FieldTypes
  <2>4. (IF cred.node # "" /\ cred.kind = "boot" THEN cred.node ELSE node) \in Nodes
    BY <1>3 DEF Credentials
  <2>5. WizardConsents(a, node, cred) \in Credentials \X (Addrs \cup {""}) \X Names \X Nodes
    BY <2>1, <2>2, <2>3, <2>4 DEF WizardConsents
  <2> QED BY <1>0, <1>1, <2>5 DEF TypeOK
<1>15. TypeOK' BY <1>0, <1>7, <1>11, <1>12, <1>13, <1>14 DEF TypeOK
<1> QED BY <1>7, <1>8, <1>10, <1>15 DEF ConfigInv

-----------------------------------------------------------------------------
(* The theorems.                                                           *)

LEMMA ConfigInit == Init => ConfigInv
<1> SUFFICES ASSUME Init PROVE ConfigInv
  OBVIOUS
<1>1. /\ file = <<>> /\ up = FALSE /\ mem = FileConfig /\ busy = Idle /\ session = <<>>
      /\ doubt = FALSE /\ acked = EditsOf(mem) /\ consent = {}
  BY DEF Init
<1>2. /\ FileConfig \in Configs /\ WellFormed(FileConfig) /\ ~Valid(FileConfig)
      /\ FileConfig.list = <<>>
  BY <1>1, FileConfigOfNone
<1>3. NoRepeats(FileConfig.list) /\ Len(FileConfig.list) <= MaxServers
  BY <1>2, BoundTypes DEF NoRepeats
<1>4. Sound(FileConfig, consent) BY <1>2, <1>3 DEF Sound
<1>5. FileInv /\ Agreement BY <1>1 DEF FileInv, Agreement
<1>6. budget \in [entries : Nat, edits : 0..MaxEdits, issued : Nat, crashes : Nat]
  <2>1. /\ MaxEntries \in Nat /\ MaxEdits \in Nat /\ MaxIssued \in Nat /\ MaxCrashes \in Nat
    BY ManagedAssumption
  <2>2. MaxEdits \in 0..MaxEdits BY <2>1
  <2> QED BY <2>1, <2>2 DEF Init
<1>7. acked \in Edits BY <1>1, <1>2, EditsTypes
<1>8. TypeOK BY <1>1, <1>2, <1>3, <1>6, <1>7, IdleFacts DEF TypeOK, Optional
<1> QED BY <1>1, <1>4, <1>5, <1>8 DEF ConfigInv

LEMMA ConfigStep == ConfigInv /\ [Next]_vars => ConfigInv'
<1> SUFFICES ASSUME ConfigInv, [Next]_vars PROVE ConfigInv'
  OBVIOUS
<1>1. CASE Config_Save BY <1>1, SaveStep
<1>2. CASE Config_Load \/ Swap BY <1>2, LoadStep
<1>3. CASE Config_LoadFails BY <1>3, LoadFailsStep
<1>4. CASE \E a \in Addrs, t \in Names : Servers_Add(a, t) BY <1>4, AddStep
<1>5. CASE \E i \in DOMAIN mem.list : Servers_Remove(i) BY <1>5, RemoveStep
<1>6. CASE Session_Start BY <1>6, SessionStep
<1>7. CASE Session_Issued BY <1>7, IssuedStep
<1>8. CASE Crash BY <1>8, CrashStep
<1>9. CASE Start BY <1>9, StartStep
<1>10. CASE InitializeManagedConfig BY <1>10, InitializeStep
<1>11. CASE Wizard BY <1>11, WizardStep
<1>12. CASE UNCHANGED vars
  <2>1. FileConfig' = FileConfig /\ FileInv' BY <1>12, FileKept DEF ConfigInv, vars
  <2>2. TypeOK' BY <1>12 DEF ConfigInv, TypeOK, vars
  <2>3. Agreement' BY <1>12, <2>1 DEF ConfigInv, Agreement, vars
  <2> QED BY <1>12, <2>1, <2>2, <2>3 DEF ConfigInv, vars
<1> QED
  BY <1>1, <1>2, <1>3, <1>4, <1>5, <1>6, <1>7, <1>8, <1>9, <1>10, <1>11, <1>12 DEF Next

(* ConfigInv holds throughout, and with it the types, for any number of    *)
(* servers, names, nodes, edits, credentials and crashes.                  *)
LEMMA ConfigInvariant == Spec => []ConfigInv
BY ConfigInit, ConfigStep, PTL DEF Spec

(* The configuration, the file and the holder of updateMu have their       *)
(* types; no list of servers grows beyond the limit, in memory or on disk. *)
THEOREM ConfigTypeCorrect == Spec => [](TypeOK /\ Len(FileConfig.list) <= MaxServers)
<1>1. ConfigInv => TypeOK /\ Len(FileConfig.list) <= MaxServers
  BY DEF ConfigInv, Sound
<1> QED BY <1>1, ConfigInvariant, PTL

(* Credentials are presented only where they were entered for or issued:   *)
(* a writer puts a consented credential next to its own server, TLS        *)
(* identity and node, and the stored form is read back as it was.          *)
THEOREM CredentialsStayHome == Spec => []CredentialStaysHome
<1>1. ConfigInv => CredentialStaysHome
  BY DEF ConfigInv, Sound, CredentialStaysHome
<1> QED BY <1>1, ConfigInvariant, PTL

(* A restart finds the configuration the client ran with.                  *)
THEOREM RestartsKeepConfiguration == Spec => []RestartKeepsConfiguration
<1>1. ConfigInv => RestartKeepsConfiguration
  BY DEF ConfigInv, Agreement, RestartKeepsConfiguration
<1> QED BY <1>1, ConfigInvariant, PTL

(* Acknowledged edits are in Client.cfg, over saves, late credentials,     *)
(* crashes and restarts.                                                   *)
THEOREM EditsAreNotLost == Spec => []EditsAreKept
<1>1. ConfigInv => EditsAreKept
  BY DEF ConfigInv, Agreement, EditsAreKept
<1> QED BY <1>1, ConfigInvariant, PTL

-----------------------------------------------------------------------------
(* Block-IP requests.                                                       *)

(* BlockTypeOK is inductive by itself: Deliver and FailOne put an answer only   *)
(* into an empty channel, and Receive takes one only from a full one.      *)
LEMMA BlockTypeInit == BlockInit => BlockTypeOK
BY BlockAssumption DEF BlockInit, BlockTypeOK

LEMMA BlockTypeStep == BlockTypeOK /\ [BlockNext]_blockvars => BlockTypeOK'
<1> SUFFICES ASSUME BlockTypeOK, [BlockNext]_blockvars PROVE BlockTypeOK'
  OBVIOUS
<1> USE BlockAssumption DEF BlockTypeOK
<1>1. ASSUME NEW r \in Reqs, RequestStep(r)
      PROVE  BlockTypeOK'
  <2>1. CASE Submit(r) BY <2>1 DEF Submit
  <2>2. CASE Send(r) BY <2>2 DEF Send
  <2>3. CASE SendFails(r) BY <2>3 DEF SendFails
  <2>4. CASE Receive(r) BY <2>4 DEF Receive
  <2>5. CASE TimesOut(r) BY <2>5 DEF TimesOut
  <2>6. CASE Answer(r) BY <2>6 DEF Answer
  <2>7. CASE FailOne(r) BY <2>7 DEF FailOne
  <2> QED BY <1>1, <2>1, <2>2, <2>3, <2>4, <2>5, <2>6, <2>7 DEF RequestStep
<1>2. CASE Dial BY <1>2 DEF Dial
<1>3. CASE Deliver BY <1>3 DEF Deliver
<1>4. CASE SessionEnds BY <1>4 DEF SessionEnds
<1>5. CASE CloseConn BY <1>5 DEF CloseConn
<1>6. CASE UNCHANGED blockvars BY <1>6 DEF blockvars
<1> QED BY <1>1, <1>2, <1>3, <1>4, <1>5, <1>6 DEF BlockNext

(* Type correctness: a channel never holds more than its one answer.       *)
THEOREM BlockTypeCorrect == BlockSpec => []BlockTypeOK
<1>1. BlockTypeOK /\ [BlockNext]_blockvars => BlockTypeOK' BY BlockTypeStep
<1> QED BY BlockTypeInit, <1>1, PTL DEF BlockSpec

-----------------------------------------------------------------------------
(* Who may send into a channel.                                            *)

(* A request's channel is in the table, in the reader's hands or in the    *)
(* list of failPendingBlockRequests, at most one of them, and has room as  *)
(* long as it is; a request that has not started is nowhere.               *)
HolderInv ==
    /\ \A r \in Reqs : pc[r] = "idle" =>
          r \notin entries \cup failing /\ r # reader /\ chan[r] = 0
    /\ \A r \in entries : r \notin failing /\ r # reader /\ chan[r] = 0
    /\ \A r \in failing : r # reader /\ chan[r] = 0
    /\ reader # None => chan[reader] = 0 /\ run = "serving"
    /\ failing # {} => run = "failing"

BlockInv == HolderInv /\ NoForgottenEntry

LEMMA BlockInvInit == BlockInit => BlockInv
BY BlockAssumption DEF BlockInit, BlockInv, HolderInv, NoForgottenEntry

(* Taking a channel out of the table (Answer, SessionEnds) is what hands   *)
(* over the right to send; a request that leaves by itself takes it back.  *)
LEMMA BlockInvStep == BlockTypeOK /\ BlockInv /\ [BlockNext]_blockvars => BlockInv'
<1> SUFFICES ASSUME BlockTypeOK, BlockInv, [BlockNext]_blockvars PROVE BlockInv'
  OBVIOUS
<1> USE BlockAssumption DEF BlockTypeOK, BlockInv, HolderInv, NoForgottenEntry
<1>1. ASSUME NEW r \in Reqs, RequestStep(r)
      PROVE  BlockInv'
  <2>1. CASE Submit(r) BY <2>1 DEF Submit
  <2>2. CASE Send(r) BY <2>2 DEF Send
  <2>3. CASE SendFails(r) BY <2>3 DEF SendFails
  <2>4. CASE Receive(r) BY <2>4 DEF Receive
  <2>5. CASE TimesOut(r) BY <2>5 DEF TimesOut
  <2>6. CASE Answer(r) BY <2>6 DEF Answer
  <2>7. CASE FailOne(r) BY <2>7 DEF FailOne
  <2> QED BY <1>1, <2>1, <2>2, <2>3, <2>4, <2>5, <2>6, <2>7 DEF RequestStep
<1>2. CASE Dial BY <1>2 DEF Dial
<1>3. CASE Deliver BY <1>3 DEF Deliver
<1>4. CASE SessionEnds BY <1>4 DEF SessionEnds
<1>5. CASE CloseConn BY <1>5 DEF CloseConn
<1>6. CASE UNCHANGED blockvars BY <1>6 DEF blockvars
<1> QED BY <1>1, <1>2, <1>3, <1>4, <1>5, <1>6 DEF BlockNext

LEMMA BlockInvariant == BlockSpec => [](BlockTypeOK /\ BlockInv)
<1>1. BlockInit => BlockTypeOK /\ BlockInv BY BlockTypeInit, BlockInvInit
<1>2. BlockTypeOK /\ BlockInv /\ [BlockNext]_blockvars => (BlockTypeOK /\ BlockInv)'
  BY BlockTypeStep, BlockInvStep
<1> QED BY <1>1, <1>2, PTL DEF BlockSpec

(* resolveBlockRequest and failPendingBlockRequests always find room in    *)
(* the channel they hold: a duplicate or late answer and the end of the    *)
(* session, in any order, block neither the reader nor the deferred calls  *)
(* of session.run.                                                         *)
THEOREM SendersNeverBlock == BlockSpec => []SenderNeverBlocks
<1>1. BlockTypeOK /\ BlockInv => SenderNeverBlocks
  BY DEF BlockTypeOK, BlockInv, HolderInv, SenderNeverBlocks
<1> QED BY BlockInvariant, <1>1, PTL

(* blockRequests keeps no entry of a request that has returned.            *)
THEOREM EntriesAreRemembered == BlockSpec => []NoForgottenEntry
<1>1. BlockTypeOK /\ BlockInv => NoForgottenEntry BY DEF BlockInv
<1> QED BY BlockInvariant, <1>1, PTL

===============================================================================
