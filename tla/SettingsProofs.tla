--------------------------- MODULE SettingsProofs ---------------------------
(***************************************************************************)
(* One connection on its way through editor, export, import and dialog:    *)
(* the properties of Settings, for all connections, files and rows.        *)
(***************************************************************************)
EXTENDS Settings, EditorProofs, OvpnImportProofs

-----------------------------------------------------------------------------
(* What is in a dictionary and in a file, in the words of OvpnImportProofs. *)

LEMMA SoundIs == ASSUME NEW d, IsItems(d), IsReadable(d) PROVE Sound(d)
<1>1. ASSUME NEW k, Has(d, k) PROVE Reads(k, d[k])
  BY <1>1 DEF IsReadable, Has
<1>2. Has(d, "remote") => d["remote"] \in DOMAIN Remotes BY <1>1 DEF Reads
<1>3. Has(d, "verify-x509-name") => d["verify-x509-name"] \in DOMAIN X509Names
  BY <1>1 DEF Reads
<1>4. Has(d, "nm-openvpn3-extra-routes")
        => d["nm-openvpn3-extra-routes"] \in DOMAIN RouteLines
  BY <1>1 DEF Reads
<1> QED BY <1>2, <1>3, <1>4 DEF Sound, IsItems

LEMMA ItemsOfSound == ASSUME NEW d, Sound(d) PROVE IsItems(d) /\ IsReadable(d)
<1>1. IsItems(d) BY DEF Sound, IsItems
<1>2. ASSUME NEW k \in DOMAIN d PROVE Reads(k, d[k])
  BY <1>2 DEF Sound, Reads, Has
<1> QED BY <1>1, <1>2 DEF IsReadable

LEMMA SeqWider == ASSUME NEW D, NEW E, D \subseteq E, NEW t \in Seq(D) PROVE t \in Seq(E)
<1>1. Len(t) \in Nat /\ t \in [1..Len(t) -> D] BY LenProperties
<1>2. t \in [1..Len(t) -> E] BY <1>1
<1> QED BY <1>1, <1>2, SeqDef

LEMMA LegibleIs == ASSUME NEW t, IsFileText(t) PROVE Legible(t)
<1>1. t \in Seq(Seq(Strings)) BY DEF IsFileText
<1>2. \A i \in DOMAIN t : t[i] \in Directives
  <2>1. SUFFICES ASSUME NEW i \in DOMAIN t PROVE t[i] \in Directives OBVIOUS
  <2>2. t[i] \in Seq(Strings) BY <1>1, <2>1
  <2>3. /\ t[i] # <<>>
        /\ IsBlob(t[i]) => Len(t[i]) = 2
        /\ t[i][1] = "verify-x509-name" => Spelled(X509Names, <<Arg1(t[i]), Arg0(t[i])>>)
    BY <2>1, Zenon DEF IsFileText
  <2> QED BY <2>2, <2>3, Zenon DEF Directives
<1>3. t \in Seq(Directives)
  <2>1. Len(t) \in Nat /\ t \in [1..Len(t) -> Seq(Strings)] BY <1>1, LenProperties
  <2>2. t \in [1..Len(t) -> Directives] BY <1>2, <2>1
  <2> QED BY <2>1, <2>2, SeqDef
<1>4. /\ Read(t).remotes # <<>> => Spelled(Remotes, Read(t).remotes)
      /\ Read(t).routes # <<>> => Spelled(RouteLines, PlainLines(Read(t).routes))
  BY Zenon DEF IsFileText, Read
<1> QED BY <1>3, <1>4 DEF Legible

-----------------------------------------------------------------------------
(* The loop over the inline blobs of an imported file.                     *)

(* The keys an import may leave in vpn.data.                               *)
SettingKeys ==
    DataKeys \cup INLINE_BLOB_NAMES
      \cup {"http-proxy-username", "http-proxy-password-flags", "nm-openvpn3-profile"}

(* The directives of a file that parse accepts.                            *)
Accepted == {l \in Directives : IsBlob(l) => l[2] \in INLINE_BLOB_NAMES}

Added(t, d, lost) == FoldLeft(LAMBDA x, l : AddBlob(x, l, lost), d, t)

Adding(lost) ==
    [l \in Accepted |-> [d \in Dicts(SettingKeys) |-> AddBlob(d, l, lost)]]

LEMMA BlobKeysType ==
    ASSUME NEW n \in INLINE_BLOB_NAMES
    PROVE  /\ BlobKeys(n) \in SUBSET SettingKeys
           /\ BlobPath[n] \in Strings /\ BlobPath[n] # ""
<1>1. BlobKeys(n) \subseteq INLINE_BLOB_NAMES BY DEF BlobKeys, INLINE_BLOB_NAMES
<1>2. BlobPath \in [INLINE_BLOB_NAMES -> Strings \ {""}] BY SettingsAssumption
<1> QED BY <1>1, <1>2 DEF SettingKeys

LEMMA AddingType ==
    ASSUME NEW lost
    PROVE  Adding(lost) \in [Accepted -> [Dicts(SettingKeys) -> Dicts(SettingKeys)]]
<1>1. ASSUME NEW l \in Accepted, NEW d \in Dicts(SettingKeys)
      PROVE  AddBlob(d, l, lost) \in Dicts(SettingKeys)
  <2>1. CASE ~IsBlob(l) \/ l[2] \in lost BY <2>1 DEF AddBlob
  <2>2. CASE ~(~IsBlob(l) \/ l[2] \in lost)
    <3>1. l[2] \in INLINE_BLOB_NAMES BY <2>2 DEF Accepted
    <3>2. /\ BlobKeys(l[2]) \in SUBSET SettingKeys
          /\ BlobPath[l[2]] \in Strings /\ BlobPath[l[2]] # ""
      BY <3>1, BlobKeysType
    <3>3. WithAll(d, BlobKeys(l[2]), BlobPath[l[2]]) \in Dicts(SettingKeys)
      BY <3>2, DictWithAll
    <3> QED BY <2>2, <3>3 DEF AddBlob
  <2> QED BY <2>1, <2>2
<1> QED BY <1>1 DEF Adding

LEMMA AddedRun ==
    ASSUME NEW lost, NEW base \in Dicts(SettingKeys), NEW h, Listed(h, Accepted)
    PROVE  \E f : /\ IsRun(f, h, Dicts(SettingKeys), base, Adding(lost))
                  /\ Added(h, base, lost) = f[DOMAIN h]
<1> DEFINE S == DOMAIN h
           V == Dicts(SettingKeys)
           sd == Adding(lost)
           iter == CHOOSE g : g = [s \in SUBSET S |-> IF s = {} THEN base
                                     ELSE AddBlob(g[s \ {Max(s)}], h[Max(s)], lost)]
<1>1. sd \in [Accepted -> [V -> V]] /\ base \in V BY AddingType
<1>2. Added(h, base, lost) = iter[S] BY DEF Added, FoldLeft, MapThenFoldSet
<1>5. \A i \in S, v \in V : sd[h[i]][v] = AddBlob(v, h[i], lost) BY DEF Adding, Listed
<1> HIDE DEF sd, V
<1>3. PICK f : IsRun(f, h, V, base, sd) BY <1>1, RunExists, Zenon
<1>4. Equation(f, h, V, base, sd) BY <1>1, <1>3, RunEquation, Zenon
<1>6. f = [s \in SUBSET S |-> IF s = {} THEN base
                              ELSE AddBlob(f[s \ {Max(s)}], h[Max(s)], lost)]
  BY <1>4, <1>5 DEF Equation
<1>7. iter = [s \in SUBSET S |-> IF s = {} THEN base
                                 ELSE AddBlob(iter[s \ {Max(s)}], h[Max(s)], lost)]
  BY <1>6
<1> HIDE DEF iter
<1>8. Computes(iter, h, V, base, sd)
  <2>1. iter[{}] = base BY <1>7
  <2>2. ASSUME NEW s \in SUBSET S, s # {}, iter[s \ {Max(s)}] \in V
        PROVE  iter[s] = sd[h[Max(s)]][iter[s \ {Max(s)}]]
    <3>1. iter[s] = AddBlob(iter[s \ {Max(s)}], h[Max(s)], lost) BY <1>7, <2>2
    <3>2. Max(s) \in S BY <1>4, <2>2 DEF Equation
    <3> QED BY <1>5, <2>2, <3>1, <3>2
  <2> QED BY <2>1, <2>2 DEF Computes
<1>9. SameOn({DOMAIN h}, f, iter) BY <1>1, <1>3, <1>8, RunUnique, Zenon
<1> QED BY <1>2, <1>3, <1>9 DEF sd, V, SameOn

LEMMA AddedIs ==
    ASSUME NEW lost, NEW base \in Dicts(SettingKeys), NEW h, Listed(h, Accepted)
    PROVE  /\ Added(h, base, lost) \in Dicts(SettingKeys)
           /\ Added(h, base, lost) = IF DOMAIN h = {} THEN base
                      ELSE AddBlob(Added(Before(h), base, lost), h[Last1(h)], lost)
<1> DEFINE sd == Adding(lost)
           V == Dicts(SettingKeys)
<1>1. sd \in [Accepted -> [V -> V]] /\ base \in V BY AddingType
<1>2. Listed(Before(h), Accepted) BY BeforeListed
<1>3. PICK f : IsRun(f, h, V, base, sd) /\ Added(h, base, lost) = f[DOMAIN h]
  BY AddedRun
<1>4. PICK g : /\ IsRun(g, Before(h), V, base, sd)
               /\ Added(Before(h), base, lost) = g[DOMAIN Before(h)]
  BY <1>2, AddedRun
<1> HIDE DEF sd, V
<1>5. Stepped(f[DOMAIN h], g[DOMAIN Before(h)], h, V, base, sd)
  BY <1>1, <1>3, <1>4, RunStepped, Zenon
<1>6. g[DOMAIN Before(h)] \in V
  <2>1. Equation(g, Before(h), V, base, sd) BY <1>1, <1>2, <1>4, RunEquation, Zenon
  <2> QED BY <2>1 DEF Equation
<1>7. DOMAIN h # {} => h[Last1(h)] \in Accepted BY LastListed DEF Listed
<1> QED BY <1>3, <1>4, <1>5, <1>6, <1>7 DEF Stepped, sd, V, Adding

(* An item of the result is the last blob's that has its key, or was there *)
(* before.                                                                 *)
BlobFor(l, x) == IsBlob(l) /\ x \in BlobKeys(l[2])

AddsItems(r, t, d) ==
    /\ r \in Dicts(SettingKeys)
    /\ \A x \in DOMAIN r :
         \/ x \in DOMAIN d /\ r[x] = d[x]
         \/ \E i \in DOMAIN t : BlobFor(t[i], x) /\ r[x] = BlobPath[t[i][2]]
    /\ \A x \in DOMAIN d : x \in DOMAIN r
    /\ \A x \in DOMAIN d : (\A i \in DOMAIN t : ~BlobFor(t[i], x)) => r[x] = d[x]

AddsBlob(r, d, l) ==
    /\ \A x \in DOMAIN r :
         \/ x \in DOMAIN d /\ r[x] = d[x]
         \/ BlobFor(l, x) /\ r[x] = BlobPath[l[2]]
    /\ \A x \in DOMAIN d : x \in DOMAIN r
    /\ \A x \in DOMAIN d : ~BlobFor(l, x) => r[x] = d[x]

LEMMA AddsOne == ASSUME NEW d, NEW l, NEW lost PROVE AddsBlob(AddBlob(d, l, lost), d, l)
<1>1. CASE ~IsBlob(l) \/ l[2] \in lost
  <2>1. AddBlob(d, l, lost) = d BY <1>1 DEF AddBlob
  <2>2. AddsBlob(d, d, l) BY DEF AddsBlob
  <2> QED BY <2>1, <2>2
<1>2. CASE ~(~IsBlob(l) \/ l[2] \in lost)
  <2> DEFINE ks == BlobKeys(l[2])
             v == BlobPath[l[2]]
             r == [x \in DOMAIN d \cup ks |-> IF x \in ks THEN v ELSE d[x]]
  <2>1. AddBlob(d, l, lost) = r BY <1>2 DEF AddBlob, WithAll
  <2>2. \A x : BlobFor(l, x) <=> x \in ks BY <1>2 DEF BlobFor
  <2>3. v = BlobPath[l[2]] OBVIOUS
  <2>4. DOMAIN r = DOMAIN d \cup ks OBVIOUS
  <2>5. \A x \in DOMAIN r : r[x] = IF x \in ks THEN v ELSE d[x] OBVIOUS
  <2> HIDE DEF ks, v, r
  <2>6. AddsBlob(r, d, l) BY <2>2, <2>3, <2>4, <2>5 DEF AddsBlob
  <2> QED BY <2>1, <2>6
<1> QED BY <1>1, <1>2

LEMMA AddedItems ==
    ASSUME NEW lost, NEW d \in Dicts(SettingKeys)
    PROVE  \A t \in Seq(Accepted) : AddsItems(Added(t, d, lost), t, d)
<1> DEFINE Q == {t \in Seq(Accepted) : AddsItems(Added(t, d, lost), t, d)}
<1>1. <<>> \in Q
  <2>1. <<>> \in Seq(Accepted) OBVIOUS
  <2>2. Listed(<<>>, Accepted) /\ DOMAIN <<>> = {} BY <2>1, SeqListed
  <2>3. Added(<<>>, d, lost) = d BY <2>2, AddedIs
  <2> QED BY <2>1, <2>2, <2>3 DEF AddsItems
<1>2. ASSUME NEW t \in Q, NEW l \in Accepted PROVE Append(t, l) \in Q
  <2> DEFINE u == Append(t, l)
             n == Len(t) + 1
             r == Added(t, d, lost)
             s == Added(u, d, lost)
  <2>1. t \in Seq(Accepted) /\ AddsItems(r, t, d) OBVIOUS
  <2>2. /\ u \in Seq(Accepted) /\ DOMAIN t = 1..Len(t) /\ Len(t) \in Nat
        /\ DOMAIN u = 1..n /\ u[n] = l /\ \A i \in DOMAIN t : u[i] = t[i]
    BY <2>1, AppendProperties, LenProperties
  <2>3. DOMAIN u = DOMAIN t \cup {n} BY <2>2
  <2>4. s = AddBlob(r, l, lost) /\ s \in Dicts(SettingKeys)
    <3>1. DOMAIN u # {} /\ u[Last1(u)] = l /\ Before(u) = t BY <2>1, AppendLast
    <3>2. Listed(u, Accepted) BY <2>2, SeqListed
    <3> QED BY <3>1, <3>2, AddedIs
  <2> HIDE DEF u, n, r, s
  <2>5. AddsBlob(s, r, l) BY <2>4, AddsOne
  <2>6. /\ \A i \in DOMAIN t : i \in DOMAIN u /\ u[i] = t[i]
        /\ n \in DOMAIN u /\ u[n] = l
    BY <2>2, <2>3
  <2>7. AddsItems(s, u, d)
    <3>1. \A x \in DOMAIN s : \/ x \in DOMAIN d /\ s[x] = d[x]
                              \/ \E i \in DOMAIN u : BlobFor(u[i], x) /\ s[x] = BlobPath[u[i][2]]
      BY <2>1, <2>5, <2>6 DEF AddsItems, AddsBlob
    <3>2. \A x \in DOMAIN d : x \in DOMAIN s BY <2>1, <2>5 DEF AddsItems, AddsBlob
    <3>3. ASSUME NEW x \in DOMAIN d, \A i \in DOMAIN u : ~BlobFor(u[i], x)
          PROVE  s[x] = d[x]
      <4>1. ~BlobFor(l, x) /\ \A i \in DOMAIN t : ~BlobFor(t[i], x) BY <2>6, <3>3
      <4> QED BY <2>1, <2>5, <4>1 DEF AddsItems, AddsBlob
    <3> QED BY <2>4, <3>1, <3>2, <3>3 DEF AddsItems
  <2> QED BY <2>2, <2>7 DEF u, s
<1>3. Q \in SUBSET Seq(Accepted) OBVIOUS
<1> HIDE DEF Q
<1>4. Q = Seq(Accepted) BY <1>1, <1>2, <1>3, SequenceInduction
<1> QED BY <1>4 DEF Q

-----------------------------------------------------------------------------
(* What an import leaves in vpn.data.                                      *)

ExtraKeys == {"http-proxy-username", "http-proxy-password-flags", "nm-openvpn3-profile"}

LEMMA DictWider == ASSUME NEW K, NEW L, K \subseteq L PROVE Dicts(K) \subseteq Dicts(L)
BY DEF Dicts

LEMMA DictWithout ==
    ASSUME NEW K, NEW a \in Dicts(K), NEW ks PROVE Without(a, ks) \in Dicts(K)
<1>1. DOMAIN a \subseteq K /\ \A x \in DOMAIN a : a[x] \in Strings /\ a[x] # "" BY DictIs
<1> DEFINE w == Without(a, ks)
<1>2. w = [x \in DOMAIN w |-> w[x]] /\ DOMAIN w = DOMAIN a \ ks
      /\ \A x \in DOMAIN w : w[x] = a[x]
  BY DEF Without
<1> HIDE DEF w
<1>3. DOMAIN w \subseteq K /\ \A x \in DOMAIN w : w[x] \in Strings /\ w[x] # "" BY <1>1, <1>2
<1> QED BY <1>2, <1>3, DictIs DEF w

(* n has the items of a, those of the blobs of t and the extra ones.       *)
Fills(n, a, t) ==
    /\ n \in Dicts(SettingKeys)
    /\ \A x \in DOMAIN n :
         \/ x \in ExtraKeys
         \/ x \in DOMAIN a /\ n[x] = a[x]
         \/ \E i \in DOMAIN t : BlobFor(t[i], x) /\ n[x] = BlobPath[t[i][2]]
    /\ \A x \in DOMAIN a : x # "http-proxy-auth-file" => x \in DOMAIN n
    /\ \A x \in DOMAIN a :
         x \notin ExtraKeys \cup {"http-proxy-auth-file"}
           /\ (\A i \in DOMAIN t : ~BlobFor(t[i], x)) => n[x] = a[x]

(* n is a but for the extra keys and the auth file.                        *)
Extends1(n, a) ==
    /\ n \in Dicts(SettingKeys)
    /\ \A x \in DOMAIN n : x \in ExtraKeys \/ (x \in DOMAIN a /\ n[x] = a[x])
    /\ \A x \in DOMAIN a : x # "http-proxy-auth-file" => x \in DOMAIN n

LEMMA ExtendsWith ==
    ASSUME NEW n, NEW a, Extends1(n, a), NEW k \in ExtraKeys, NEW v \in Strings, v # ""
    PROVE  Extends1(With(n, k, v), a)
<1>1. k \in SettingKeys BY DEF SettingKeys, ExtraKeys
<1>2. With(n, k, v) \in Dicts(SettingKeys) BY <1>1, DictWith DEF Extends1
<1>3. /\ DOMAIN With(n, k, v) = DOMAIN n \cup {k}
      /\ \A x \in DOMAIN With(n, k, v) : With(n, k, v)[x] = IF x = k THEN v ELSE n[x]
  BY DEF With, WithAll
<1> QED BY <1>2, <1>3 DEF Extends1

LEMMA ImportStrings ==
    /\ "proxyuser" \in Strings /\ "proxyuser" # ""
    /\ AgentOwned \in Strings /\ AgentOwned # ""
    /\ ProfilePath \in Strings /\ ProfilePath # ""
BY SettingsAssumption, StringAssumption DEF AgentOwned

LEMMA AcceptedText ==
    ASSUME NEW t, t \in Seq(Directives), parses(t) PROVE t \in Seq(Accepted)
<1>1. Len(t) \in Nat /\ DOMAIN t = 1..Len(t) /\ t \in [1..Len(t) -> Directives]
  BY LenProperties
<1>2. ASSUME NEW i \in DOMAIN t, IsBlob(t[i]) PROVE t[i][2] \in INLINE_BLOB_NAMES
  <2>1. t[i][2] \in Blobs(t) BY <1>2 DEF Blobs
  <2> QED BY <2>1 DEF parses
<1>3. t \in [1..Len(t) -> Accepted] BY <1>1, <1>2 DEF Accepted
<1> QED BY <1>1, <1>3, SeqDef

LEMMA ImportedFills ==
    ASSUME NEW t, Legible(t), parses(t), NEW lost, NEW auth
    PROVE  /\ Fills(ImportedData(t, lost, auth), as_nm_data(t), t)
           /\ Is(ImportedData(t, lost, auth), "nm-openvpn3-profile", ProfilePath)
<1> DEFINE a == as_nm_data(t)
           d0 == Without(a, {"http-proxy-auth-file"})
           d1 == IF "user" \in auth THEN With(d0, "http-proxy-username", "proxyuser") ELSE d0
           d2 == IF "pass" \in auth
                 THEN With(d1, "http-proxy-password-flags", AgentOwned) ELSE d1
           d3 == Added(t, d2, lost)
           n == With(d3, "nm-openvpn3-profile", ProfilePath)
<1>1. ImportedData(t, lost, auth) = n BY DEF ImportedData, Added
<1>2. t \in Seq(Accepted) BY AcceptedText DEF Legible
<1>3. a \in Dicts(SettingKeys)
  <2>1. a \in Dicts(DataKeys) BY ImportIs DEF ImportsAs
  <2>2. DataKeys \subseteq SettingKeys BY DEF SettingKeys
  <2> QED BY <2>1, <2>2, DictWider
<1> HIDE DEF a
<1>4. Extends1(d0, a)
  <2>1. d0 \in Dicts(SettingKeys) BY <1>3, DictWithout
  <2> QED BY <2>1 DEF Extends1, Without
<1> HIDE DEF d0
<1>5. Extends1(d1, a)
  <2>1. "http-proxy-username" \in ExtraKeys BY DEF ExtraKeys
  <2> QED BY <1>4, <2>1, ImportStrings, ExtendsWith
<1> HIDE DEF d1
<1>6. Extends1(d2, a)
  <2>1. "http-proxy-password-flags" \in ExtraKeys BY DEF ExtraKeys
  <2> QED BY <1>5, <2>1, ImportStrings, ExtendsWith
<1> HIDE DEF d2
<1>7. AddsItems(d3, t, d2)
  <2>1. d2 \in Dicts(SettingKeys) BY <1>6 DEF Extends1
  <2> QED BY <1>2, <2>1, AddedItems
<1> HIDE DEF d3
<1>8. /\ DOMAIN n = DOMAIN d3 \cup {"nm-openvpn3-profile"}
      /\ \A x \in DOMAIN n : n[x] = IF x = "nm-openvpn3-profile" THEN ProfilePath ELSE d3[x]
  BY ImportStrings DEF With, WithAll
<1>9. n \in Dicts(SettingKeys)
  <2>1. "nm-openvpn3-profile" \in SettingKeys BY DEF SettingKeys
  <2> QED BY <1>7, <2>1, ImportStrings, DictWith DEF AddsItems
<1>10. "nm-openvpn3-profile" \in ExtraKeys BY DEF ExtraKeys
<1> HIDE DEF n
<1>11. ASSUME NEW x \in DOMAIN n
       PROVE  \/ x \in ExtraKeys
              \/ x \in DOMAIN a /\ n[x] = a[x]
              \/ \E i \in DOMAIN t : BlobFor(t[i], x) /\ n[x] = BlobPath[t[i][2]]
  <2>1. CASE x = "nm-openvpn3-profile" BY <1>10, <2>1
  <2>2. CASE x # "nm-openvpn3-profile"
    <3>1. x \in DOMAIN d3 /\ n[x] = d3[x] BY <1>8, <1>11, <2>2
    <3>2. \/ x \in DOMAIN d2 /\ d3[x] = d2[x]
          \/ \E i \in DOMAIN t : BlobFor(t[i], x) /\ d3[x] = BlobPath[t[i][2]]
      BY <1>7, <3>1 DEF AddsItems
    <3> QED BY <1>6, <3>1, <3>2 DEF Extends1
  <2> QED BY <2>1, <2>2
<1>12. \A x \in DOMAIN a : x # "http-proxy-auth-file" => x \in DOMAIN n
  BY <1>6, <1>7, <1>8 DEF Extends1, AddsItems
<1>13. ASSUME NEW x \in DOMAIN a, x \notin ExtraKeys \cup {"http-proxy-auth-file"},
              \A i \in DOMAIN t : ~BlobFor(t[i], x)
       PROVE  n[x] = a[x]
  <2>1. x \in DOMAIN n BY <1>12, <1>13
  <2> QED BY <1>11, <1>13, <2>1
<1>14. Is(n, "nm-openvpn3-profile", ProfilePath) BY <1>8 DEF Is
<1> QED BY <1>1, <1>9, <1>11, <1>12, <1>13, <1>14 DEF Fills, a

LEMMA ImportedSound ==
    ASSUME NEW t, Legible(t), parses(t), NEW lost, NEW auth
    PROVE  Sound(ImportedData(t, lost, auth))
<1> DEFINE n == ImportedData(t, lost, auth)
           a == as_nm_data(t)
           lists == {"remote", "verify-x509-name", "nm-openvpn3-extra-routes"}
<1>1. Fills(n, a, t) BY ImportedFills
<1>2. t \in Seq(Accepted) BY AcceptedText DEF Legible
<1>3. Sound(a) BY ImportSound
<1> HIDE DEF n, a
<1>4. \A x \in DOMAIN n : n[x] \in Strings /\ n[x] # ""
  <2>1. n \in Dicts(SettingKeys) BY <1>1 DEF Fills
  <2> QED BY <2>1, DictIs
<1>5. ASSUME NEW i \in DOMAIN t, NEW x \in lists PROVE ~BlobFor(t[i], x)
  <2>1. t[i] \in Accepted BY <1>2, <1>5, ElementOfSeq, LenProperties
  <2>2. IsBlob(t[i]) => t[i][2] \in INLINE_BLOB_NAMES BY <2>1 DEF Accepted
  <2>3. \A b \in INLINE_BLOB_NAMES : x \notin BlobKeys(b)
    BY <1>5 DEF INLINE_BLOB_NAMES, BlobKeys
  <2> QED BY <2>2, <2>3 DEF BlobFor
<1>6. ASSUME NEW x \in lists, Has(n, x) PROVE Has(a, x) /\ n[x] = a[x]
  <2>1. x \notin ExtraKeys BY <1>6 DEF ExtraKeys
  <2> QED BY <1>1, <1>5, <1>6, <2>1 DEF Fills, Has
<1>7. Has(n, "remote") => n["remote"] \in DOMAIN Remotes
  <2>1. "remote" \in lists OBVIOUS
  <2> QED BY <1>3, <1>6, <2>1 DEF Sound
<1>8. Has(n, "verify-x509-name") => n["verify-x509-name"] \in DOMAIN X509Names
  <2>1. "verify-x509-name" \in lists OBVIOUS
  <2> QED BY <1>3, <1>6, <2>1 DEF Sound
<1>9. Has(n, "nm-openvpn3-extra-routes")
        => n["nm-openvpn3-extra-routes"] \in DOMAIN RouteLines
  <2>1. "nm-openvpn3-extra-routes" \in lists OBVIOUS
  <2> QED BY <1>3, <1>6, <2>1 DEF Sound
<1> QED BY <1>4, <1>7, <1>8, <1>9 DEF Sound, n

-----------------------------------------------------------------------------
(* The invariant: the editor's, and every value of vpn.data, of its        *)
(* snapshot, of the rows and of the file that is a list can be read.       *)

RowsReadable == \A k \in TextKeys : text[k] # "" => Reads(k, text[k])

FileLegible == file.by \in {"nobody", "user", "export"} /\ Legible(file.text)

SInv ==
    /\ EInv
    /\ IsReadable(data) /\ IsReadable(initial)
    /\ RowsReadable
    /\ FileLegible

LEMMA NoFileLegible == Legible(<<>>) /\ NoFile.by = "nobody" /\ NoFile.text = <<>>
<1>1. Read(<<>>).remotes = <<>> /\ Read(<<>>).routes = <<>>
  <2>1. Read(<<>>) = Start BY ReadSteps, Zenon
  <2>2. Start.remotes = <<>> /\ Start.routes = <<>> BY DEF Start
  <2> QED BY <2>1, <2>2, Zenon
<1>2. <<>> \in Seq(Directives) OBVIOUS
<1> QED BY <1>1, <1>2 DEF Legible, NoFile

LEMMA SInvInit == Init => SInv
<1> SUFFICES ASSUME Init PROVE SInv OBVIOUS
<1>1. IsItems(data) /\ IsReadable(data) BY SettingsAssumption DEF Init
<1>2. IsItems(secrets)
  <2>1. "stored" \in Strings BY SettingsAssumption
  <2> QED BY <2>1 DEF Init, IsItems
<1>3. edits \in 0..MaxEdits
  <2>1. MaxEdits \in Nat BY EditorAssumption
  <2>2. MaxEdits >= 1 BY SettingsAssumption, Zenon
  <2>3. edits = MaxEdits - 1 \/ edits = 0 BY Zenon DEF Init
  <2> QED BY <2>1, <2>2, <2>3
<1>4. EInv BY <1>1, <1>2, <1>3, EInvInit DEF Init, EStart
<1>5. IsReadable(initial) BY DEF Init, EditorInit, NoItems, IsReadable
<1>6. RowsReadable BY DEF Init, EditorInit, BlankText, RowsReadable
<1>7. FileLegible
  <2>1. CASE file = NoFile BY <2>1, NoFileLegible DEF FileLegible
  <2>2. ASSUME NEW t \in UserFiles, file = [by |-> "user", text |-> t] PROVE FileLegible
    <3>1. IsFileText(t) BY SettingsAssumption, Zenon
    <3>2. Legible(t) BY <3>1, LegibleIs
    <3> QED BY <2>2, <3>2 DEF FileLegible
  <2> QED BY <2>1, <2>2 DEF Init
<1> QED BY <1>1, <1>4, <1>5, <1>6, <1>7 DEF SInv

(* What the rows are loaded with can be read, and what is typed into them. *)
LEMMA LoadedReads ==
    ASSUME NEW d, IsReadable(d), NEW k \in TextKeys, LoadText(d)[k] # ""
    PROVE  Reads(k, LoadText(d)[k])
<1>1. LoadText(d)[k] = IF Has(d, k) THEN d[k] ELSE IF k = "connection-type" THEN "tls" ELSE ""
  BY DEF LoadText
<1>2. CASE Has(d, k) BY <1>1, <1>2 DEF IsReadable, Has
<1>3. CASE ~Has(d, k)
  <2>1. k = "connection-type" BY <1>1, <1>3
  <2> QED BY <2>1 DEF Reads
<1> QED BY <1>2, <1>3

LEMMA PathReads == ASSUME NEW k \in PickerKeys, NEW v PROVE Reads(k, v)
BY DEF PickerKeys, Reads

LEMMA RowsStep ==
    EditorTypeOK /\ IsReadable(data) /\ RowsReadable /\ [EditorNext]_editorVars
      => RowsReadable'
<1> SUFFICES ASSUME EditorTypeOK, IsReadable(data), RowsReadable, [EditorNext]_editorVars
             PROVE  RowsReadable'
  OBVIOUS
<1>1. ASSUME NEW k \in TextKeys, NEW v, v # "" => Reads(k, v), text' = [text EXCEPT ![k] = v]
      PROVE  RowsReadable'
  <2>1. \A x \in TextKeys : text'[x] = IF x = k THEN v ELSE text[x]
    BY <1>1 DEF EditorTypeOK
  <2> QED BY <1>1, <2>1 DEF RowsReadable
<1>2. CASE OpenEditor
  <2>1. text' = LoadText(data) BY <1>2 DEF OpenEditor
  <2> QED BY <2>1, LoadedReads DEF RowsReadable
<1>3. ASSUME NEW e \in TextSamples, EditText(e[1], e[2]) PROVE RowsReadable'
  <2>1. e[1] \in TextKeys /\ (e[2] # "" => Reads(e[1], e[2]))
    BY SampleRows, SettingsAssumption, Zenon
  <2> QED BY <1>1, <1>3, <2>1 DEF EditText
<1>4. ASSUME NEW p \in Paths, PickerReturn(p) PROVE RowsReadable'
  <2>1. picker \in PickerKeys BY <1>4 DEF PickerReturn, EditorTypeOK
  <2>2. picker \in TextKeys BY <2>1 DEF TextKeys
  <2>3. text' = text \/ text' = [text EXCEPT ![picker] = p] BY <1>4, <2>2, ReturnCases
  <2>4. Reads(picker, p) BY <2>1, PathReads
  <2> QED BY <1>1, <2>2, <2>3, <2>4 DEF RowsReadable
<1>5. CASE CloseEditor
  <2>1. \A k \in TextKeys : text'[k] = "" BY <1>5 DEF CloseEditor, BlankText
  <2> QED BY <2>1 DEF RowsReadable
<1>6. CASE text' = text BY <1>6 DEF RowsReadable
<1> QED BY <1>2, <1>3, <1>4, <1>5, <1>6
  DEF EditorNext, editorVars, EditSpin, EditSwitch, TypeSecret, OpenPicker, PickerCancel, Apply

(* Apply writes rows, flags and the items it found.                        *)
LEMMA SavedReadable ==
    ASSUME EditorTypeOK, IsReadable(data), IsReadable(initial), RowsReadable
    PROVE  IsReadable(Saved)
<1> DEFINE flags == {FlagKey(s) : s \in Stored}
           own == {k \in WIDGET_DATA_KEYS : Written(k) # ""}
           foreign == (DOMAIN data \cup DOMAIN initial) \ WIDGET_DATA_KEYS
<1>1. DOMAIN Saved = own \cup foreign \cup flags BY DEF Saved
<1>2. \A k \in DOMAIN Saved :
        Saved[k] = IF k \in own THEN Written(k)
                   ELSE IF k \in flags THEN AgentOwned
                   ELSE IF k \in DOMAIN initial THEN initial[k] ELSE data[k]
  BY DEF Saved
<1>3. ASSUME NEW k \in own PROVE Reads(k, Written(k))
  <2>1. CASE k \in TextKeys
    <3>1. Written(k) = text[k] BY <1>3, <2>1 DEF Written
    <3> QED BY <1>3, <2>1, <3>1 DEF RowsReadable
  <2>2. CASE k \notin TextKeys
    <3>1. k \in SpinKeys \cup SwitchKeys BY <1>3, <2>2, RowKinds
    <3>2. k \notin {"remote", "verify-x509-name", "nm-openvpn3-extra-routes"}
      BY <3>1, SpinKeyList DEF SwitchKeys
    <3> QED BY <3>2 DEF Reads
  <2> QED BY <2>1, <2>2
<1>4. \A k \in flags : Reads(k, AgentOwned)
  <2>1. \A s \in SecretKeys : FlagKey(s) \in {"cert-pass-flags", "password-flags",
                                             "http-proxy-password-flags"}
    BY DEF SecretKeys, FlagKey
  <2>2. Stored \subseteq SecretKeys BY DEF Stored
  <2> QED BY <2>1, <2>2 DEF Reads
<1> HIDE DEF own, flags
<1>5. SUFFICES ASSUME NEW k \in DOMAIN Saved PROVE Reads(k, Saved[k]) BY DEF IsReadable
<1>6. CASE k \in own BY <1>2, <1>3, <1>5, <1>6
<1>7. CASE k \notin own /\ k \in flags BY <1>2, <1>4, <1>5, <1>7
<1>8. CASE k \notin own /\ k \notin flags
  <2>1. k \in DOMAIN data \cup DOMAIN initial BY <1>1, <1>5, <1>8
  <2>2. Saved[k] = IF k \in DOMAIN initial THEN initial[k] ELSE data[k]
    BY <1>2, <1>5, <1>8
  <2> QED BY <2>1, <2>2 DEF IsReadable
<1> QED BY <1>6, <1>7, <1>8

LEMMA EditorStep ==
    EInv /\ [EditorNext]_editorVars => EInv'
BY TypeStep, RowStep, EditsStep, FreshStep, CompleteStep DEF EInv

(* Import replaces vpn.data and its secrets while no editor is open.       *)
LEMMA ImportSteps ==
    ASSUME EInv, FileLegible, Import
    PROVE  EInv' /\ IsReadable(data')
<1>1. PICK lost, auth :
        /\ data' = ImportedData(file.text, lost, auth)
        /\ secrets' = IF "pass" \in auth THEN [s \in {"http-proxy-password"} |-> "fromfile"]
                      ELSE [s \in {} |-> ""]
  BY DEF Import
<1>2. /\ ~open /\ parses(file.text) /\ writer' = "import"
      /\ UNCHANGED <<open, initial, text, spin, switch, typed, announced, touched,
                     picker, pickerRow, edits, file>>
  BY DEF Import
<1>3. Sound(data') BY <1>1, <1>2, ImportedSound DEF FileLegible
<1>4. IsItems(data') /\ IsReadable(data') BY <1>3, ItemsOfSound
<1>5. IsItems(secrets')
  <2>1. "fromfile" \in Strings BY SettingsAssumption
  <2> QED BY <1>1, <2>1 DEF IsItems
<1>6. EditorTypeOK' BY <1>2, <1>4, <1>5 DEF EInv, EditorTypeOK, IsItems
<1>7. RowOfOpenEditor' BY <1>2 DEF EInv, RowOfOpenEditor
<1>8. OnlyUserEdits' BY <1>2 DEF EInv, OnlyUserEdits
<1>9. SnapshotFresh' BY <1>2 DEF SnapshotFresh
<1>10. SavedProfileComplete' BY <1>2 DEF SavedProfileComplete
<1> QED BY <1>4, <1>6, <1>7, <1>8, <1>9, <1>10 DEF EInv

LEMMA DataChanges ==
    ASSUME [EditorNext]_editorVars
    PROVE  /\ (Apply /\ data' = Saved) \/ UNCHANGED <<data, secrets, writer>>
           /\ \/ OpenEditor /\ initial' = data
              \/ CloseEditor /\ initial' = NoItems
              \/ initial' = initial
BY DEF EditorNext, editorVars, OpenEditor, EditText, EditSpin, EditSwitch, TypeSecret,
       OpenPicker, PickerReturn, PickerCancel, Apply, CloseEditor

LEMMA SInvStep == SInv /\ [Next]_vars => SInv'
<1> SUFFICES ASSUME SInv, [Next]_vars PROVE SInv' OBVIOUS
<1>1. CASE [EditorNext]_editorVars /\ UNCHANGED file
  <2>1. EInv' BY <1>1, EditorStep DEF SInv
  <2>2. EditorTypeOK BY DEF SInv, EInv
  <2>3. IsReadable(data)'
    <3>1. CASE data' = Saved
      <4>1. IsReadable(Saved) BY <2>2, SavedReadable DEF SInv
      <4> QED BY <3>1, <4>1
    <3>2. CASE data' = data BY <3>2 DEF SInv, IsReadable
    <3> QED BY <1>1, <3>1, <3>2, DataChanges
  <2>4. IsReadable(initial)'
    <3>1. IsReadable(NoItems) BY DEF IsReadable, NoItems
    <3>2. initial' \in {data, NoItems, initial} BY <1>1, DataChanges
    <3> QED BY <3>1, <3>2 DEF SInv
  <2>5. RowsReadable' BY <1>1, <2>2, RowsStep DEF SInv
  <2>6. FileLegible' BY <1>1 DEF SInv, FileLegible
  <2> QED BY <2>1, <2>3, <2>4, <2>5, <2>6 DEF SInv
<1>2. ASSUME UNCHANGED editorVars, FileLegible' PROVE SInv'
  <2>1. EInv' BY <1>2, EditorStep DEF SInv
  <2> QED BY <1>2, <2>1 DEF SInv, editorVars, IsReadable, RowsReadable
<1>3. CASE Export
  <2>1. FileLegible'
    <3>1. CASE Readable(data) BY <1>3, <3>1 DEF Export, Exported, SInv, FileLegible
    <3>2. CASE ~Readable(data)
      <4>1. Sound(data) BY SoundIs DEF SInv, EInv, EditorTypeOK
      <4>2. Legible(emit(from_nm_data(data))) BY <4>1, ExportLegible
      <4> QED BY <1>3, <3>2, <4>2 DEF Export, Exported, FileLegible
    <3> QED BY <3>1, <3>2
  <2> QED BY <1>2, <1>3, <2>1 DEF Export
<1>4. CASE Import
  <2>1. EInv' /\ IsReadable(data') BY <1>4, ImportSteps DEF SInv
  <2>2. UNCHANGED <<initial, text, file>> BY <1>4 DEF Import
  <2> QED BY <2>1, <2>2 DEF SInv, IsReadable, RowsReadable, FileLegible
<1>5. CASE LoseFile
  <2>1. FileLegible' BY <1>5, NoFileLegible DEF LoseFile, FileLegible
  <2> QED BY <1>2, <1>5, <2>1 DEF LoseFile
<1> QED BY <1>1, <1>3, <1>4, <1>5 DEF Next, vars

-----------------------------------------------------------------------------
(* Every state of a connection on its way through editor, export and       *)
(* import satisfies the invariant of the editor, and its lists can be      *)
(* read.                                                                   *)
THEOREM SettingsInvariance == Spec => []SInv
BY SInvInit, SInvStep, PTL DEF Spec

(* vpn.data, the rows and the file always hold values of their kind: an    *)
(* import leaves no empty item behind, and a file that was exported or     *)
(* given is a sequence of directives.                                      *)
THEOREM SettingsTypeCorrect == Spec => []TypeOK
<1>1. SInv => TypeOK
  <2> SUFFICES ASSUME SInv PROVE TypeOK OBVIOUS
  <2>1. EditorTypeOK BY DEF SInv, EInv
  <2>2. file.by \in {"nobody", "user", "export"} BY DEF SInv, FileLegible
  <2>3. file.text \in Seq(Directives) BY DEF SInv, FileLegible, Legible
  <2>4. Directives \subseteq Seq(Strings) BY DEF Directives
  <2>5. file.text \in Seq(Seq(Strings)) BY <2>3, <2>4, SeqWider
  <2> QED BY <2>1, <2>2, <2>5 DEF TypeOK
<1> QED BY <1>1, SettingsInvariance, PTL

LEMMA SameKept == ASSUME NEW p, NEW q, SameTunnel(p, q) PROVE Kept(p) = Kept(q)
<1>1. p.remotes = q.remotes BY DEF SameTunnel
<1>2. Routed(p.routes) = Routed(q.routes) BY DEF SameTunnel
<1>3. {l \in p.lines : l[1] \notin LostOnImport} = {l \in q.lines : l[1] \notin LostOnImport}
  <2>1. LostOnImport = NotImported BY DEF LostOnImport, NotImported, Retried
  <2>2. \A l : l[1] \notin NotImported => (l \in p.lines <=> l \in q.lines)
    BY DEF SameTunnel
  <2> QED BY <2>1, <2>2
<1>4. \A r \in {p, q} :
        Kept(r) = [remotes |-> r.remotes, routes |-> Routed(r.routes),
                   lines |-> {l \in r.lines : l[1] \notin LostOnImport}]
  BY DEF Kept, Routed, Named
<1> QED BY <1>1, <1>2, <1>3, <1>4

(* Whatever edits, exports and imports a connection went through, as long  *)
(* as its credentials are complete and no file is pinned: export           *)
(* (from_nm_data, emit) and import (as_nm_data) give back the same tunnel, *)
(* but for the directives as_nm_data leaves out.                           *)
THEOREM ReimportAlwaysKeepsTunnel == Spec => []ReimportKeepsTunnel
<1>1. SInv => ReimportKeepsTunnel
  <2> SUFFICES ASSUME SInv, Complete(data)
               PROVE  Kept(from_nm_data(as_nm_data(emit(from_nm_data(data)))))
                        = Kept(from_nm_data(data))
    BY DEF ReimportKeepsTunnel
  <2>1. Sound(data) BY SoundIs DEF SInv, EInv, EditorTypeOK
  <2>2. Credentialed(data) BY DEF Complete, Credentialed
  <2>3. SameTunnel(from_nm_data(as_nm_data(emit(from_nm_data(data)))), from_nm_data(data))
    BY <2>1, <2>2, ReimportSameTunnel
  <2> QED BY <2>3, SameKept
<1> QED BY <1>1, SettingsInvariance, PTL

(* The editor's promises hold with imports and exports between its         *)
(* sessions: rows change by the user's hand only.                          *)
THEOREM SettingsRowsAreTheUsers == Spec => []OnlyUserEdits
BY SettingsInvariance, PTL DEF SInv, EInv

(* What Apply accepted last, build_profile_string can connect, whatever    *)
(* the connection was imported from.                                       *)
THEOREM SettingsAppliedConnects == Spec => []SavedProfileComplete
BY SettingsInvariance, PTL DEF SInv, EInv

(* Apply keeps what it does not show, also in connections that were        *)
(* imported in between.                                                    *)
THEOREM SettingsApplyIsCareful == Spec => ApplyKeepsForeign
<1>1. SInv /\ [Next]_vars => [open /\ open' => ForeignKept]_editorVars
  <2> SUFFICES ASSUME SInv, [Next]_vars, open
               PROVE  [open /\ open' => ForeignKept]_editorVars
    BY DEF editorVars
  <2>1. EInv BY DEF SInv
  <2>2. [EditorNext]_editorVars BY DEF Next, vars, Export, Import, LoseFile
  <2> QED BY <2>1, <2>2, CarefulStep
<1> QED BY <1>1, SettingsInvariance, PTL DEF Spec, ApplyKeepsForeign

-----------------------------------------------------------------------------
(* Apply without a change.                                                 *)

(* In an editor nobody touched, the connection is as it was found or as    *)
(* Apply would write it now.                                               *)
Settled == open /\ touched = {} => data = initial \/ data = Saved

SecretsAreItems == secrets = [s \in DOMAIN secrets |-> secrets[s]]

(* Rows nobody touched show what was loaded, and no secret was typed.      *)
LEMMA UntouchedRows ==
    ASSUME EInv, open, touched = {}
    PROVE  /\ \A k \in TextKeys : text[k] = LoadText(initial)[k]
           /\ \A k \in SpinKeys : spin[k] = LoadSpin(initial)[k]
           /\ \A k \in SwitchKeys : switch[k] = LoadSwitch(initial)[k]
           /\ Stored = {}
<1>1. Differs = {} BY OnlyUserEditsIs DEF EInv
<1>2. /\ \A k \in TextKeys : text[k] = LoadText(initial)[k]
      /\ \A k \in SpinKeys : spin[k] = LoadSpin(initial)[k]
      /\ \A k \in SwitchKeys : switch[k] = LoadSwitch(initial)[k]
      /\ \A s \in SecretKeys : typed[s] = ""
  BY <1>1 DEF Differs
<1> QED BY <1>2 DEF Stored

LEMMA SavedUntouched ==
    ASSUME Stored = {}
    PROVE  LET own == {k \in WIDGET_DATA_KEYS : Written(k) # ""}
               foreign == (DOMAIN data \cup DOMAIN initial) \ WIDGET_DATA_KEYS
           IN  Saved = [k \in own \cup foreign |->
                          IF k \in own THEN Written(k)
                          ELSE IF k \in DOMAIN initial THEN initial[k] ELSE data[k]]
<1> DEFINE flags == {FlagKey(s) : s \in Stored}
           own == {k \in WIDGET_DATA_KEYS : Written(k) # ""}
           foreign == (DOMAIN data \cup DOMAIN initial) \ WIDGET_DATA_KEYS
<1>1. flags = {} OBVIOUS
<1>2. Saved = [k \in own \cup foreign \cup flags |->
                 IF k \in own THEN Written(k)
                 ELSE IF k \in flags THEN AgentOwned
                 ELSE IF k \in DOMAIN initial THEN initial[k] ELSE data[k]]
  BY DEF Saved
<1>3. own \cup foreign \cup flags = own \cup foreign BY <1>1
<1> HIDE DEF own, foreign, flags
<1>4. Saved = [k \in own \cup foreign |->
                 IF k \in own THEN Written(k)
                 ELSE IF k \in DOMAIN initial THEN initial[k] ELSE data[k]]
  BY <1>1, <1>2, <1>3
<1> QED BY <1>4 DEF own, foreign

(* A second Apply writes what the first one wrote.                         *)
LEMMA SavedAgain ==
    ASSUME Apply, Stored = {} PROVE data' = Saved /\ Saved' = Saved
<1> DEFINE own == {k \in WIDGET_DATA_KEYS : Written(k) # ""}
           foreign == (DOMAIN data \cup DOMAIN initial) \ WIDGET_DATA_KEYS
           Rest(k) == IF k \in DOMAIN initial THEN initial[k] ELSE data[k]
<1>1. data' = Saved /\ UNCHANGED <<initial, text, spin, switch, typed>> BY DEF Apply
<1>2. Stored' = {} BY <1>1 DEF Stored
<1>3. \A k : Written(k)' = Written(k) BY <1>1 DEF Written
<1>4. own' = own BY <1>3
<1>5. Saved = [k \in own \cup foreign |-> IF k \in own THEN Written(k) ELSE Rest(k)]
  BY SavedUntouched
<1>6. Saved' = [k \in own' \cup foreign' |-> IF k \in own' THEN Written(k)' ELSE Rest(k)']
  <2> DEFINE flags == {FlagKey(s) : s \in Stored}
  <2>1. flags' = {} BY <1>2
  <2>2. Saved' = [k \in own' \cup foreign' \cup flags' |->
                    IF k \in own' THEN Written(k)'
                    ELSE IF k \in flags' THEN AgentOwned ELSE Rest(k)']
    BY DEF Saved, AgentOwned
  <2>3. own' \cup foreign' \cup flags' = own' \cup foreign' BY <2>1
  <2> QED BY <2>1, <2>2, <2>3
<1>7. foreign' = (DOMAIN data' \cup DOMAIN initial) \ WIDGET_DATA_KEYS BY <1>1
<1>8. \A k : Rest(k)' = IF k \in DOMAIN initial THEN initial[k] ELSE data'[k] BY <1>1
<1>9. own \subseteq WIDGET_DATA_KEYS /\ DOMAIN initial \ WIDGET_DATA_KEYS \subseteq foreign
      /\ foreign \cap WIDGET_DATA_KEYS = {}
  OBVIOUS
<1>10. DOMAIN data' = own \cup foreign BY <1>1, <1>5
<1>11. \A k \in foreign : data'[k] = Rest(k) BY <1>1, <1>5, <1>9
<1>12. foreign' = foreign BY <1>7, <1>9, <1>10
<1>13. \A k \in foreign : Rest(k)' = Rest(k) BY <1>8, <1>11
<1>14. Saved' = [k \in own \cup foreign |-> IF k \in own THEN Written(k) ELSE Rest(k)']
  BY <1>3, <1>4, <1>6, <1>12
<1>15. Saved' = [k \in own \cup foreign |-> IF k \in own THEN Written(k) ELSE Rest(k)]
  BY <1>13, <1>14
<1> QED BY <1>1, <1>5, <1>15

LEMMA SettledStep == SInv /\ Settled /\ [Next]_vars => Settled'
<1> SUFFICES ASSUME SInv, Settled, [Next]_vars, open', touched' = {}
             PROVE  data' = initial' \/ data' = Saved'
  BY DEF Settled
<1>1. ASSUME UNCHANGED <<data, initial, text, spin, switch, typed, open, touched>>
      PROVE  data' = initial' \/ data' = Saved'
  <2>1. \A k : Written(k)' = Written(k) BY <1>1 DEF Written
  <2>2. Stored' = Stored BY <1>1 DEF Stored
  <2>3. Saved' = Saved BY <1>1, <2>1, <2>2 DEF Saved
  <2> QED BY <1>1, <2>3 DEF Settled
<1>2. ASSUME NEW k, touched' = touched \cup {k} PROVE FALSE BY <1>2
<1>3. CASE OpenEditor BY <1>3 DEF OpenEditor
<1>4. ASSUME NEW e \in TextSamples, EditText(e[1], e[2]) PROVE FALSE
  BY <1>2, <1>4 DEF EditText, Changed
<1>5. ASSUME NEW e \in SpinSamples, EditSpin(e[1], e[2]) PROVE FALSE
  BY <1>2, <1>5 DEF EditSpin, Changed
<1>6. ASSUME NEW k \in SwitchSamples, EditSwitch(k) PROVE FALSE
  BY <1>2, <1>6 DEF EditSwitch, Changed
<1>7. ASSUME NEW e \in SecretSamples, TypeSecret(e[1], e[2]) PROVE FALSE
  BY <1>2, <1>7 DEF TypeSecret, Changed
<1>8. ASSUME NEW k \in PickerSamples, OpenPicker(k)
      PROVE  data' = initial' \/ data' = Saved'
  BY <1>1, <1>8 DEF OpenPicker
<1>9. ASSUME NEW p \in Paths, PickerReturn(p) PROVE data' = initial' \/ data' = Saved'
  <2>1. picker \in TextKeys BY <1>9 DEF PickerReturn, SInv, EInv, EditorTypeOK, TextKeys
  <2>2. text' = text /\ touched' = touched BY <1>2, <1>9, <2>1, ReturnCases
  <2> QED BY <1>1, <1>9, <2>2 DEF PickerReturn
<1>10. CASE PickerCancel BY <1>1, <1>10 DEF PickerCancel
<1>11. CASE Apply
  <2>1. open /\ touched = {} BY <1>11 DEF Apply
  <2>2. Stored = {} BY <2>1, UntouchedRows DEF SInv
  <2> QED BY <1>11, <2>2, SavedAgain
<1>12. CASE CloseEditor BY <1>12 DEF CloseEditor
<1>13. CASE UNCHANGED editorVars BY <1>1, <1>13 DEF editorVars
<1>14. CASE Import BY <1>14 DEF Import
<1> QED BY <1>3, <1>4, <1>5, <1>6, <1>7, <1>8, <1>9, <1>10, <1>11, <1>12, <1>13, <1>14
  DEF Next, EditorNext, vars, Export, LoseFile

LEMMA SecretsStep == SecretsAreItems /\ [Next]_vars => SecretsAreItems'
<1> SUFFICES ASSUME SecretsAreItems, [Next]_vars PROVE SecretsAreItems' OBVIOUS
<1>1. CASE Apply BY <1>1 DEF Apply, SecretsAreItems
<1>2. CASE Import BY <1>2 DEF Import, SecretsAreItems
<1>3. CASE secrets' = secrets BY <1>3 DEF SecretsAreItems
<1>4. Apply \/ Import \/ secrets' = secrets
  BY DataChanges DEF Next, vars, editorVars, Export, LoseFile
<1> QED BY <1>1, <1>2, <1>3, <1>4

(* The items of a connection that one of its types ignores, and those that *)
(* only count when they are "yes".                                         *)
Gated == {"ca", "cert", "key", "username", "static-key", "static-key-direction"}

Switched == SwitchKeys \ {"mssfix"}

(* n says the same tunnel as d: it has the same items, but for those the   *)
(* connection type ignores and switches that are not on.                   *)
SaysSame(n, d) ==
    /\ \A k : k \notin Gated \cup Switched => SameItem(n, d, k)
    /\ \A k \in Switched : Yes(n, k) <=> Yes(d, k)
    /\ IsTlsLike(d) => SameItem(n, d, "ca")
    /\ NeedsUserCert(d) => SameItem(n, d, "cert") /\ SameItem(n, d, "key")
    /\ IsStaticKey(d) => SameItem(n, d, "static-key") /\ SameItem(n, d, "static-key-direction")

(* What a number row shows of a number it can hold is that number again.   *)
LEMMA ShownNumber ==
    ASSUME NEW d, NEW k \in SpinKeys, Has(d, k), Canonical(d[k]), Number[d[k]] \in 1..SpinMax[k]
    PROVE  /\ LoadSpin(d)[k] = Number[d[k]] /\ parse_int_default(d, k) = Number[d[k]]
           /\ LoadSpin(d)[k] > 0 /\ Decimal[LoadSpin(d)[k]] = d[k]
<1>1. d[k] \in DOMAIN Number BY StringAssumption DEF Canonical
<1>2. parse_int_default(d, k) = Number[d[k]] BY <1>1 DEF parse_int_default
<1>3. LoadSpin(d)[k] = Clamp(parse_int_default(d, k), SpinMax[k]) BY DEF LoadSpin
<1> DEFINE n == Number[d[k]]
           max == SpinMax[k]
<1>4. max \in Nat BY SpinMaxValues DEF TIMER_SECS_MAX
<1>5. n \in 1..max OBVIOUS
<1>6. Decimal[n] = d[k] BY DEF Canonical
<1> HIDE DEF n, max
<1>7. Clamp(n, max) = n /\ n > 0 BY <1>4, <1>5 DEF Clamp
<1> QED BY <1>2, <1>3, <1>6, <1>7 DEF n, max

LEMMA ShownNothing ==
    ASSUME NEW d, NEW k \in SpinKeys, ~Has(d, k)
    PROVE  LoadSpin(d)[k] = 0 /\ parse_int_default(d, k) = 0
<1>1. parse_int_default(d, k) = 0 BY DEF parse_int_default
<1>2. LoadSpin(d)[k] = Clamp(parse_int_default(d, k), SpinMax[k]) BY DEF LoadSpin
<1>3. SpinMax[k] \in Nat BY SpinMaxValues DEF TIMER_SECS_MAX
<1>4. Clamp(0, SpinMax[k]) = 0 BY <1>3 DEF Clamp
<1> QED BY <1>1, <1>2, <1>4

(* "yes" in mssfix: the switch is on and the number stays at zero.         *)
LEMMA ShownYes ==
    ASSUME NEW d, NEW k \in SpinKeys, Is(d, k, "yes")
    PROVE  LoadSpin(d)[k] = 0
<1>1. "yes" \notin DOMAIN Number BY StringAssumption
<1>2. parse_int_default(d, k) = 0 BY <1>1 DEF parse_int_default, Is
<1>3. LoadSpin(d)[k] = Clamp(parse_int_default(d, k), SpinMax[k]) BY DEF LoadSpin
<1>4. SpinMax[k] \in Nat BY SpinMaxValues DEF TIMER_SECS_MAX
<1>5. Clamp(0, SpinMax[k]) = 0 BY <1>4 DEF Clamp
<1> QED BY <1>2, <1>3, <1>5

(* The item of vpn.data that an untouched row is written back as.          *)
Rewritten(d, k) == IF Written(k) = "" THEN ~Has(d, k) ELSE Is(d, k, Written(k))

LEMMA TextRewritten ==
    ASSUME EInv, open, touched = {}, NEW k \in TextKeys,
           Has(initial, "connection-type"),
           Applicable(initial["connection-type"], k)
    PROVE  Rewritten(initial, k)
<1>1. text[k] = LoadText(initial)[k]
      /\ text["connection-type"] = LoadText(initial)["connection-type"]
  <2>1. "connection-type" \in TextKeys BY DEF TextKeys, ComboKeys
  <2> QED BY <2>1, UntouchedRows
<1>2. text["connection-type"] = initial["connection-type"]
  <2>1. "connection-type" \in TextKeys BY DEF TextKeys, ComboKeys
  <2> QED BY <1>1, <2>1 DEF LoadText
<1>3. Written(k) = LoadText(initial)[k] BY <1>1, <1>2 DEF Written
<1>4. IsItems(initial) BY DEF EInv, EditorTypeOK
<1>5. LoadText(initial)[k] = IF Has(initial, k) THEN initial[k] ELSE ""
  BY DEF LoadText
<1>6. Has(initial, k) => initial[k] # "" BY <1>4 DEF IsItems, Has
<1> QED BY <1>3, <1>5, <1>6 DEF Rewritten, Is, Has

LEMMA SpinRewritten ==
    ASSUME EInv, open, touched = {}, NEW k \in SpinKeys, Displayable(initial)
    PROVE  Rewritten(initial, k)
<1> DEFINE d == initial
           n == LoadSpin(d)[k]
<1>1. spin[k] = n BY UntouchedRows
<1>2. k \notin TextKeys BY SpinKeyList DEF TextKeys, ComboKeys, PickerKeys, EntryKeys
<1>3. Has(d, k) => \/ Canonical(d[k]) /\ Number[d[k]] \in 1..SpinMax[k]
                   \/ k = "mssfix" /\ d[k] = "yes"
  BY Zenon DEF Displayable
<1>4. k = "mssfix" => switch[k] = (Yes(d, k) \/ Positive(d, k))
  <2>1. "mssfix" \in SwitchKeys BY DEF SwitchKeys
  <2> QED BY <2>1, UntouchedRows DEF LoadSwitch
<1>5. n \in DOMAIN Decimal BY ClampedNumber
<1>6. Decimal[n] # "" BY <1>5, Printable
<1>7. Written(k) = IF k = "mssfix"
                   THEN IF ~switch[k] THEN "" ELSE IF n > 0 THEN Decimal[n] ELSE "yes"
                   ELSE IF n > 0 THEN Decimal[n] ELSE ""
  BY <1>1, <1>2, Zenon DEF Written, int_or_empty
<1> DEFINE pos == n > 0
           on == Positive(d, k)
<1>8. Has(d, k) /\ Canonical(d[k]) /\ Number[d[k]] \in 1..SpinMax[k]
        => pos /\ on /\ Decimal[n] = d[k]
  BY ShownNumber DEF Positive
<1>9. ~Has(d, k) => ~pos /\ ~on
  BY ShownNothing DEF Positive
<1>10. Is(d, k, "yes") => ~pos
  BY ShownYes
<1> HIDE DEF pos, on, n, d
<1>11. CASE ~Has(d, k)
  <2>1. ~pos /\ ~on /\ ~Yes(d, k) BY <1>9, <1>11 DEF Yes, Is, Has
  <2>2. Written(k) = "" BY <1>4, <1>7, <2>1, Zenon DEF pos, on, d, n
  <2> QED BY <1>11, <2>2 DEF Rewritten, d
<1>12. CASE Has(d, k) /\ Canonical(d[k]) /\ Number[d[k]] \in 1..SpinMax[k]
  <2>1. pos /\ on /\ Decimal[n] = d[k] BY <1>8, <1>12
  <2>2. Written(k) = d[k] BY <1>4, <1>7, <2>1, Zenon DEF pos, on, d, n
  <2> QED BY <1>6, <1>12, <2>1, <2>2 DEF Rewritten, Is, Has, d
<1>13. CASE Has(d, k) /\ k = "mssfix" /\ d[k] = "yes"
  <2>1. Is(d, k, "yes") /\ Yes(d, k) BY <1>13 DEF Is, Has, Yes
  <2>2. ~pos BY <1>10, <2>1
  <2>3. Written(k) = "yes" BY <1>4, <1>7, <1>13, <2>1, <2>2, Zenon DEF pos, d, n
  <2> QED BY <1>13, <2>1, <2>3 DEF Rewritten, d
<1> QED BY <1>3, <1>11, <1>12, <1>13

LEMMA SwitchWritten ==
    ASSUME EInv, open, touched = {}, NEW k \in Switched
    PROVE  Written(k) = IF Yes(initial, k) THEN "yes" ELSE ""
<1>1. k \in SwitchKeys /\ k # "mssfix" BY DEF Switched
<1>2. switch[k] <=> Yes(initial, k)
  <2>1. LoadSwitch(initial)[k]
          = (Yes(initial, k) \/ (k = "mssfix" /\ Positive(initial, k)))
    BY <1>1, Zenon DEF LoadSwitch
  <2>2. switch[k] = LoadSwitch(initial)[k] BY <1>1, UntouchedRows
  <2> QED BY <1>1, <2>1, <2>2, Zenon
<1>3. k \notin TextKeys /\ k \notin SpinKeys
  BY <1>1, SpinKeyList DEF SwitchKeys, TextKeys, ComboKeys, PickerKeys, EntryKeys
<1> QED BY <1>1, <1>2, <1>3 DEF Written, yes_or_empty

LEMMA SavedAsLoaded ==
    ASSUME EInv, open, touched = {}, data = initial, Displayable(initial)
    PROVE  SaysSame(Saved, initial)
<1> DEFINE own == {k \in WIDGET_DATA_KEYS : Written(k) # ""}
           foreign == (DOMAIN data \cup DOMAIN initial) \ WIDGET_DATA_KEYS
           d == initial
           ct == d["connection-type"]
<1>1. Stored = {} BY UntouchedRows
<1>2. /\ DOMAIN Saved = own \cup foreign
      /\ \A k \in DOMAIN Saved : Saved[k] = IF k \in own THEN Written(k)
                                 ELSE IF k \in DOMAIN initial THEN initial[k] ELSE data[k]
  BY <1>1, SavedUntouched
<1>3. foreign = DOMAIN d \ WIDGET_DATA_KEYS /\ own \subseteq WIDGET_DATA_KEYS
      /\ \A k \in WIDGET_DATA_KEYS : k \in own <=> Written(k) # ""
  OBVIOUS
<1> HIDE DEF own, foreign
<1>4. ASSUME NEW k \in WIDGET_DATA_KEYS, Rewritten(d, k) PROVE SameItem(Saved, d, k)
  <2>1. CASE Written(k) = ""
    BY <1>2, <1>3, <1>4, <2>1 DEF Rewritten, SameItem, Has
  <2>2. CASE Written(k) # ""
    BY <1>2, <1>3, <1>4, <2>2 DEF Rewritten, SameItem, Has, Is
  <2> QED BY <2>1, <2>2
<1>5. ASSUME NEW k, k \notin WIDGET_DATA_KEYS PROVE SameItem(Saved, d, k)
  BY <1>2, <1>3, <1>5 DEF SameItem, Has
<1>6. Has(d, "connection-type") BY DEF Displayable
<1>7. TextKeys \subseteq WIDGET_DATA_KEYS /\ SpinKeys \subseteq WIDGET_DATA_KEYS
      /\ SwitchKeys \subseteq WIDGET_DATA_KEYS
      /\ WIDGET_DATA_KEYS = TextKeys \cup SpinKeys \cup SwitchKeys
  BY RowKinds
<1>8. ASSUME NEW k \in TextKeys, Applicable(ct, k) PROVE SameItem(Saved, d, k)
  BY <1>4, <1>6, <1>7, <1>8, TextRewritten
<1>9. ASSUME NEW k \in SpinKeys PROVE SameItem(Saved, d, k)
  BY <1>4, <1>7, <1>9, SpinRewritten
<1>10. Gated \subseteq TextKeys BY DEF Gated, TextKeys, ComboKeys, PickerKeys, EntryKeys
<1>11. ASSUME NEW k, k \notin Gated \cup Switched PROVE SameItem(Saved, d, k)
  <2>1. CASE k \notin WIDGET_DATA_KEYS BY <1>5, <2>1
  <2>2. CASE k \in TextKeys
    <3>1. Applicable(ct, k)
      <4>1. k \notin {"cert-pass", "password"}
        BY <2>2 DEF TextKeys, ComboKeys, PickerKeys, EntryKeys
      <4> QED BY <1>11, <4>1 DEF Applicable, Gated
    <3> QED BY <1>8, <2>2, <3>1
  <2>3. CASE k \in SpinKeys BY <1>9, <2>3
  <2>4. CASE k \in SwitchKeys
    <3>1. k = "mssfix" BY <1>11, <2>4 DEF Switched
    <3>2. k \in SpinKeys BY <3>1, SpinKeyList
    <3> QED BY <1>9, <3>2
  <2> QED BY <1>7, <2>1, <2>2, <2>3, <2>4
<1>12. ASSUME NEW k \in Switched PROVE Yes(Saved, k) <=> Yes(d, k)
  <2>1. k \in WIDGET_DATA_KEYS BY <1>7 DEF Switched
  <2>2. Written(k) = IF Yes(d, k) THEN "yes" ELSE "" BY SwitchWritten
  <2>3. CASE Yes(d, k) BY <1>2, <1>3, <2>1, <2>2, <2>3 DEF Yes, Is
  <2>4. CASE ~Yes(d, k)
    <3>1. k \notin DOMAIN Saved BY <1>2, <1>3, <2>1, <2>2, <2>4
    <3> QED BY <2>4, <3>1 DEF Yes, Is
  <2> QED BY <2>3, <2>4
<1>13. IsTlsLike(d) => SameItem(Saved, d, "ca")
  <2>1. IsTlsLike(d) => Applicable(ct, "ca") BY DEF IsTlsLike, Applicable, tls_like
  <2>2. "ca" \in TextKeys BY <1>10 DEF Gated
  <2> QED BY <1>8, <2>1, <2>2
<1>14. NeedsUserCert(d) => SameItem(Saved, d, "cert") /\ SameItem(Saved, d, "key")
  <2>1. NeedsUserCert(d) => Applicable(ct, "cert") /\ Applicable(ct, "key")
    BY DEF NeedsUserCert, Applicable, needs_user_cert
  <2>2. "cert" \in TextKeys /\ "key" \in TextKeys BY <1>10 DEF Gated
  <2> QED BY <1>8, <2>1, <2>2
<1>15. IsStaticKey(d)
         => SameItem(Saved, d, "static-key") /\ SameItem(Saved, d, "static-key-direction")
  <2>1. IsStaticKey(d)
          => Applicable(ct, "static-key") /\ Applicable(ct, "static-key-direction")
    BY DEF IsStaticKey, Is, Applicable, is_static_key
  <2>2. "static-key" \in TextKeys /\ "static-key-direction" \in TextKeys BY <1>10 DEF Gated
  <2> QED BY <1>8, <2>1, <2>2
<1> QED BY <1>11, <1>12, <1>13, <1>14, <1>15 DEF SaysSame

(* What says the same, the service builds and overrides the same way.      *)
LEMMA SameTypes ==
    ASSUME NEW n, NEW d, SameItem(n, d, "connection-type")
    PROVE  /\ IsTlsLike(n) <=> IsTlsLike(d)
           /\ NeedsUserCert(n) <=> NeedsUserCert(d)
           /\ IsPasswordLike(n) <=> IsPasswordLike(d)
           /\ IsStaticKey(n) <=> IsStaticKey(d)
BY DEF SameItem, IsTlsLike, NeedsUserCert, IsPasswordLike, IsStaticKey, Is, Has

LEMMA SameYes ==
    ASSUME NEW n, NEW d, NEW k, SameItem(n, d, k), NEW v PROVE Is(n, k, v) <=> Is(d, k, v)
BY DEF SameItem, Is, Has

LEMMA SameArg ==
    ASSUME NEW n, NEW d, NEW k, SameItem(n, d, k) PROVE Arg(n, k) = Arg(d, k)
BY DEF SameItem, Arg

LEMMA SameStrings ==
    ASSUME NEW n, NEW d, NEW pairs, \A p \in pairs : SameItem(n, d, p[1])
    PROVE  line_str(n, pairs) = line_str(d, pairs)
<1>1. {q \in pairs : Has(n, q[1])} = {q \in pairs : Has(d, q[1])} BY DEF SameItem
<1>2. \A q \in pairs : Has(d, q[1]) => n[q[1]] = d[q[1]] BY DEF SameItem
<1> QED BY <1>1, <1>2 DEF line_str

LEMMA SameNumbers ==
    ASSUME NEW n, NEW d, NEW pairs, \A p \in pairs : SameItem(n, d, p[1])
    PROVE  line_int(n, pairs) = line_int(d, pairs)
<1>1. \A q \in pairs : Has(d, q[1]) => n[q[1]] = d[q[1]] BY DEF SameItem
<1>2. {q \in pairs : Has(n, q[1]) /\ n[q[1]] \in Ints}
        = {q \in pairs : Has(d, q[1]) /\ d[q[1]] \in Ints}
  BY <1>1 DEF SameItem
<1> QED BY <1>1, <1>2 DEF line_int

LEMMA RebuiltCredentials ==
    ASSUME NEW n, NEW d, SaysSame(n, d)
    PROVE  BuildCredentials(n) = BuildCredentials(d)
<1>1. SameItem(n, d, "connection-type") BY DEF SaysSame, Gated, Switched, SwitchKeys
<1>2. /\ IsTlsLike(n) <=> IsTlsLike(d)
      /\ NeedsUserCert(n) <=> NeedsUserCert(d)
      /\ IsPasswordLike(n) <=> IsPasswordLike(d)
      /\ IsStaticKey(n) <=> IsStaticKey(d)
  BY <1>1, SameTypes
<1> DEFINE Collapse(x) == /\ NeedsUserCert(x) /\ Has(x, "cert") /\ Has(x, "key")
                          /\ x["cert"] = x["key"] /\ x["cert"] \in Pkcs12
           Client(x) == IF IsTlsLike(x) THEN {<<"client">>} ELSE {}
           Uses(x) == {y \in {"ca", "cert", "key"} :
                         /\ Has(x, y)
                         /\ IF y = "ca" THEN IsTlsLike(x) ELSE NeedsUserCert(x)}
           Files(x) == IF Collapse(x) THEN {<<"pkcs12", x["cert"]>>}
                       ELSE {<<k, x[k]>> : k \in Uses(x)}
           Auth(x) == IF IsPasswordLike(x) THEN {<<"auth-user-pass">>} ELSE {}
           Secret(x) == IF IsStaticKey(x) /\ Has(x, "static-key")
                        THEN {<<"secret", x["static-key"]>> \o Arg(x, "static-key-direction")}
                        ELSE {}
<1>3. \A x : BuildCredentials(x) = Client(x) \cup Files(x) \cup Auth(x) \cup Secret(x)
  BY DEF BuildCredentials
<1>4. Client(n) = Client(d) /\ Auth(n) = Auth(d) BY <1>2
<1>5. Collapse(n) <=> Collapse(d)
  <2>1. CASE NeedsUserCert(d) BY <1>2, <2>1 DEF SaysSame, SameItem
  <2>2. CASE ~NeedsUserCert(d) BY <1>2, <2>2
  <2> QED BY <2>1, <2>2
<1>6. Collapse(d) => n["cert"] = d["cert"] BY DEF SaysSame, SameItem
<1>7. Uses(n) = Uses(d) /\ \A k \in Uses(d) : n[k] = d[k]
  BY <1>2 DEF SaysSame, SameItem
<1>8. Files(n) = Files(d)
  <2> HIDE DEF Collapse, Uses
  <2> QED BY <1>5, <1>6, <1>7
<1>9. Secret(n) = Secret(d)
  <2>1. CASE IsStaticKey(d)
    <3>1. SameItem(n, d, "static-key") /\ SameItem(n, d, "static-key-direction")
      BY <2>1 DEF SaysSame
    <3>2. Arg(n, "static-key-direction") = Arg(d, "static-key-direction") BY <3>1, SameArg
    <3> QED BY <1>2, <3>1, <3>2 DEF SameItem
  <2>2. CASE ~IsStaticKey(d) BY <1>2, <2>2
  <2> QED BY <2>1, <2>2
<1> HIDE DEF Client, Files, Auth, Secret
<1> QED BY <1>3, <1>4, <1>8, <1>9

LEMMA SameKeys ==
    ASSUME NEW n, NEW d, SaysSame(n, d)
    PROVE  \A k \in {"connection-type", "remote", "nm-openvpn3-extra-routes", "cipher",
                     "data-ciphers", "data-ciphers-fallback", "tls-cipher", "auth",
                     "allow-compression", "mtu-disc", "reneg-seconds", "max-routes",
                     "keysize", "tunnel-mtu", "connect-timeout", "fragment-size", "port",
                     "ping", "ping-exit", "ping-restart", "comp-lzo", "compress", "float",
                     "mssfix", "crl-verify-file", "crl-verify-dir", "dev", "dev-type",
                     "tap-dev", "local-ip", "remote-ip", "remote-cert-tls", "ns-cert-type",
                     "tls-remote", "tls-crypt", "tls-crypt-v2", "tls-version-max",
                     "extra-certs", "verify-x509-name", "ta", "ta-dir", "tls-version-min",
                     "proxy-server", "proxy-port", "proxy-retry", "proxy-type",
                     "remote-random", "remote-random-hostname", "allow-pull-fqdn",
                     "tun-ipv6", "push-peer-info", "nm-openvpn3-profile",
                     "override-log-level"} :
             SameItem(n, d, k)
BY DEF SaysSame, Gated, Switched, SwitchKeys

LEMMA RebuiltDevice ==
    ASSUME NEW n, NEW d, SaysSame(n, d) PROVE BuildDevice(n) = BuildDevice(d)
<1>1. /\ SameItem(n, d, "connection-type") /\ SameItem(n, d, "crl-verify-file")
      /\ SameItem(n, d, "crl-verify-dir") /\ SameItem(n, d, "dev")
      /\ SameItem(n, d, "dev-type") /\ SameItem(n, d, "tap-dev")
      /\ SameItem(n, d, "local-ip") /\ SameItem(n, d, "remote-ip")
  BY SameKeys
<1>2. Yes(n, "proto-tcp") <=> Yes(d, "proto-tcp") BY DEF SaysSame, Switched, SwitchKeys
<1>3. IsTlsLike(n) <=> IsTlsLike(d) BY <1>1, SameTypes
<1>4. line_str(n, {<<"dev-type", "dev-type">>}) = line_str(d, {<<"dev-type", "dev-type">>})
  <2>1. \A p \in {<<"dev-type", "dev-type">>} : SameItem(n, d, p[1]) BY <1>1
  <2> QED BY <2>1, SameStrings
<1>5. Yes(n, "tap-dev") <=> Yes(d, "tap-dev") BY <1>1, SameYes DEF Yes
<1> DEFINE Crl(x) == IF ~IsTlsLike(x) THEN {}
                     ELSE IF Has(x, "crl-verify-file")
                     THEN {<<"crl-verify", x["crl-verify-file"]>>}
                     ELSE IF Has(x, "crl-verify-dir")
                     THEN {<<"crl-verify", x["crl-verify-dir"], "dir">>} ELSE {}
           Dev(x) == {<<"dev", IF Has(x, "dev") THEN x["dev"]
                               ELSE IF Has(x, "dev-type") THEN x["dev-type"]
                               ELSE IF Yes(x, "tap-dev") THEN "tap" ELSE "tun">>,
                      <<"proto", IF Yes(x, "proto-tcp") THEN "tcp" ELSE "udp">>}
           Addr(x) == IF Has(x, "local-ip") /\ Has(x, "remote-ip")
                      THEN {<<"ifconfig", x["local-ip"], x["remote-ip"]>>} ELSE {}
           Kind(x) == line_str(x, {<<"dev-type", "dev-type">>})
<1>6. \A x : BuildDevice(x) = Crl(x) \cup Dev(x) \cup Kind(x) \cup Addr(x)
  BY DEF BuildDevice
<1>7. Crl(n) = Crl(d) BY <1>1, <1>3 DEF SameItem
<1>8. Dev(n) = Dev(d) BY <1>1, <1>2, <1>5 DEF SameItem
<1>9. Addr(n) = Addr(d) BY <1>1 DEF SameItem
<1>10. Kind(n) = Kind(d) BY <1>4
<1> HIDE DEF Crl, Dev, Addr, Kind
<1> QED BY <1>6, <1>7, <1>8, <1>9, <1>10

LEMMA RebuiltTls ==
    ASSUME NEW n, NEW d, SaysSame(n, d) PROVE BuildTls(n) = BuildTls(d)
<1> DEFINE pairs == {<<k, k>> : k \in
                  {"remote-cert-tls", "ns-cert-type", "tls-remote", "tls-crypt",
                   "tls-crypt-v2", "tls-version-max", "extra-certs"}}
<1>1. /\ SameItem(n, d, "connection-type") /\ SameItem(n, d, "verify-x509-name")
      /\ SameItem(n, d, "ta") /\ SameItem(n, d, "ta-dir") /\ SameItem(n, d, "tls-version-min")
  BY SameKeys
<1>2. \A p \in pairs : SameItem(n, d, p[1]) BY SameKeys
<1>3. Yes(n, "tls-version-min-or-highest") <=> Yes(d, "tls-version-min-or-highest")
  BY DEF SaysSame, Switched, SwitchKeys
<1>4. IsTlsLike(n) <=> IsTlsLike(d) BY <1>1, SameTypes
<1> DEFINE Kind(x) == line_str(x, pairs)
           Name(x) == IF Has(x, "verify-x509-name")
                      THEN {BuildX509(x["verify-x509-name"])} ELSE {}
           Ta(x) == IF Has(x, "ta")
                    THEN {<<"tls-auth", x["ta"]>> \o Arg(x, "ta-dir")} ELSE {}
           Vmin(x) == IF Has(x, "tls-version-min")
                      THEN {<<"tls-version-min", x["tls-version-min"]>>
                              \o (IF Yes(x, "tls-version-min-or-highest")
                                  THEN <<"or-highest">> ELSE <<>>)} ELSE {}
<1>5. \A x : BuildTls(x) = IF ~IsTlsLike(x) THEN {}
                           ELSE Kind(x) \cup Name(x) \cup Ta(x) \cup Vmin(x)
  BY DEF BuildTls
<1>6. Kind(n) = Kind(d)
  <2> HIDE DEF pairs
  <2> QED BY <1>2, SameStrings
<1>7. Name(n) = Name(d) BY <1>1 DEF SameItem
<1>8. Ta(n) = Ta(d)
  <2>1. Arg(n, "ta-dir") = Arg(d, "ta-dir") BY <1>1, SameArg
  <2> QED BY <1>1, <2>1 DEF SameItem
<1>9. Vmin(n) = Vmin(d) BY <1>1, <1>3 DEF SameItem
<1> HIDE DEF Kind, Name, Ta, Vmin
<1> QED BY <1>4, <1>5, <1>6, <1>7, <1>8, <1>9

LEMMA RebuiltProxy ==
    ASSUME NEW n, NEW d, SaysSame(n, d) PROVE BuildProxy(n) = BuildProxy(d)
<1>1. /\ SameItem(n, d, "proxy-server") /\ SameItem(n, d, "proxy-port")
      /\ SameItem(n, d, "proxy-retry") /\ SameItem(n, d, "proxy-type")
  BY SameKeys
<1> DEFINE port(x, default) == IF Has(x, "proxy-port") THEN x["proxy-port"] ELSE default
           retry(x, kind) == IF Yes(x, "proxy-retry")
                             THEN {<<IF kind = "http-proxy" THEN "http-proxy-retry"
                                     ELSE "socks-proxy-retry">>} ELSE {}
           Proxy(x, kind, default) ==
             {<<kind, x["proxy-server"], port(x, default)>>} \cup retry(x, kind)
<1>2. \A x : BuildProxy(x) =
               IF ~Has(x, "proxy-server") THEN {}
               ELSE IF Is(x, "proxy-type", "http") THEN Proxy(x, "http-proxy", "8080")
               ELSE IF Is(x, "proxy-type", "socks") THEN Proxy(x, "socks-proxy", "1080")
               ELSE {}
  BY DEF BuildProxy
<1>3. \A v : Is(n, "proxy-type", v) <=> Is(d, "proxy-type", v) BY <1>1, SameYes
<1>4. Yes(n, "proxy-retry") <=> Yes(d, "proxy-retry") BY <1>1, SameYes DEF Yes
<1>5. \A default : port(n, default) = port(d, default) BY <1>1 DEF SameItem
<1>6. \A kind : retry(n, kind) = retry(d, kind) BY <1>4
<1>7. Has(d, "proxy-server") => n["proxy-server"] = d["proxy-server"] BY <1>1 DEF SameItem
<1>8. Has(n, "proxy-server") <=> Has(d, "proxy-server") BY <1>1 DEF SameItem
<1> HIDE DEF port, retry
<1>9. Has(d, "proxy-server") => \A kind, default : Proxy(n, kind, default) = Proxy(d, kind, default)
  BY <1>5, <1>6, <1>7
<1> HIDE DEF Proxy
<1> QED BY <1>2, <1>3, <1>8, <1>9

LEMMA RebuiltRest ==
    ASSUME NEW n, NEW d, SaysSame(n, d)
    PROVE  /\ BuildFlags(n) = BuildFlags(d)
           /\ BuildCompression(n) = BuildCompression(d)
           /\ BuildMssfix(n) = BuildMssfix(d)
           /\ line_str(n, BuildStrings) = line_str(d, BuildStrings)
           /\ line_int(n, BuildNumbers) = line_int(d, BuildNumbers)
<1>1. BuildFlags(n) = BuildFlags(d)
  <2> DEFINE fs == {"remote-random", "remote-random-hostname", "allow-pull-fqdn", "tun-ipv6",
                    "push-peer-info"}
  <2>1. \A f \in fs : SameItem(n, d, f) BY SameKeys
  <2>2. \A f \in fs : Yes(n, f) <=> Yes(d, f) BY <2>1, SameYes DEF Yes
  <2>3. {g \in fs : Yes(n, g)} = {g \in fs : Yes(d, g)} BY <2>2
  <2> QED BY <2>3 DEF BuildFlags
<1>2. BuildCompression(n) = BuildCompression(d)
  <2>1. /\ SameItem(n, d, "allow-compression") /\ SameItem(n, d, "comp-lzo")
        /\ SameItem(n, d, "compress")
    BY SameKeys
  <2>2. Is(n, "allow-compression", "no") <=> Is(d, "allow-compression", "no")
    BY <2>1, SameYes
  <2> QED BY <2>1, <2>2 DEF BuildCompression, SameItem
<1>3. BuildMssfix(n) = BuildMssfix(d)
  <2>1. SameItem(n, d, "float") /\ SameItem(n, d, "mssfix") BY SameKeys
  <2>2. (Yes(n, "float") <=> Yes(d, "float")) /\ (Yes(n, "mssfix") <=> Yes(d, "mssfix"))
    BY <2>1, SameYes DEF Yes
  <2> QED BY <2>1, <2>2 DEF BuildMssfix, SameItem
<1>4. line_str(n, BuildStrings) = line_str(d, BuildStrings)
  <2>1. \A p \in BuildStrings : SameItem(n, d, p[1]) BY SameKeys DEF BuildStrings
  <2> QED BY <2>1, SameStrings
<1>5. line_int(n, BuildNumbers) = line_int(d, BuildNumbers)
  <2>1. \A p \in BuildNumbers : SameItem(n, d, p[1]) BY SameKeys DEF BuildNumbers
  <2> QED BY <2>1, SameNumbers
<1> QED BY <1>1, <1>2, <1>3, <1>4, <1>5

(* BuildRemotes looks up the remote, so the connection must have one.      *)
LEMMA Rebuilt ==
    ASSUME NEW n, NEW d, SaysSame(n, d), Has(d, "remote")
    PROVE  build_profile_string(n) = build_profile_string(d)
<1>1. BuildRemotes(n) = BuildRemotes(d)
  <2>1. SameItem(n, d, "remote") BY SameKeys
  <2>2. n["remote"] = d["remote"] BY <2>1 DEF SameItem
  <2> QED BY <2>2 DEF BuildRemotes
<1>2. BuildRoutes(n) = BuildRoutes(d)
  <2>1. SameItem(n, d, "nm-openvpn3-extra-routes") BY SameKeys
  <2>2. CASE Has(d, "nm-openvpn3-extra-routes")
    <3>1. n["nm-openvpn3-extra-routes"] = d["nm-openvpn3-extra-routes"]
          /\ Has(n, "nm-openvpn3-extra-routes")
      BY <2>1, <2>2 DEF SameItem
    <3> QED BY <2>2, <3>1 DEF BuildRoutes
  <2>3. CASE ~Has(d, "nm-openvpn3-extra-routes")
    BY <2>1, <2>3 DEF BuildRoutes, SameItem
  <2> QED BY <2>2, <2>3
<1>3. BuildCredentials(n) = BuildCredentials(d) BY RebuiltCredentials
<1>4. BuildDevice(n) = BuildDevice(d) BY RebuiltDevice
<1>5. BuildTls(n) = BuildTls(d) BY RebuiltTls
<1>6. BuildProxy(n) = BuildProxy(d) BY RebuiltProxy
<1> QED BY <1>1, <1>2, <1>3, <1>4, <1>5, <1>6, RebuiltRest DEF build_profile_string

LEMMA Reoverridden ==
    ASSUME NEW n, NEW d, SaysSame(n, d) PROVE apply_overrides(n) = apply_overrides(d)
<1>1. \A p \in OVERRIDE_BOOLS : Yes(n, p[1]) <=> Yes(d, p[1])
  BY DEF SaysSame, OVERRIDE_BOOLS, Switched, SwitchKeys
<1>2. {p \in OVERRIDE_BOOLS : Yes(n, p[1])} = {p \in OVERRIDE_BOOLS : Yes(d, p[1])} BY <1>1
<1>3. SameItem(n, d, "override-log-level") BY SameKeys
<1> DEFINE k == "override-log-level"
           Level(v) == IF v \in Ints /\ Number[v] \in 1..6 THEN {<<"log-level", v>>} ELSE {}
           Bools(x) == {<<o[2]>> : o \in {p \in OVERRIDE_BOOLS : Yes(x, p[1])}}
<1>4. \A x : apply_overrides(x) = Bools(x) \cup (IF Has(x, k) THEN Level(x[k]) ELSE {})
  BY Zenon DEF apply_overrides
<1>5. Bools(n) = Bools(d) BY <1>2
<1>6. (Has(n, k) <=> Has(d, k)) /\ (Has(d, k) => n[k] = d[k]) BY <1>3 DEF SameItem
<1> HIDE DEF Level, Bools, k
<1> QED BY <1>4, <1>5, <1>6

UInv == Settled /\ SecretsAreItems

LEMMA UInvInit == Init => UInv
BY DEF Init, EditorInit, UInv, Settled, SecretsAreItems

LEMMA UntouchedStep ==
    ASSUME SInv, UInv, [Next]_vars, open, open', touched = {}, data # data', Displayable(data)
    PROVE  /\ Connectable(data) => Connected(data') = Connected(data)
           /\ build_profile_string(data) = build_profile_string(data')
           /\ apply_overrides(data') = apply_overrides(data)
           /\ secrets' = secrets
<1>1. Apply
  <2>1. [EditorNext]_editorVars BY DEF Next, vars, Export, Import, LoseFile
  <2> QED BY <2>1, DataChanges
<1>2. data' = Saved /\ validate_required_fields BY <1>1 DEF Apply
<1>4. EInv BY DEF SInv
<1>5. data = initial BY <1>2 DEF UInv, Settled
<1>6. SaysSame(data', data) BY <1>2, <1>4, <1>5, SavedAsLoaded
<1>7. Stored = {} BY <1>4, UntouchedRows
<1>8. secrets' = secrets
  <2>1. secrets' = [s \in DOMAIN secrets \cup Stored |->
                      IF s \in Stored THEN typed[s] ELSE secrets[s]]
    BY <1>1 DEF Apply
  <2>2. DOMAIN secrets \cup Stored = DOMAIN secrets BY <1>7
  <2>3. secrets' = [s \in DOMAIN secrets |-> secrets[s]] BY <1>7, <2>1, <2>2
  <2> QED BY <2>3 DEF UInv, SecretsAreItems
<1>9. Has(data, "remote")
  <2>1. "remote" \in TextKeys BY DEF TextKeys, EntryKeys
  <2>2. text["remote"] # "" BY <1>2 DEF validate_required_fields
  <2>3. text["remote"] = LoadText(data)["remote"] BY <1>4, <1>5, <2>1, UntouchedRows
  <2> QED BY <2>1, <2>2, <2>3 DEF LoadText
<1>10. build_profile_string(data') = build_profile_string(data) BY <1>6, <1>9, Rebuilt
<1>11. apply_overrides(data') = apply_overrides(data) BY <1>6, Reoverridden
<1>12. Connected(data') = Connected(data)
  <2>1. SameItem(data', data, "nm-openvpn3-profile") BY <1>6, SameKeys
  <2>2. Pinned(data') <=> Pinned(data) BY <2>1 DEF SameItem, Pinned
  <2> QED BY <1>10, <2>2 DEF Connected
<1> QED BY <1>8, <1>10, <1>11, <1>12

(* In every state: opening the editor on a connection it can display and   *)
(* pressing Apply, once or again, with no row touched, leaves the profile, *)
(* the overrides and the secrets as they were (iface_update_connection     *)
(* writes back what new_editor loaded).                                    *)
THEOREM UntouchedApplyIsHarmless == Spec => UntouchedApplyKeepsTunnel
<1>1. Spec => []UInv
  <2>1. SInv /\ UInv /\ [Next]_vars => UInv'
    BY SettledStep, SecretsStep DEF UInv
  <2> QED BY <2>1, UInvInit, SettingsInvariance, PTL DEF Spec
<1>2. SInv /\ UInv /\ [Next]_vars =>
        [(open /\ open' /\ touched = {} /\ data # data' /\ Displayable(data))
           => /\ Connectable(data) => Connected(data') = Connected(data)
              /\ build_profile_string(data) = build_profile_string(data')
              /\ apply_overrides(data') = apply_overrides(data)
              /\ secrets' = secrets]_vars
  BY UntouchedStep
<1> QED BY <1>1, <1>2, SettingsInvariance, PTL DEF Spec, UntouchedApplyKeepsTunnel

(* What the dialog reads back from its input.  Words are the keys and      *)
(* values of the two blocks.                                               *)
LinePrefixes == {"DATA_KEY", "DATA_VAL", "SECRET_KEY", "SECRET_VAL", ""}

InputLines(W) == {<<>>, <<"DONE">>} \cup (LinePrefixes \X W)

Tables(W) == UNION {[S -> W] : S \in SUBSET W}

Readings(W) ==
    [data : Tables(W), secrets : Tables(W), key : {<<>>} \cup (LinePrefixes \X W), done : BOOLEAN]

Rd(dt, sc, k, dn) == [data |-> dt, secrets |-> sc, key |-> k, done |-> dn]

LEMMA TableIs ==
    ASSUME NEW W, NEW a
    PROVE  a \in Tables(W) <=> /\ a = [k \in DOMAIN a |-> a[k]]
                               /\ DOMAIN a \subseteq W
                               /\ \A k \in DOMAIN a : a[k] \in W
<1>1. ASSUME a \in Tables(W)
      PROVE  a = [k \in DOMAIN a |-> a[k]] /\ DOMAIN a \subseteq W
             /\ \A k \in DOMAIN a : a[k] \in W
  <2>1. PICK S \in SUBSET W : a \in [S -> W] BY <1>1 DEF Tables
  <2> QED BY <2>1
<1>2. ASSUME a = [k \in DOMAIN a |-> a[k]], DOMAIN a \subseteq W,
             \A k \in DOMAIN a : a[k] \in W
      PROVE  a \in Tables(W)
  <2> DEFINE S == DOMAIN a
  <2>1. S \in SUBSET W /\ a \in [S -> W] BY <1>2
  <2> HIDE DEF S
  <2> QED BY <2>1 DEF Tables
<1> QED BY <1>1, <1>2

LEMMA TableWith ==
    ASSUME NEW W, NEW a \in Tables(W), NEW k \in W, NEW v \in W
    PROVE  With(a, k, v) \in Tables(W)
<1> DEFINE w == With(a, k, v)
<1>1. /\ DOMAIN w = IF v = "" THEN DOMAIN a \ {k} ELSE DOMAIN a \cup {k}
      /\ \A x \in DOMAIN w : w[x] = IF x = k THEN v ELSE a[x]
  BY DEF With, WithAll, Without
<1>2. w = [x \in DOMAIN w |-> w[x]] BY DEF With, Without, WithAll
<1>3. DOMAIN a \subseteq W /\ \A x \in DOMAIN a : a[x] \in W BY TableIs
<1> HIDE DEF w
<1>4. DOMAIN w \subseteq W BY <1>1, <1>3
<1>5. \A x \in DOMAIN w : w[x] \in W BY <1>1, <1>3
<1> QED BY <1>2, <1>4, <1>5, TableIs DEF w

LEMMA InputForms ==
    ASSUME NEW p, NEW v
    PROVE  /\ <<p, v>> # <<>> /\ <<p, v>> # <<"DONE">> /\ <<"DONE">> # <<>>
           /\ <<p, v>>[1] = p /\ <<p, v>>[2] = v
<1>1. Len(<<p, v>>) = 2 /\ Len(<<"DONE">>) = 1 /\ Len(<<>>) = 0 OBVIOUS
<1>2. <<p, v>> # <<>> BY <1>1
<1>3. <<p, v>> # <<"DONE">> BY <1>1
<1>4. <<"DONE">> # <<>> BY <1>1
<1> QED BY <1>2, <1>3, <1>4

(* One line, form by form.                                                 *)
LEMMA ReadDone == ASSUME NEW W, NEW a \in Readings(W), a.done, NEW l PROVE ReadLine(a, l) = a
BY DEF ReadLine

LEMMA ReadBlank ==
    ASSUME NEW W, NEW a \in Readings(W), ~a.done
    PROVE  ReadLine(a, <<>>) = Rd(a.data, a.secrets, <<>>, a.done)
<1>1. <<>> # <<"DONE">> BY InputForms
<1>2. ReadLine(a, <<>>) = [a EXCEPT !.key = <<>>] BY <1>1 DEF ReadLine
<1> QED BY <1>2 DEF Readings, Rd

LEMMA ReadEnd ==
    ASSUME NEW W, NEW a \in Readings(W), ~a.done
    PROVE  ReadLine(a, <<"DONE">>) = Rd(a.data, a.secrets, a.key, TRUE)
<1>1. ReadLine(a, <<"DONE">>) = [a EXCEPT !.done = TRUE] BY DEF ReadLine
<1> QED BY <1>1 DEF Readings, Rd

LEMMA ReadKey ==
    ASSUME NEW W, NEW a \in Readings(W), ~a.done, NEW p \in {"DATA_KEY", "SECRET_KEY"}, NEW v
    PROVE  ReadLine(a, <<p, v>>)
             = Rd(a.data, a.secrets, IF v = "" THEN <<>> ELSE <<p, v>>, a.done)
<1> DEFINE l == <<p, v>>
<1>1. l # <<>> /\ l # <<"DONE">> /\ l[1] = p /\ l[2] = v BY InputForms
<1> HIDE DEF l
<1>2. ReadLine(a, l) = [a EXCEPT !.key = IF v = "" THEN <<>> ELSE l] BY <1>1 DEF ReadLine
<1> QED BY <1>2 DEF Readings, Rd, l

LEMMA ReadValue ==
    ASSUME NEW W, NEW a \in Readings(W), ~a.done, NEW v
    PROVE  ReadLine(a, <<"DATA_VAL", v>>)
             = IF a.key # <<>> /\ a.key[1] = "DATA_KEY"
               THEN Rd(With(a.data, a.key[2], v), a.secrets, <<>>, a.done) ELSE a
<1> DEFINE l == <<"DATA_VAL", v>>
<1>1. l # <<>> /\ l # <<"DONE">> /\ l[1] = "DATA_VAL" /\ l[2] = v BY InputForms
<1> HIDE DEF l
<1>2. ReadLine(a, l) = IF a.key # <<>> /\ a.key[1] = "DATA_KEY"
        THEN [a EXCEPT !.data = With(@, a.key[2], v), !.key = <<>>] ELSE a
  BY <1>1 DEF ReadLine
<1> QED BY <1>2 DEF Readings, Rd, l

LEMMA ReadSecret ==
    ASSUME NEW W, NEW a \in Readings(W), ~a.done, NEW v
    PROVE  ReadLine(a, <<"SECRET_VAL", v>>)
             = IF a.key # <<>> /\ a.key[1] = "SECRET_KEY"
               THEN Rd(a.data, With(a.secrets, a.key[2], v), <<>>, a.done) ELSE a
<1> DEFINE l == <<"SECRET_VAL", v>>
<1>1. l # <<>> /\ l # <<"DONE">> /\ l[1] = "SECRET_VAL" /\ l[2] = v BY InputForms
<1> HIDE DEF l
<1>2. ReadLine(a, l) = IF a.key # <<>> /\ a.key[1] = "SECRET_KEY"
        THEN [a EXCEPT !.secrets = With(@, a.key[2], v), !.key = <<>>] ELSE a
  BY <1>1 DEF ReadLine
<1> QED BY <1>2 DEF Readings, Rd, l

LEMMA ReadMore ==
    ASSUME NEW W, NEW a \in Readings(W), NEW v PROVE ReadLine(a, <<"", v>>) = a
<1> DEFINE l == <<"", v>>
<1>1. l # <<>> /\ l # <<"DONE">> /\ l[1] = "" BY InputForms
<1> HIDE DEF l
<1>2. ReadLine(a, l) = a BY <1>1 DEF ReadLine
<1> QED BY <1>2 DEF l

LEMMA ReadingIs ==
    ASSUME NEW W, NEW a
    PROVE  a \in Readings(W) =>
             /\ a.data \in Tables(W) /\ a.secrets \in Tables(W) /\ a.done \in BOOLEAN
             /\ a.key = <<>> \/ (a.key \in LinePrefixes \X W /\ a.key[1] \in LinePrefixes
                                 /\ a.key[2] \in W)
BY DEF Readings

LEMMA RdType ==
    ASSUME NEW W, NEW dt \in Tables(W), NEW sc \in Tables(W),
           NEW k \in {<<>>} \cup (LinePrefixes \X W), NEW dn \in BOOLEAN
    PROVE  Rd(dt, sc, k, dn) \in Readings(W)
BY DEF Rd, Readings

LEMMA ReadLineType ==
    ASSUME NEW W, NEW a \in Readings(W), NEW l \in InputLines(W)
    PROVE  ReadLine(a, l) \in Readings(W)
<1>1. /\ a.data \in Tables(W) /\ a.secrets \in Tables(W) /\ a.done \in BOOLEAN
      /\ a.key = <<>> \/ (a.key \in LinePrefixes \X W /\ a.key[1] \in LinePrefixes
                                 /\ a.key[2] \in W)
  BY ReadingIs
<1>2. CASE a.done BY <1>2, ReadDone
<1>3. CASE ~a.done
  <2>1. CASE l = <<>>
    <3>1. ReadLine(a, l) = Rd(a.data, a.secrets, <<>>, a.done) BY <1>3, <2>1, ReadBlank
    <3> QED BY <1>1, <3>1, RdType
  <2>2. CASE l = <<"DONE">>
    <3>1. ReadLine(a, l) = Rd(a.data, a.secrets, a.key, TRUE) BY <1>3, <2>2, ReadEnd
    <3> QED BY <1>1, <3>1, RdType
  <2>3. ASSUME NEW p \in LinePrefixes, NEW v \in W, l = <<p, v>> PROVE ReadLine(a, l) \in Readings(W)
    <3>1. CASE p \in {"DATA_KEY", "SECRET_KEY"}
      <4>1. ReadLine(a, l) = Rd(a.data, a.secrets, IF v = "" THEN <<>> ELSE <<p, v>>, a.done)
        BY <1>3, <2>3, <3>1, ReadKey
      <4>2. (IF v = "" THEN <<>> ELSE <<p, v>>) \in {<<>>} \cup (LinePrefixes \X W) BY <2>3
      <4> QED BY <1>1, <4>1, <4>2, RdType
    <3>2. CASE p = "DATA_VAL"
      <4>1. ReadLine(a, l) = IF a.key # <<>> /\ a.key[1] = "DATA_KEY"
               THEN Rd(With(a.data, a.key[2], v), a.secrets, <<>>, a.done) ELSE a
        BY <1>3, <2>3, <3>2, ReadValue
      <4>2. CASE a.key # <<>> /\ a.key[1] = "DATA_KEY"
        <5>1. With(a.data, a.key[2], v) \in Tables(W) BY <1>1, <2>3, <4>2, TableWith
        <5> QED BY <1>1, <4>1, <4>2, <5>1, RdType
      <4> QED BY <4>1, <4>2
    <3>3. CASE p = "SECRET_VAL"
      <4>1. ReadLine(a, l) = IF a.key # <<>> /\ a.key[1] = "SECRET_KEY"
               THEN Rd(a.data, With(a.secrets, a.key[2], v), <<>>, a.done) ELSE a
        BY <1>3, <2>3, <3>3, ReadSecret
      <4>2. CASE a.key # <<>> /\ a.key[1] = "SECRET_KEY"
        <5>1. With(a.secrets, a.key[2], v) \in Tables(W) BY <1>1, <2>3, <4>2, TableWith
        <5> QED BY <1>1, <4>1, <4>2, <5>1, RdType
      <4> QED BY <4>1, <4>2
    <3>4. CASE p = "" BY <2>3, <3>4, ReadMore
    <3> QED BY <2>3, <3>1, <3>2, <3>3, <3>4 DEF LinePrefixes
  <2>4. l = <<>> \/ l = <<"DONE">> \/ \E p \in LinePrefixes, v \in W : l = <<p, v>>
    BY DEF InputLines
  <2> QED BY <2>1, <2>2, <2>3, <2>4
<1> QED BY <1>1, <1>2, <1>3

ReadingStart == Rd([k \in {} |-> ""], [k \in {} |-> ""], <<>>, FALSE)

Reading(W) == [l \in InputLines(W) |-> [a \in Readings(W) |-> ReadLine(a, l)]]

LEMMA ReadingType ==
    ASSUME NEW W
    PROVE  /\ Reading(W) \in [InputLines(W) -> [Readings(W) -> Readings(W)]]
           /\ ReadingStart \in Readings(W)
<1>1. Reading(W) \in [InputLines(W) -> [Readings(W) -> Readings(W)]]
  BY ReadLineType DEF Reading
<1> DEFINE e == [k \in {} |-> ""]
<1>2. e \in Tables(W)
  <2>1. e = [k \in DOMAIN e |-> e[k]] /\ DOMAIN e = {} OBVIOUS
  <2> HIDE DEF e
  <2> QED BY <2>1, TableIs
<1>3. <<>> \in {<<>>} \cup (LinePrefixes \X W) /\ FALSE \in BOOLEAN OBVIOUS
<1> HIDE DEF e
<1>4. Rd(e, e, <<>>, FALSE) \in Readings(W) BY <1>2, <1>3, RdType
<1> QED BY <1>1, <1>4 DEF ReadingStart, e

LEMMA DialogRun ==
    ASSUME NEW W, NEW h, Listed(h, InputLines(W))
    PROVE  \E f : /\ IsRun(f, h, Readings(W), ReadingStart, Reading(W))
                  /\ read_vpn_details(h) = f[DOMAIN h]
<1> DEFINE S == DOMAIN h
           V == Readings(W)
           D == InputLines(W)
           sd == Reading(W)
           base == ReadingStart
           iter == CHOOSE g : g = [s \in SUBSET S |-> IF s = {} THEN base
                                     ELSE ReadLine(g[s \ {Max(s)}], h[Max(s)])]
<1>1. sd \in [D -> [V -> V]] /\ base \in V BY ReadingType
<1>2. read_vpn_details(h) = iter[S]
  BY DEF read_vpn_details, FoldLeft, MapThenFoldSet, ReadingStart, Rd
<1>5. \A i \in S, v \in V : sd[h[i]][v] = ReadLine(v, h[i]) BY DEF Reading, Listed
<1> HIDE DEF sd, V, D, base
<1>0. Listed(h, D) BY DEF D
<1>3. PICK f : IsRun(f, h, V, base, sd) BY <1>0, <1>1, RunExists, Zenon
<1>4. Equation(f, h, V, base, sd) BY <1>0, <1>1, <1>3, RunEquation, Zenon
<1>6. f = [s \in SUBSET S |-> IF s = {} THEN base
                              ELSE ReadLine(f[s \ {Max(s)}], h[Max(s)])]
  BY <1>4, <1>5 DEF Equation
<1>7. iter = [s \in SUBSET S |-> IF s = {} THEN base
                                 ELSE ReadLine(iter[s \ {Max(s)}], h[Max(s)])]
  BY <1>6
<1> HIDE DEF iter
<1>8. Computes(iter, h, V, base, sd)
  <2>1. iter[{}] = base BY <1>7
  <2>2. ASSUME NEW s \in SUBSET S, s # {}, iter[s \ {Max(s)}] \in V
        PROVE  iter[s] = sd[h[Max(s)]][iter[s \ {Max(s)}]]
    <3>1. iter[s] = ReadLine(iter[s \ {Max(s)}], h[Max(s)]) BY <1>7, <2>2
    <3>2. Max(s) \in S BY <1>4, <2>2 DEF Equation
    <3> QED BY <1>5, <2>2, <3>1, <3>2
  <2> QED BY <2>1, <2>2 DEF Computes
<1>9. SameOn({DOMAIN h}, f, iter) BY <1>0, <1>1, <1>3, <1>8, RunUnique, Zenon
<1> QED BY <1>2, <1>3, <1>9 DEF sd, V, base, SameOn

LEMMA DialogIs ==
    ASSUME NEW W, NEW h, Listed(h, InputLines(W))
    PROVE  /\ read_vpn_details(h) \in Readings(W)
           /\ read_vpn_details(h) = IF DOMAIN h = {} THEN ReadingStart
                      ELSE ReadLine(read_vpn_details(Before(h)), h[Last1(h)])
<1> DEFINE sd == Reading(W)
           V == Readings(W)
           D == InputLines(W)
           base == ReadingStart
<1>1. sd \in [D -> [V -> V]] /\ base \in V BY ReadingType
<1>2. Listed(Before(h), D) BY BeforeListed
<1>3. PICK f : IsRun(f, h, V, base, sd) /\ read_vpn_details(h) = f[DOMAIN h] BY DialogRun
<1>4. PICK g : /\ IsRun(g, Before(h), V, base, sd)
               /\ read_vpn_details(Before(h)) = g[DOMAIN Before(h)]
  BY <1>2, DialogRun
<1>0. Listed(h, D) OBVIOUS
<1> HIDE DEF sd, V, D, base
<1>5. Stepped(f[DOMAIN h], g[DOMAIN Before(h)], h, V, base, sd)
  BY <1>0, <1>1, <1>3, <1>4, RunStepped, Zenon
<1>6. g[DOMAIN Before(h)] \in V
  <2>1. Equation(g, Before(h), V, base, sd) BY <1>1, <1>2, <1>4, RunEquation, Zenon
  <2> QED BY <2>1 DEF Equation
<1>7. DOMAIN h # {} => h[Last1(h)] \in D BY <1>0, LastListed DEF Listed
<1> QED BY <1>3, <1>4, <1>5, <1>6, <1>7 DEF Stepped, sd, V, D, base, Reading

(* Line after line.                                                        *)
LEMMA DialogSteps ==
    ASSUME NEW W
    PROVE  /\ read_vpn_details(<<>>) = ReadingStart
           /\ \A t \in Seq(InputLines(W)) : read_vpn_details(t) \in Readings(W)
           /\ \A t \in Seq(InputLines(W)), l \in InputLines(W) :
                read_vpn_details(Append(t, l)) = ReadLine(read_vpn_details(t), l)
<1> DEFINE D == InputLines(W)
<1>1. read_vpn_details(<<>>) = ReadingStart
  <2>1. <<>> \in Seq(D) OBVIOUS
  <2>2. Listed(<<>>, D) /\ DOMAIN <<>> = {} BY <2>1, SeqListed
  <2> QED BY <2>2, DialogIs
<1>2. ASSUME NEW t \in Seq(D) PROVE read_vpn_details(t) \in Readings(W)
  <2>1. Listed(t, D) BY SeqListed
  <2> QED BY <2>1, DialogIs
<1>3. ASSUME NEW t \in Seq(D), NEW l \in D
      PROVE  read_vpn_details(Append(t, l)) = ReadLine(read_vpn_details(t), l)
  <2> DEFINE u == Append(t, l)
  <2>1. u \in Seq(D) /\ DOMAIN u # {} /\ u[Last1(u)] = l /\ Before(u) = t BY AppendLast
  <2>2. Listed(u, D) BY <2>1, SeqListed
  <2> HIDE DEF u
  <2>3. read_vpn_details(u) = ReadLine(read_vpn_details(Before(u)), u[Last1(u)])
    BY <2>1, <2>2, DialogIs
  <2> QED BY <2>1, <2>3 DEF u
<1> QED BY <1>1, <1>2, <1>3

-----------------------------------------------------------------------------
(* What NetworkManager writes, item by item.                               *)
PairItem(d, key, val, k) ==
    <<<<key, k>>, <<val, d[k]>>>>
      \o (IF k = "nm-openvpn3-extra-routes" THEN <<<<"", d[k]>>>> ELSE <<>>)

Lists(f, d, key, val, D) ==
    /\ f \in [SUBSET DOMAIN d -> Seq(D)]
    /\ f[{}] = <<>>
    /\ \A s \in SUBSET DOMAIN d : s # {} =>
         \E x \in s : f[s] = f[s \ {x}] \o PairItem(d, key, val, x)

LEMMA PairsList ==
    ASSUME NEW d, IsFiniteSet(DOMAIN d), NEW key, NEW val, NEW D,
           \A k \in DOMAIN d : PairItem(d, key, val, k) \in Seq(D)
    PROVE  \E f : Lists(f, d, key, val, D) /\ Pairs(d, key, val) = f[DOMAIN d]
<1> DEFINE L == DOMAIN d
           V == Seq(D)
           base == <<>>
           It(x) == PairItem(d, key, val, x)
           ch == [s \in SUBSET L |-> CHOOSE x \in s : TRUE]
           step == [x \in L |-> [v \in V |-> v \o It(x)]]
           iter == CHOOSE g : g = [s \in SUBSET L |-> IF s = {} THEN base
                        ELSE g[s \ {CHOOSE x \in s : TRUE}] \o It(CHOOSE x \in s : TRUE)]
<1>1. Pairs(d, key, val) = iter[L] BY DEF Pairs, FoldSet, MapThenFoldSet, PairItem
<1>2. \A s \in SUBSET L : s # {} => ch[s] \in s OBVIOUS
<1>3. step \in [L -> [V -> V]]
  <2> HIDE DEF It
  <2>1. \A x \in L : It(x) \in V BY DEF It
  <2>2. \A x \in L, v \in V : v \o It(x) \in V BY <2>1, ConcatProperties
  <2> QED BY <2>2
<1>4. \A s \in SUBSET L : ch[s] = CHOOSE x \in s : TRUE OBVIOUS
<1>5. \A x \in L, v \in V : step[x][v] = v \o It(x) OBVIOUS
<1>0. base \in V OBVIOUS
<1> HIDE DEF V, ch, step, It, base
<1>6. Foldable(L, V, base, ch, step) BY <1>0, <1>2, <1>3 DEF Foldable
<1>7. PICK f : IsFold(f, L, V, base, ch, step) BY <1>6, FoldExists, Zenon
<1>8. ASSUME NEW s \in SUBSET L, s # {}
      PROVE  /\ ch[s] \in s /\ f[s \ {ch[s]}] \in V
             /\ f[s] = f[s \ {ch[s]}] \o It(ch[s])
  <2>1. ch[s] \in s /\ s \ {ch[s]} \in SUBSET L /\ ch[s] \in L BY <1>2, <1>8
  <2>2. f[s \ {ch[s]}] \in V BY <1>7, <2>1 DEF IsFold
  <2>3. f[s] = step[ch[s]][f[s \ {ch[s]}]] BY <1>7, <1>8 DEF IsFold
  <2> QED BY <1>5, <2>1, <2>2, <2>3
<1>9. f = [s \in SUBSET L |-> IF s = {} THEN base
             ELSE f[s \ {CHOOSE x \in s : TRUE}] \o It(CHOOSE x \in s : TRUE)]
  <2>1. f = [s \in SUBSET L |-> f[s]] /\ f[{}] = base BY <1>7 DEF IsFold
  <2>2. \A s \in SUBSET L : f[s] = IF s = {} THEN base
             ELSE f[s \ {CHOOSE x \in s : TRUE}] \o It(CHOOSE x \in s : TRUE)
    BY <1>4, <1>8, <2>1
  <2> QED BY <2>1, <2>2
<1>10. iter = [s \in SUBSET L |-> IF s = {} THEN base
             ELSE iter[s \ {CHOOSE x \in s : TRUE}] \o It(CHOOSE x \in s : TRUE)]
  BY <1>9
<1> HIDE DEF iter
<1>11. Solves(iter, L, V, base, ch, step)
  <2>1. iter[{}] = base BY <1>10
  <2>2. ASSUME NEW s \in SUBSET L, s # {}, iter[s \ {ch[s]}] \in V
        PROVE  iter[s] = step[ch[s]][iter[s \ {ch[s]}]]
    <3>1. iter[s] = iter[s \ {ch[s]}] \o It(ch[s]) BY <1>4, <1>10, <2>2
    <3>2. ch[s] \in L BY <1>2, <2>2
    <3> QED BY <1>5, <2>2, <3>1, <3>2
  <2> QED BY <2>1, <2>2 DEF Solves
<1>12. L \in SUBSET L OBVIOUS
<1>13. SameOn(SUBSET L, f, iter) BY <1>6, <1>7, <1>11, <1>12, FoldUnique, Zenon
<1>14. Lists(f, d, key, val, D)
  <2>1. f \in [SUBSET L -> V] /\ f[{}] = base BY <1>7 DEF IsFold
  <2>2. \A s \in SUBSET L : s # {} => \E x \in s : f[s] = f[s \ {x}] \o It(x) BY <1>8
  <2> QED BY <2>1, <2>2 DEF Lists, V, base, It
<1> QED BY <1>1, <1>12, <1>13, <1>14 DEF SameOn

LEMMA ConcatAppend ==
    ASSUME NEW D, NEW t \in Seq(D), NEW u \in Seq(D), NEW l \in D
    PROVE  t \o Append(u, l) = Append(t \o u, l) /\ t \o u \in Seq(D)
OBVIOUS

LEMMA AddLine ==
    ASSUME NEW D, NEW t \in Seq(D), NEW a \in D
    PROVE  t \o <<a>> = Append(t, a) /\ <<a>> \in Seq(D)
<1>1. <<a>> \in Seq(D) /\ <<>> \in Seq(D) OBVIOUS
<1>2. <<a>> = Append(<<>>, a)
  <2> DEFINE w == Append(<<>>, a)
  <2>1. w \in Seq(D) /\ Len(w) = 1 /\ w[1] = a BY <1>1, AppendProperties
  <2>2. Len(<<a>>) = 1 /\ <<a>>[1] = a OBVIOUS
  <2> HIDE DEF w
  <2>3. w = <<a>> BY <1>1, <2>1, <2>2, SeqEqual
  <2> QED BY <2>3 DEF w
<1>3. t \o <<>> = t BY ConcatEmptySeq
<1>4. t \o Append(<<>>, a) = Append(t \o <<>>, a) BY <1>1, ConcatAppend
<1>5. t \o <<a>> = Append(t, a) BY <1>2, <1>3, <1>4, Zenon
<1> QED BY <1>1, <1>5

LEMMA AppendOne ==
    ASSUME NEW D, NEW u \in Seq(D), NEW b \in D
    PROVE  Len(u) = 1 => /\ Append(u, b) \in Seq(D) /\ Len(Append(u, b)) = 2
                         /\ Append(u, b)[1] = u[1] /\ Append(u, b)[2] = b
<1> DEFINE w == Append(u, b)
<1>1. /\ w \in Seq(D) /\ Len(w) = Len(u) + 1
      /\ \A i \in 1..Len(u) : w[i] = u[i]
      /\ w[Len(u) + 1] = b
  BY AppendProperties
<1>2. Len(u) = 1 => 1 \in 1..Len(u) /\ Len(u) + 1 = 2 OBVIOUS
<1> HIDE DEF w
<1>3. Len(u) = 1 => w \in Seq(D) /\ Len(w) = 2 /\ w[1] = u[1] /\ w[2] = b BY <1>1, <1>2
<1> QED BY <1>3 DEF w

LEMMA TwoLines ==
    ASSUME NEW D, NEW t \in Seq(D), NEW a \in D, NEW b \in D
    PROVE  t \o <<a, b>> = Append(Append(t, a), b) /\ <<a, b>> \in Seq(D)
<1> DEFINE u == <<a>>
           w == Append(u, b)
           ab == <<a, b>>
<1>1. u \in Seq(D) /\ Len(u) = 1 /\ u[1] = a OBVIOUS
<1>2. ab \in Seq(D) /\ Len(ab) = 2 /\ ab[1] = a /\ ab[2] = b OBVIOUS
<1>3. t \o u = Append(t, a) BY AddLine
<1> HIDE DEF u, ab
<1>4. w \in Seq(D) /\ Len(w) = 2 /\ w[1] = a /\ w[2] = b BY <1>1, AppendOne
<1> HIDE DEF w
<1>5. w = ab BY <1>2, <1>4, SeqEqual
<1>6. t \o Append(u, b) = Append(t \o u, b) BY <1>1, ConcatAppend
<1> QED BY <1>2, <1>3, <1>5, <1>6 DEF w, ab

LEMMA ThreeLines ==
    ASSUME NEW D, NEW t \in Seq(D), NEW a \in D, NEW b \in D, NEW c \in D
    PROVE  /\ <<a, b>> \o <<c>> \in Seq(D)
           /\ t \o (<<a, b>> \o <<c>>) = Append(Append(Append(t, a), b), c)
<1> DEFINE ab == <<a, b>>
           it == ab \o <<c>>
<1>1. ab \in Seq(D) BY TwoLines
<1>2. t \o ab = Append(Append(t, a), b) BY TwoLines
<1> HIDE DEF ab
<1>3. it = Append(ab, c) BY <1>1, AddLine
<1>4. it \in Seq(D) BY <1>1, <1>3, AppendProperties
<1>5. t \o Append(ab, c) = Append(t \o ab, c) BY <1>1, ConcatAppend
<1> HIDE DEF it
<1>6. t \o it = Append(Append(Append(t, a), b), c) BY <1>2, <1>3, <1>5
<1> QED BY <1>4, <1>6 DEF it, ab

IsInput(d, key, val, k, D) == <<key, k>> \in D /\ <<val, d[k]>> \in D /\ <<"", d[k]>> \in D

LineByLine(u, t, a, b, c) ==
    u = Append(Append(t, a), b) \/ u = Append(Append(Append(t, a), b), c)

LEMMA ItemLines ==
    ASSUME NEW D, NEW t \in Seq(D), NEW d, NEW key, NEW val, NEW k,
           IsInput(d, key, val, k, D)
    PROVE  /\ PairItem(d, key, val, k) \in Seq(D)
           /\ LineByLine(t \o PairItem(d, key, val, k), t, <<key, k>>, <<val, d[k]>>, <<"", d[k]>>)
<1> DEFINE a == <<key, k>>
           b == <<val, d[k]>>
           c == <<"", d[k]>>
           it == PairItem(d, key, val, k)
           two == Append(Append(t, a), b)
<1>1. a \in D /\ b \in D /\ c \in D BY DEF IsInput
<1>2. CASE k = "nm-openvpn3-extra-routes"
  <2>1. it = <<a, b>> \o <<c>> BY <1>2 DEF PairItem
  <2> HIDE DEF a, b, c, it
  <2>2. <<a, b>> \o <<c>> \in Seq(D) BY <1>1, ThreeLines
  <2>3. t \o (<<a, b>> \o <<c>>) = Append(two, c) BY <1>1, ThreeLines
  <2> HIDE DEF two
  <2>4. it \in Seq(D) /\ t \o it = Append(two, c) BY <2>1, <2>2, <2>3, Zenon
  <2>5. LineByLine(t \o it, t, a, b, c) BY <2>4 DEF LineByLine, two
  <2> QED BY <2>4, <2>5, Zenon DEF a, b, c, it
<1>3. CASE k # "nm-openvpn3-extra-routes"
  <2>1. it = <<a, b>> \o <<>> BY <1>3 DEF PairItem
  <2> HIDE DEF a, b, c, it
  <2>2. <<a, b>> \in Seq(D) /\ t \o <<a, b>> = two BY <1>1, TwoLines
  <2>3. it = <<a, b>> BY <2>1, <2>2, ConcatEmptySeq, Zenon
  <2> HIDE DEF two
  <2>4. it \in Seq(D) /\ t \o it = two BY <2>2, <2>3, Zenon
  <2>5. LineByLine(t \o it, t, a, b, c) BY <2>4 DEF LineByLine, two
  <2> QED BY <2>4, <2>5, Zenon DEF a, b, c, it
<1> QED BY <1>2, <1>3, Zenon

-----------------------------------------------------------------------------
(* The block of vpn.data fills the table; what follows leaves it alone.    *)
QuietPrefixes == {"SECRET_KEY", "SECRET_VAL", ""}

QuietLines(W) == {<<>>, <<"DONE">>} \cup (QuietPrefixes \X W)

LEMMA QuietLine ==
    ASSUME NEW W, NEW a \in Readings(W), NEW l \in QuietLines(W)
    PROVE  ReadLine(a, l).data = a.data
<1>1. a.done \in BOOLEAN BY ReadingIs
<1>2. CASE a.done
  <2>1. ReadLine(a, l) = a BY <1>2, ReadDone
  <2> QED BY <2>1
<1>3. CASE ~a.done
  <2>1. CASE l = <<>>
    <3>1. ReadLine(a, l) = Rd(a.data, a.secrets, <<>>, a.done) BY <1>3, <2>1, ReadBlank
    <3> QED BY <3>1 DEF Rd
  <2>2. CASE l = <<"DONE">>
    <3>1. ReadLine(a, l) = Rd(a.data, a.secrets, a.key, TRUE) BY <1>3, <2>2, ReadEnd
    <3> QED BY <3>1 DEF Rd
  <2>3. ASSUME NEW p \in QuietPrefixes, NEW v \in W, l = <<p, v>>
        PROVE  ReadLine(a, l).data = a.data
    <3>1. CASE p = "SECRET_KEY"
      <4> DEFINE key == IF v = "" THEN <<>> ELSE <<p, v>>
      <4>1. ReadLine(a, l) = Rd(a.data, a.secrets, key, a.done) BY <1>3, <2>3, <3>1, ReadKey
      <4> HIDE DEF key
      <4> QED BY <4>1 DEF Rd
    <3>2. CASE p = "SECRET_VAL"
      <4>1. ReadLine(a, l) = IF a.key # <<>> /\ a.key[1] = "SECRET_KEY"
               THEN Rd(a.data, With(a.secrets, a.key[2], v), <<>>, a.done) ELSE a
        BY <1>3, <2>3, <3>2, ReadSecret
      <4>2. CASE a.key # <<>> /\ a.key[1] = "SECRET_KEY" BY <4>1, <4>2 DEF Rd
      <4> QED BY <4>1, <4>2
    <3>3. CASE p = ""
      <4>1. ReadLine(a, l) = a BY <2>3, <3>3, ReadMore
      <4> QED BY <4>1
    <3> QED BY <2>3, <3>1, <3>2, <3>3 DEF QuietPrefixes
  <2>4. l = <<>> \/ l = <<"DONE">> \/ \E p \in QuietPrefixes, v \in W : l = <<p, v>>
    BY DEF QuietLines
  <2> QED BY <2>1, <2>2, <2>3, <2>4
<1> QED BY <1>1, <1>2, <1>3

LEMMA QuietSuffix ==
    ASSUME NEW W, NEW t \in Seq(InputLines(W)), NEW u \in Seq(QuietLines(W))
    PROVE  /\ t \o u \in Seq(InputLines(W))
           /\ read_vpn_details(t \o u).data = read_vpn_details(t).data
<1> DEFINE D == InputLines(W)
           E == QuietLines(W)
           r(x) == read_vpn_details(x)
           Q == {x \in Seq(E) : t \o x \in Seq(D) /\ r(t \o x).data = r(t).data}
<1>0. E \subseteq D
  <2>1. QuietPrefixes \subseteq LinePrefixes BY DEF QuietPrefixes, LinePrefixes
  <2> QED BY <2>1 DEF InputLines, QuietLines
<1>1. <<>> \in Q
  <2>1. t \o <<>> = t BY ConcatEmptySeq
  <2> QED BY <2>1
<1>2. ASSUME NEW x \in Q, NEW l \in E PROVE Append(x, l) \in Q
  <2>1. x \in Seq(E) /\ t \o x \in Seq(D) /\ r(t \o x).data = r(t).data OBVIOUS
  <2>2. l \in D /\ x \in Seq(D) BY <1>0, <2>1, SeqWider
  <2>3. t \o Append(x, l) = Append(t \o x, l) BY <2>2, ConcatAppend
  <2>4. Append(t \o x, l) \in Seq(D) BY <2>1, <2>2, AppendProperties
  <2>5. Append(x, l) \in Seq(E) BY <2>1, AppendProperties
  <2>6. r(Append(t \o x, l)) = ReadLine(r(t \o x), l) BY <2>1, <2>2, DialogSteps
  <2>7. r(t \o x) \in Readings(W) BY <2>1, DialogSteps
  <2>8. ReadLine(r(t \o x), l).data = r(t \o x).data BY <2>7, QuietLine
  <2> QED BY <2>1, <2>3, <2>4, <2>5, <2>6, <2>8
<1>3. Q \in SUBSET Seq(E) OBVIOUS
<1> HIDE DEF Q, E
<1>4. Q = Seq(E) BY <1>1, <1>2, <1>3, SequenceInduction
<1> QED BY <1>4 DEF Q, E

LEMMA ReadItem ==
    ASSUME NEW W, NEW a \in Readings(W), ~a.done, NEW k \in W, NEW v \in W, k # ""
    PROVE  /\ ReadLine(a, <<"DATA_KEY", k>>) \in Readings(W)
           /\ ReadLine(ReadLine(a, <<"DATA_KEY", k>>), <<"DATA_VAL", v>>)
                = Rd(With(a.data, k, v), a.secrets, <<>>, FALSE)
<1>0. a.data \in Tables(W) /\ a.secrets \in Tables(W) /\ a.done \in BOOLEAN BY ReadingIs
<1>1. ReadLine(a, <<"DATA_KEY", k>>)
        = Rd(a.data, a.secrets, IF k = "" THEN <<>> ELSE <<"DATA_KEY", k>>, a.done)
  BY ReadKey
<1> DEFINE key == <<"DATA_KEY", k>>
           b == Rd(a.data, a.secrets, key, FALSE)
<1>2. ReadLine(a, key) = b BY <1>0, <1>1
<1>3. key \in {<<>>} \cup (LinePrefixes \X W) /\ FALSE \in BOOLEAN BY DEF LinePrefixes
<1>4. key # <<>> /\ key[1] = "DATA_KEY" /\ key[2] = k BY InputForms
<1>5. b.data = a.data /\ b.secrets = a.secrets /\ b.key = key /\ b.done = FALSE BY DEF Rd
<1> HIDE DEF key
<1>6. b \in Readings(W) BY <1>0, <1>3, RdType
<1> HIDE DEF b
<1>7. ReadLine(b, <<"DATA_VAL", v>>)
             = IF b.key # <<>> /\ b.key[1] = "DATA_KEY"
               THEN Rd(With(b.data, b.key[2], v), b.secrets, <<>>, b.done) ELSE b
  BY <1>5, <1>6, ReadValue
<1>8. ReadLine(b, <<"DATA_VAL", v>>) = Rd(With(a.data, k, v), a.secrets, <<>>, FALSE)
  BY <1>4, <1>5, <1>7
<1> QED BY <1>2, <1>6, <1>8 DEF key

(* The lines of s's items leave the reader with those items.               *)
ReadSoFar(f, d, W, s) ==
    /\ f[s] \in Seq(InputLines(W))
    /\ read_vpn_details(f[s]) \in Readings(W)
    /\ read_vpn_details(f[s]).data = [k \in s |-> d[k]]
    /\ ~read_vpn_details(f[s]).done

LEMMA WithRest ==
    ASSUME NEW d, NEW s, NEW x \in s, d[x] # ""
    PROVE  With([k \in s \ {x} |-> d[k]], x, d[x]) = [k \in s |-> d[k]]
BY DEF With, WithAll

LEMMA ItemInput ==
    ASSUME NEW W, NEW d, NEW k \in W, d[k] \in W
    PROVE  /\ IsInput(d, "DATA_KEY", "DATA_VAL", k, InputLines(W))
           /\ IsInput(d, "SECRET_KEY", "SECRET_VAL", k, QuietLines(W))
<1>1. {"DATA_KEY", "DATA_VAL", ""} \subseteq LinePrefixes BY DEF LinePrefixes
<1>2. {"SECRET_KEY", "SECRET_VAL", ""} \subseteq QuietPrefixes BY DEF QuietPrefixes
<1>3. ASSUME NEW p \in LinePrefixes, NEW v \in W PROVE <<p, v>> \in InputLines(W) BY DEF InputLines
<1>4. ASSUME NEW p \in QuietPrefixes, NEW v \in W PROVE <<p, v>> \in QuietLines(W)
  BY DEF QuietLines
<1>5. IsInput(d, "DATA_KEY", "DATA_VAL", k, InputLines(W)) BY <1>1, <1>3 DEF IsInput
<1>6. IsInput(d, "SECRET_KEY", "SECRET_VAL", k, QuietLines(W)) BY <1>2, <1>4 DEF IsInput
<1> QED BY <1>5, <1>6

ReadsItem(u, t, d, k) ==
    read_vpn_details(u).data = With(read_vpn_details(t).data, k, d[k])

LEMMA ItemRead ==
    ASSUME NEW W, NEW t \in Seq(InputLines(W)), ~read_vpn_details(t).done,
           NEW d, NEW k \in W, k # "", d[k] \in W,
           NEW u, u = t \o PairItem(d, "DATA_KEY", "DATA_VAL", k)
    PROVE  /\ u \in Seq(InputLines(W))
           /\ ReadsItem(u, t, d, k)
           /\ ~read_vpn_details(u).done
<1> DEFINE D == InputLines(W)
           r(x) == read_vpn_details(x)
           a == <<"DATA_KEY", k>>
           b == <<"DATA_VAL", d[k]>>
           c == <<"", d[k]>>
           t1 == Append(t, a)
           t2 == Append(t1, b)
           new == Rd(With(r(t).data, k, d[k]), r(t).secrets, <<>>, FALSE)
<1>1. IsInput(d, "DATA_KEY", "DATA_VAL", k, D) BY ItemInput
<1>2. a \in D /\ b \in D /\ c \in D BY <1>1 DEF IsInput
<1>3. u = t2 \/ u = Append(t2, c)
  <2>1. t \in Seq(D) OBVIOUS
  <2> HIDE DEF D
  <2>2. LineByLine(t \o PairItem(d, "DATA_KEY", "DATA_VAL", k), t, a, b, c)
    BY <1>1, <2>1, ItemLines
  <2> HIDE DEF a, b, c
  <2> QED BY <2>2 DEF LineByLine
<1>4. r(t) \in Readings(W) BY DialogSteps
<1>5. ReadLine(ReadLine(r(t), a), b) = new BY <1>4, ReadItem
<1>6. new.data = With(r(t).data, k, d[k]) /\ new.done = FALSE BY DEF Rd
<1>7. ASSUME NEW x \in Readings(W) PROVE ReadLine(x, c) = x BY ReadMore
<1> HIDE DEF a, b, c, new
<1>8. t1 \in Seq(D) /\ r(t1) = ReadLine(r(t), a)
  <2>1. t1 \in Seq(D) BY <1>2, AppendProperties
  <2> QED BY <1>2, <2>1, DialogSteps
<1> HIDE DEF t1
<1>9. t2 \in Seq(D) /\ r(t2) = ReadLine(r(t1), b)
  <2>1. t2 \in Seq(D) BY <1>2, <1>8, AppendProperties
  <2> QED BY <1>2, <1>8, <2>1, DialogSteps
<1> HIDE DEF t2
<1>10. r(t2) = new /\ r(t2) \in Readings(W) BY <1>5, <1>8, <1>9, DialogSteps
<1>11. Append(t2, c) \in Seq(D) /\ r(Append(t2, c)) = ReadLine(r(t2), c)
  <2>1. Append(t2, c) \in Seq(D) BY <1>2, <1>9, AppendProperties
  <2> QED BY <1>2, <1>9, <2>1, DialogSteps
<1>12. r(Append(t2, c)) = new BY <1>7, <1>10, <1>11
<1>13. u \in Seq(D) /\ r(u) = new BY <1>3, <1>9, <1>10, <1>11, <1>12
<1>14. ReadsItem(u, t, d, k) BY <1>6, <1>13 DEF ReadsItem
<1> QED BY <1>6, <1>13, <1>14

ReadsBack(p, d, W) ==
    p \in Seq(InputLines(W)) /\ read_vpn_details(p).data = [k \in DOMAIN d |-> d[k]]

LEMMA DataRead ==
    ASSUME NEW W, NEW d, IsFiniteSet(DOMAIN d), DOMAIN d \subseteq W \ {""},
           \A k \in DOMAIN d : d[k] \in W /\ d[k] # ""
    PROVE  ReadsBack(Pairs(d, "DATA_KEY", "DATA_VAL"), d, W)
<1> DEFINE D == InputLines(W)
           L == DOMAIN d
<1>0. <<>> \in Seq(D) BY EmptySeq, Zenon
<1>1. ASSUME NEW k \in L PROVE PairItem(d, "DATA_KEY", "DATA_VAL", k) \in Seq(D)
  <2>1. k \in W /\ d[k] \in W OBVIOUS
  <2>2. IsInput(d, "DATA_KEY", "DATA_VAL", k, D) BY <2>1, ItemInput
  <2> QED BY <1>0, <2>2, ItemLines, Zenon
<1>2. PICK f : /\ Lists(f, d, "DATA_KEY", "DATA_VAL", D)
               /\ Pairs(d, "DATA_KEY", "DATA_VAL") = f[L]
  BY <1>1, PairsList
<1> DEFINE Q == {s \in SUBSET L : ReadSoFar(f, d, W, s)}
<1>3. {} \in Q
  <2>1. f[{}] = <<>> BY <1>2, Zenon DEF Lists
  <2>2. read_vpn_details(<<>>) = ReadingStart /\ read_vpn_details(<<>>) \in Readings(W)
    BY <1>0, DialogSteps, Zenon
  <2>3. ReadingStart.data = [k \in {} |-> d[k]] /\ ~ReadingStart.done BY DEF ReadingStart, Rd
  <2>4. ReadSoFar(f, d, W, {}) BY <1>0, <2>1, <2>2, <2>3 DEF ReadSoFar
  <2> QED BY <2>4
<1>4. ASSUME NEW s \in SUBSET L, s # {}, \A x \in s : s \ {x} \in Q PROVE s \in Q
  <2>1. PICK x \in s : f[s] = f[s \ {x}] \o PairItem(d, "DATA_KEY", "DATA_VAL", x)
    BY <1>2, <1>4 DEF Lists
  <2> DEFINE t == f[s \ {x}]
             u == t \o PairItem(d, "DATA_KEY", "DATA_VAL", x)
  <2>2. /\ t \in Seq(D)
        /\ read_vpn_details(t).data = [k \in s \ {x} |-> d[k]]
        /\ ~read_vpn_details(t).done
    BY <1>4 DEF ReadSoFar
  <2>3. x \in W /\ x # "" /\ d[x] \in W /\ d[x] # "" OBVIOUS
  <2>6. f[s] = u BY <2>1
  <2> HIDE DEF t
  <2>4. u \in Seq(D) /\ read_vpn_details(u).data = With(read_vpn_details(t).data, x, d[x])
        /\ ~read_vpn_details(u).done
    <3>1. u = t \o PairItem(d, "DATA_KEY", "DATA_VAL", x) OBVIOUS
    <3>2. t \in Seq(InputLines(W)) /\ ~read_vpn_details(t).done BY <2>2
    <3> HIDE DEF u
    <3>3. u \in Seq(InputLines(W)) BY <2>3, <3>1, <3>2, ItemRead, Zenon
    <3>4. ReadsItem(u, t, d, x) BY <2>3, <3>1, <3>2, ItemRead, Zenon
    <3>5. ~read_vpn_details(u).done BY <2>3, <3>1, <3>2, ItemRead, Zenon
    <3> QED BY <3>3, <3>4, <3>5 DEF ReadsItem
  <2> HIDE DEF u
  <2>5. read_vpn_details(u).data = [k \in s |-> d[k]]
    <3>1. With([k \in s \ {x} |-> d[k]], x, d[x]) = [k \in s |-> d[k]] BY <2>3, WithRest
    <3> QED BY <2>2, <2>4, <3>1, Zenon
  <2>7. read_vpn_details(u) \in Readings(W) BY <2>4, DialogSteps
  <2>8. ReadSoFar(f, d, W, s) BY <2>4, <2>5, <2>6, <2>7 DEF ReadSoFar
  <2> QED BY <2>8
<1>5. Q \in SUBSET SUBSET L OBVIOUS
<1> HIDE DEF Q
<1>6. Q = SUBSET L BY <1>3, <1>4, <1>5, SubsetInduction
<1>7. L \in SUBSET L OBVIOUS
<1>8. ReadSoFar(f, d, W, L) BY <1>6, <1>7 DEF Q
<1> QED BY <1>2, <1>8 DEF ReadSoFar, ReadsBack

LEMMA SecretsQuiet ==
    ASSUME NEW W, NEW d, IsFiniteSet(DOMAIN d), DOMAIN d \subseteq W,
           \A k \in DOMAIN d : d[k] \in W
    PROVE  Pairs(d, "SECRET_KEY", "SECRET_VAL") \in Seq(QuietLines(W))
<1> DEFINE D == QuietLines(W)
           L == DOMAIN d
<1>0. <<>> \in Seq(D) BY EmptySeq, Zenon
<1>1. ASSUME NEW k \in L PROVE PairItem(d, "SECRET_KEY", "SECRET_VAL", k) \in Seq(D)
  <2>1. k \in W /\ d[k] \in W OBVIOUS
  <2>2. IsInput(d, "SECRET_KEY", "SECRET_VAL", k, D) BY <2>1, ItemInput
  <2> QED BY <1>0, <2>2, ItemLines, Zenon
<1>2. PICK f : /\ Lists(f, d, "SECRET_KEY", "SECRET_VAL", D)
               /\ Pairs(d, "SECRET_KEY", "SECRET_VAL") = f[L]
  BY <1>1, PairsList
<1>3. L \in SUBSET L /\ f \in [SUBSET L -> Seq(D)] BY <1>2 DEF Lists
<1> QED BY <1>2, <1>3

(* The dialog reads back the vpn.data that NetworkManager wrote.           *)
LEMMA DetailsRead ==
    ASSUME NEW d, IsItems(d), IsDictionary(d), NEW sc, IsItems(sc), IsFiniteSet(DOMAIN sc)
    PROVE  read_vpn_details(Details(d, sc)).data = d
<1> DEFINE W == Strings \cup DOMAIN d \cup DOMAIN sc
           D == InputLines(W)
           p == Pairs(d, "DATA_KEY", "DATA_VAL")
           q == Pairs(sc, "SECRET_KEY", "SECRET_VAL")
           blank == <<<<>>>>
           end == <<<<>>, <<"DONE">>>>
           t1 == p \o blank
           t2 == t1 \o q
           t3 == t2 \o end
           r(x) == read_vpn_details(x)
<1>1. d = [k \in DOMAIN d |-> d[k]] /\ "" \notin DOMAIN d /\ IsFiniteSet(DOMAIN d)
  BY DEF IsDictionary
<1>2. DOMAIN d \subseteq W \ {""} /\ \A k \in DOMAIN d : d[k] \in W /\ d[k] # ""
  BY <1>1 DEF IsItems
<1>3. DOMAIN sc \subseteq W /\ \A k \in DOMAIN sc : sc[k] \in W BY DEF IsItems
<1>4. <<>> \in QuietLines(W) /\ <<"DONE">> \in QuietLines(W) BY DEF QuietLines
<1>5. blank \in Seq(QuietLines(W)) BY <1>4
<1>6. end \in Seq(QuietLines(W)) BY <1>4
<1>7. Details(d, sc) = t3 BY DEF Details
<1> HIDE DEF W
<1>8. p \in Seq(D) /\ r(p).data = [k \in DOMAIN d |-> d[k]]
  <2>1. ReadsBack(p, d, W) BY <1>1, <1>2, DataRead
  <2> QED BY <2>1 DEF ReadsBack
<1>9. q \in Seq(QuietLines(W)) BY <1>3, SecretsQuiet
<1> HIDE DEF p, q, blank, end
<1>10. t1 \in Seq(D) /\ r(t1).data = r(p).data BY <1>5, <1>8, QuietSuffix
<1> HIDE DEF t1
<1>11. t2 \in Seq(D) /\ r(t2).data = r(t1).data BY <1>9, <1>10, QuietSuffix
<1> HIDE DEF t2
<1>12. r(t3).data = r(t2).data BY <1>6, <1>11, QuietSuffix
<1> HIDE DEF t3
<1> QED BY <1>1, <1>7, <1>8, <1>10, <1>11, <1>12

-----------------------------------------------------------------------------
(* What the agent is asked to show.                                        *)
AskedSecrets == {"password", "cert-pass", "http-proxy-password", "challenge-response"}

LEMMA AskedIs ==
    ASSUME NEW lines, NEW hints,
           NEW needed, needed = needs(read_vpn_details(lines).data, hints),
           needed \subseteq AskedSecrets
    PROVE  Asked(run(lines, hints, TRUE)) = needed
<1>1. CASE needed = {}
  <2>1. run(lines, hints, TRUE) = {<<"no-secret", FALSE>>} BY <1>1 DEF run
  <2>2. <<"no-secret", FALSE>>[2] = FALSE OBVIOUS
  <2>3. Asked(run(lines, hints, TRUE)) = {} BY <2>1, <2>2, Zenon DEF Asked
  <2> QED BY <1>1, <2>3
<1>2. CASE needed # {}
  <2> DEFINE e(s) == <<s, s \in needed /\ TRUE>>
  <2>1. run(lines, hints, TRUE) = {e(s) : s \in AskedSecrets} BY <1>2 DEF run, AskedSecrets
  <2>2. ASSUME NEW s PROVE e(s)[1] = s /\ (e(s)[2] <=> s \in needed) BY Zenon
  <2> HIDE DEF e
  <2>3. Asked({e(s) : s \in AskedSecrets}) = {s \in AskedSecrets : s \in needed}
    BY <2>2 DEF Asked
  <2> QED BY <2>1, <2>3
<1> QED BY <1>1, <1>2

LEMMA AskedByHint ==
    ASSUME NEW lines, NEW h \in DOMAIN KnownHints
    PROVE  Asked(run(lines, {h, "username"}, TRUE)) = {KnownHints[h]}
<1>1. "username" \notin DOMAIN KnownHints BY DEF KnownHints
<1>2. {h, "username"} \cap DOMAIN KnownHints = {h} BY <1>1
<1>3. KnownHints[h] \in AskedSecrets BY DEF KnownHints, AskedSecrets
<1>4. needs(read_vpn_details(lines).data, {h, "username"}) = {KnownHints[h]}
  BY <1>2 DEF needs
<1> DEFINE n == {KnownHints[h]}
           hs == {h, "username"}
<1>5. n \subseteq AskedSecrets BY <1>3
<1> HIDE DEF n, hs
<1>6. n = needs(read_vpn_details(lines).data, hs) BY <1>4 DEF n, hs
<1>7. Asked(run(lines, hs, TRUE)) = n BY <1>5, <1>6, AskedIs
<1> QED BY <1>7 DEF n, hs

LEMMA AskedFirst ==
    ASSUME NEW d, IsItems(d), IsDictionary(d), NEW sc, IsItems(sc), IsFiniteSet(DOMAIN sc)
    PROVE  Asked(run(Details(d, sc), {}, TRUE)) = InferredNeeds(d)
<1>1. read_vpn_details(Details(d, sc)).data = d BY DetailsRead
<1>2. needs(d, {}) = InferredNeeds(d) BY DEF needs
<1>3. InferredNeeds(d) \subseteq AskedSecrets
  <2>1. {"password", "cert-pass", "http-proxy-password"} \subseteq AskedSecrets BY DEF AskedSecrets
  <2> QED BY <2>1 DEF InferredNeeds
<1> QED BY <1>1, <1>2, <1>3, AskedIs

-----------------------------------------------------------------------------
(* What the lines of a profile say about the vpn.data it belongs to.       *)
Claims(K, d) ==
    /\ \A l \in K : l[1] = "auth-user-pass" => IsPasswordLike(d)
    /\ \A l \in K : l[1] = "pkcs12" => NeedsUserCert(d) /\ Is(d, "key", Arg0(l))
    /\ \A l \in K : Supplies(l, "key") /\ (\E m \in K : Supplies(m, "cert"))
                      => NeedsUserCert(d) /\ Is(d, "key", FileOf(l))
    /\ \A l \in K : l[1] = "http-proxy" => Has(d, "proxy-server")

LEMMA FlagBit == ASSUME NEW n \in Int, ~(n % 8 >= 4) PROVE (n \div 4) % 2 = 0
OBVIOUS

LEMMA NotWaived ==
    ASSUME NEW d, NEW s \in {"password", "http-proxy-password"}, s \notin Waived(d)
    PROVE  secret_required_flag(d, FlagKey(s))
<1> DEFINE k == FlagKey(s)
<1>1. SUFFICES ASSUME Has(d, k), d[k] \in Ints PROVE (Number[d[k]] \div 4) % 2 = 0
  BY DEF secret_required_flag
<1>2. ~(Number[d[k]] % 8 >= 4) BY <1>1 DEF Waived
<1>3. Number[d[k]] \in Int BY <1>1, StringAssumption
<1> HIDE DEF k
<1> QED BY <1>2, <1>3, FlagBit

LEMMA HiddenBlob ==
    ASSUME NEW l, Supplies(l, "pkcs12"), FileOf(l) \in Pkcs12
    PROVE  l[1] = "pkcs12" /\ FileOf(l) = Arg0(l)
<1>1. "pkcs12" \in INLINE_BLOB_NAMES BY DEF INLINE_BLOB_NAMES
<1>2. BlobPath["pkcs12"] \notin Pkcs12 BY <1>1, SettingsAssumption
<1>3. ~IsBlob(l) BY <1>2 DEF Supplies, FileOf, IsBlob
<1> QED BY <1>3 DEF Supplies, FileOf

LEMMA NeedsPass ==
    ASSUME NEW d, NeedsUserCert(d), NEW p, Is(d, "key", p),
           p \in Pkcs12 \/ (p \in DOMAIN KeyFiles /\ KeyFiles[p])
    PROVE  "cert-pass" \in InferredNeeds(d)
<1>1. is_encrypted_keyfile_path(d["key"]) BY DEF is_encrypted_keyfile_path, Is
<1> QED BY <1>1 DEF InferredNeeds, NeedsUserCert, Is, Has

(* The secrets of a profile that the first prompt is to ask for.           *)
ToAsk(t, d) ==
    {s \in RequiredSecrets(t) \ Waived(d) : s = "cert-pass" => ~HiddenBundle(t)}

LEMMA ClaimsCover ==
    ASSUME NEW t, NEW d, Claims(Lines(t), d), Has(d, "connection-type")
    PROVE  ToAsk(t, d) \subseteq InferredNeeds(d)
<1> SUFFICES ASSUME NEW s \in RequiredSecrets(t), s \notin Waived(d),
                    s = "cert-pass" => ~HiddenBundle(t)
             PROVE  s \in InferredNeeds(d)
  BY DEF ToAsk
<1>1. CASE s = "password"
  <2>1. \E l \in Lines(t) : l[1] = "auth-user-pass"
    BY <1>1 DEF RequiredSecrets, Lines
  <2>2. IsPasswordLike(d) BY <2>1 DEF Claims
  <2>3. FlagKey(s) = "password-flags" BY <1>1 DEF FlagKey
  <2>4. secret_required_flag(d, "password-flags") BY <1>1, <2>3, NotWaived
  <2> QED BY <1>1, <2>2, <2>4 DEF InferredNeeds, IsPasswordLike
<1>2. CASE s = "http-proxy-password"
  <2>1. \E l \in Lines(t) : l[1] = "http-proxy"
    BY <1>2 DEF RequiredSecrets, Lines
  <2>2. Has(d, "proxy-server") BY <2>1 DEF Claims
  <2>3. FlagKey(s) = "http-proxy-password-flags" BY <1>2 DEF FlagKey
  <2>4. secret_required_flag(d, "http-proxy-password-flags") BY <1>2, <2>3, NotWaived
  <2> QED BY <1>2, <2>2, <2>4 DEF InferredNeeds
<1>3. CASE s = "cert-pass"
  <2>1. \A l \in Lines(t) : Supplies(l, "pkcs12") => FileOf(l) \in Pkcs12
    BY <1>3 DEF HiddenBundle, Lines
  <2>2. \/ \E l \in Lines(t) : Supplies(l, "pkcs12")
        \/ \E l \in Lines(t) :
             /\ Supplies(l, "key")
             /\ \E m \in Lines(t) : Supplies(m, "cert")
             /\ FileOf(l) \in Pkcs12 \/ (FileOf(l) \in DOMAIN KeyFiles /\ KeyFiles[FileOf(l)])
    BY <1>3 DEF RequiredSecrets, Lines
  <2>3. ASSUME NEW l \in Lines(t), Supplies(l, "pkcs12") PROVE s \in InferredNeeds(d)
    <3>1. l[1] = "pkcs12" /\ Arg0(l) \in Pkcs12 BY <2>1, <2>3, HiddenBlob
    <3>2. NeedsUserCert(d) /\ Is(d, "key", Arg0(l)) BY <3>1 DEF Claims
    <3> QED BY <1>3, <3>1, <3>2, NeedsPass
  <2>4. ASSUME NEW l \in Lines(t), Supplies(l, "key"),
               \E m \in Lines(t) : Supplies(m, "cert"),
               FileOf(l) \in Pkcs12 \/ (FileOf(l) \in DOMAIN KeyFiles /\ KeyFiles[FileOf(l)])
        PROVE  s \in InferredNeeds(d)
    <3>1. NeedsUserCert(d) /\ Is(d, "key", FileOf(l)) BY <2>4 DEF Claims
    <3> QED BY <1>3, <2>4, <3>1, NeedsPass
  <2> QED BY <2>2, <2>3, <2>4
<1> QED BY <1>1, <1>2, <1>3 DEF RequiredSecrets

-----------------------------------------------------------------------------
(* The profile that is built.                                              *)
LEMMA ListingLines ==
    ASSUME NEW D, NEW L, L \subseteq D, IsFiniteSet(L), NEW base \in Seq(D)
    PROVE  Listing(base, L) \in Seq(D) /\ Lines(Listing(base, L)) = Lines(base) \cup L
<1>1. PICK f : Collects(f, L, D, base) /\ Listing(base, L) = f[L] BY ListingCollects, Zenon
<1> DEFINE Q == {s \in SUBSET L : f[s] \in Seq(D) /\ Lines(f[s]) = Lines(base) \cup s}
<1>2. {} \in Q BY <1>1 DEF Collects
<1>3. ASSUME NEW s \in SUBSET L, s # {}, \A x \in s : s \ {x} \in Q PROVE s \in Q
  <2>1. PICK x \in s : f[s] = Append(f[s \ {x}], x) BY <1>1, <1>3 DEF Collects
  <2> DEFINE t == f[s \ {x}]
  <2>2. t \in Seq(D) /\ Lines(t) = Lines(base) \cup (s \ {x}) BY <1>3
  <2>3. x \in D OBVIOUS
  <2>4. f[s] = Append(t, x) BY <2>1
  <2> HIDE DEF t
  <2>5. Append(t, x) \in Seq(D) BY <2>2, <2>3, AppendProperties
  <2>6. Lines(Append(t, x)) = Lines(t) \cup {x} BY <2>2, <2>3, LinesAppend
  <2>7. Lines(base) \cup (s \ {x}) \cup {x} = Lines(base) \cup s OBVIOUS
  <2> QED BY <2>2, <2>4, <2>5, <2>6, <2>7
<1>4. Q \in SUBSET SUBSET L OBVIOUS
<1> HIDE DEF Q
<1>5. Q = SUBSET L BY <1>2, <1>3, <1>4, SubsetInduction
<1>6. L \in SUBSET L OBVIOUS
<1>7. f[L] \in Seq(D) /\ Lines(f[L]) = Lines(base) \cup L BY <1>5, <1>6 DEF Q
<1> QED BY <1>1, <1>7

(* The lines the builder writes that the exporter may not: the files where *)
(* the two fold them differently, and the MSS as it prints it.             *)
OwnLines(d) ==
    {<<"pkcs12", d["cert"]>>, <<"ca", d["ca"]>>, <<"cert", d["cert"]>>, <<"key", d["key"]>>,
     <<"mssfix", Decimal[Number[d["mssfix"]]]>>}

BuiltOwn(d, l) ==
    \/ /\ NeedsUserCert(d) /\ Has(d, "cert") /\ Is(d, "key", d["cert"])
       /\ l = <<"pkcs12", d["cert"]>>
    \/ l = <<"ca", d["ca"]>>
    \/ l = <<"cert", d["cert"]>>
    \/ NeedsUserCert(d) /\ Has(d, "key") /\ l = <<"key", d["key"]>>
    \/ l = <<"mssfix", Decimal[Number[d["mssfix"]]]>>

LEMMA BuiltFiles ==
    ASSUME NEW d, NEW l \in BuildFlags(d) \cup BuildCredentials(d)
    PROVE  CredentialLine(d, l) \/ BuiltOwn(d, l)
<1> DEFINE collapse == /\ NeedsUserCert(d) /\ Has(d, "cert") /\ Has(d, "key")
                       /\ d["cert"] = d["key"] /\ d["cert"] \in Pkcs12
           own == {x \in {"ca", "cert", "key"} :
                     /\ Has(d, x)
                     /\ IF x = "ca" THEN IsTlsLike(d) ELSE NeedsUserCert(d)}
           files == IF collapse THEN {<<"pkcs12", d["cert"]>>} ELSE {<<k, d[k]>> : k \in own}
           sec == <<"secret", d["static-key"]>> \o Arg(d, "static-key-direction")
<1>1. CASE l \in BuildFlags(d) BY <1>1 DEF BuildFlags, CredentialLine, ExportedFlags
<1>2. CASE l \in files
  <2>1. CASE collapse BY <1>2, <2>1 DEF BuiltOwn, Is, Has
  <2>2. CASE ~collapse
    <3>1. PICK k \in own : l = <<k, d[k]>> BY <1>2, <2>2
    <3>2. CASE k = "ca" BY <3>1, <3>2 DEF BuiltOwn
    <3>3. CASE k = "cert" BY <3>1, <3>3 DEF BuiltOwn
    <3>4. CASE k = "key" BY <3>1, <3>4 DEF BuiltOwn
    <3> QED BY <3>1, <3>2, <3>3, <3>4
  <2> QED BY <2>1, <2>2
<1>3. CASE IsTlsLike(d) /\ l = <<"client">> BY <1>3 DEF CredentialLine
<1>4. CASE IsPasswordLike(d) /\ l = <<"auth-user-pass">> BY <1>4 DEF CredentialLine
<1>5. CASE IsStaticKey(d) /\ Has(d, "static-key") /\ l = sec
  <2>1. sec = IF Has(d, "static-key-direction")
              THEN <<"secret", d["static-key"], d["static-key-direction"]>>
              ELSE <<"secret", d["static-key"]>>
    BY Joined3, JoinedNothing DEF Arg
  <2> HIDE DEF sec
  <2> QED BY <1>5, <2>1 DEF CredentialLine
<1>6. \/ l \in BuildFlags(d) \/ l \in files
      \/ IsTlsLike(d) /\ l = <<"client">>
      \/ IsPasswordLike(d) /\ l = <<"auth-user-pass">>
      \/ IsStaticKey(d) /\ Has(d, "static-key") /\ l = sec
  <2> HIDE DEF files, sec
  <2>1. BuildCredentials(d)
          = (IF IsTlsLike(d) THEN {<<"client">>} ELSE {}) \cup files
            \cup (IF IsPasswordLike(d) THEN {<<"auth-user-pass">>} ELSE {})
            \cup (IF IsStaticKey(d) /\ Has(d, "static-key") THEN {sec} ELSE {})
    BY Zenon DEF BuildCredentials, files, sec
  <2> QED BY <2>1
<1> QED BY <1>1, <1>2, <1>3, <1>4, <1>5, <1>6

LEMMA BuiltPairs ==
    ASSUME NEW d, NEW l \in line_str(d, BuildStrings) \cup line_int(d, BuildNumbers)
    PROVE  PairLine(d, l, pairs_str)
<1>1. pairs_str = BuildStrings \cup BuildNumbers
  BY DEF pairs_str, BuildStrings, BuildNumbers
<1> QED BY <1>1 DEF line_str, line_int, PairLine

LEMMA BuiltTunnel ==
    ASSUME NEW d, NEW l \in BuildCompression(d) \cup BuildMssfix(d)
    PROVE  TunnelLine(d, l) \/ BuiltOwn(d, l)
<1>1. CASE l \in BuildCompression(d)
  <2>1. Compressing(d) BY <1>1 DEF BuildCompression, Compressing
  <2>2. \/ /\ Has(d, "comp-lzo")
           /\ l = <<"comp-lzo", IF d["comp-lzo"] = "no-by-default" THEN "no" ELSE d["comp-lzo"]>>
        \/ /\ Has(d, "compress")
           /\ l = IF d["compress"] = "yes" THEN <<"compress">> ELSE <<"compress", d["compress"]>>
    BY <1>1, <2>1 DEF BuildCompression, Compressing
  <2> QED BY <2>1, <2>2 DEF TunnelLine, Yes, Is, Has
<1>2. CASE l \in BuildMssfix(d)
  BY <1>2 DEF BuildMssfix, TunnelLine, BuiltOwn
<1> QED BY <1>1, <1>2

LEMMA BuiltLines ==
    ASSUME NEW d, NEW l \in build_profile_string(d).lines
    PROVE  ExportedLine(d, l) \/ BuiltOwn(d, l)
<1> DEFINE crl == IF ~IsTlsLike(d) THEN {}
                  ELSE IF Has(d, "crl-verify-file")
                  THEN {<<"crl-verify", d["crl-verify-file"]>>}
                  ELSE IF Has(d, "crl-verify-dir")
                  THEN {<<"crl-verify", d["crl-verify-dir"], "dir">>} ELSE {}
           dev == {<<"dev", IF Has(d, "dev") THEN d["dev"]
                            ELSE IF Has(d, "dev-type") THEN d["dev-type"]
                            ELSE IF Yes(d, "tap-dev") THEN "tap" ELSE "tun">>,
                   <<"proto", IF Yes(d, "proto-tcp") THEN "tcp" ELSE "udp">>}
           addr == IF Has(d, "local-ip") /\ Has(d, "remote-ip")
                   THEN {<<"ifconfig", d["local-ip"], d["remote-ip"]>>} ELSE {}
           type == line_str(d, {<<"dev-type", "dev-type">>})
<1>1. BuildDevice(d) = crl \cup dev \cup type \cup addr BY Zenon DEF BuildDevice
<1>2. ExportTls(d) = BuildTls(d) \cup crl BY SameTls, Zenon
<1>3. ExportTail(d) = dev \cup type \cup BuildProxy(d) \cup BuildTail
  BY SameTail, Zenon
<1>4. l \in addr => TunnelLine(d, l) BY DEF TunnelLine
<1> HIDE DEF crl, dev, addr, type
<1>5. build_profile_string(d).lines
        = BuildFlags(d) \cup BuildCredentials(d)
            \cup line_str(d, BuildStrings) \cup line_int(d, BuildNumbers)
            \cup BuildCompression(d) \cup BuildMssfix(d)
            \cup BuildDevice(d) \cup BuildTls(d) \cup BuildProxy(d) \cup BuildTail
  BY DEF build_profile_string, Profile
<1>6. CASE l \in BuildFlags(d) \cup BuildCredentials(d)
  BY <1>6, BuiltFiles DEF ExportedLine
<1>7. CASE l \in line_str(d, BuildStrings) \cup line_int(d, BuildNumbers)
  BY <1>7, BuiltPairs DEF ExportedLine
<1>8. CASE l \in BuildCompression(d) \cup BuildMssfix(d)
  BY <1>8, BuiltTunnel DEF ExportedLine
<1>9. CASE l \in ExportTls(d) BY <1>9, TlsLines DEF ExportedLine
<1>10. CASE l \in ExportTail(d) BY <1>10, TailLines DEF ExportedLine
<1>11. CASE l \in addr BY <1>4, <1>11 DEF ExportedLine
<1> QED BY <1>1, <1>2, <1>3, <1>5, <1>6, <1>7, <1>8, <1>9, <1>10, <1>11

LEMMA FiniteBuild == ASSUME NEW d PROVE IsFiniteSet(build_profile_string(d).lines)
<1> DEFINE L == build_profile_string(d).lines
           E == from_nm_data(d).lines
           O == OwnLines(d)
<1>1. L \subseteq E \cup O
  <2> SUFFICES ASSUME NEW l \in L PROVE l \in E \cup O OBVIOUS
  <2>1. CASE ExportedLine(d, l) BY <2>1, ExportLines
  <2>2. CASE BuiltOwn(d, l) BY <2>2 DEF BuiltOwn, OwnLines
  <2> QED BY <2>1, <2>2, BuiltLines
<1>2. IsFiniteSet(O) BY FiniteFew DEF OwnLines
<1>3. IsFiniteSet(E) BY FiniteExport
<1> HIDE DEF L, E, O
<1>4. IsFiniteSet(E \cup O) BY <1>2, <1>3, FiniteJoin
<1>5. IsFiniteSet(L) BY <1>1, <1>4, FS_Subset
<1> QED BY <1>5 DEF L

ListNames == RouteNames \cup {"remote"}

LEMMA ListLines ==
    ASSUME NEW d, Sound(d), NEW l \in Lines(ExportRemotes(d)) \cup Lines(ExportRoutes(d))
    PROVE  l[1] \in ListNames
<1>1. CASE l \in Lines(ExportRoutes(d)) BY <1>1, ExportRouteNames DEF ListNames
<1>2. CASE l \in Lines(ExportRemotes(d))
  <2> DEFINE r == ExportRemotes(d)
  <2>1. r \in Seq(RemoteLines) BY ExportRemotesType
  <2> HIDE DEF r
  <2>2. PICK i \in DOMAIN r : l = r[i] BY <1>2 DEF Lines, r
  <2>3. l \in RemoteLines BY <2>1, <2>2, ElementOfSeq, LenProperties
  <2> QED BY <2>3 DEF RemoteLines, ListNames
<1> QED BY <1>1, <1>2

LEMMA ExportedText ==
    ASSUME NEW d, Sound(d), NEW l \in Lines(emit(from_nm_data(d)))
    PROVE  ExportedLine(d, l) \/ l[1] \in ListNames
<1> DEFINE p == from_nm_data(d)
<1>1. Regular(p) BY ExportRegular
<1>2. p.remotes = ExportRemotes(d) /\ p.routes = ExportRoutes(d)
  BY DEF from_nm_data, Profile
<1>3. l \in p.lines <=> ExportedLine(d, l) BY ExportLines
<1>4. l \in Lines(emit(p)) OBVIOUS
<1> HIDE DEF p
<1>5. Lines(emit(p)) = Lines(p.remotes) \cup Lines(p.routes) \cup p.lines BY <1>1, EmitReads
<1> QED BY <1>2, <1>3, <1>4, <1>5, ListLines

LEMMA BuiltText ==
    ASSUME NEW d, Sound(d), Has(d, "remote"), NEW l \in Lines(emit(build_profile_string(d)))
    PROVE  ExportedLine(d, l) \/ BuiltOwn(d, l) \/ l[1] \in ListNames
<1> DEFINE p == build_profile_string(d)
           r == p.remotes
           h == p.routes
           b == r \o InOrder(h)
           L == p.lines
           D == Directives \cup L
<1>1. r = ExportRemotes(d) /\ h = ExportRoutes(d)
  <2>1. r = BuildRemotes(d) /\ h = BuildRoutes(d) BY DEF build_profile_string, Profile
  <2> QED BY <2>1, SameRemotes, SameRoutes
<1>2. emit(p) = Listing(b, L) BY DEF emit, Listing
<1>3. IsFiniteSet(L) /\ (l \in L => ExportedLine(d, l) \/ BuiltOwn(d, l))
  BY FiniteBuild, BuiltLines
<1>4. l \in Lines(emit(p)) OBVIOUS
<1> HIDE DEF p, r, h, b, L
<1>5. r \in Seq(RemoteLines) /\ Listed(h, RouteDirectives)
  BY <1>1, ExportRemotesType, ExportRoutesListed
<1>6. r \in Seq(Directives) /\ Read(r).routes = <<>> BY <1>5, RemotesRead DEF RemotesReadAs
<1>7. RoutesReadAs(r, h, DOMAIN h) BY <1>5, <1>6, RoutesRead
<1>8. Part(h, DOMAIN h) = h BY <1>5 DEF Listed, Part
<1>9. b \in Seq(Directives) /\ Lines(b) = Lines(r) \cup Lines(h)
  BY <1>7, <1>8 DEF RoutesReadAs, b, Lines
<1>10. b \in Seq(D) /\ L \subseteq D
  <2>1. Directives \subseteq D /\ L \subseteq D OBVIOUS
  <2> HIDE DEF D
  <2> QED BY <1>9, <2>1, SeqWider
<1>11. Lines(Listing(b, L)) = Lines(b) \cup L BY <1>3, <1>10, ListingLines
<1> QED BY <1>1, <1>2, <1>3, <1>4, <1>9, <1>11, ListLines

(* Every such line speaks for the vpn.data it was written from.            *)
LineClaims(d, l) ==
    /\ l[1] = "auth-user-pass" => IsPasswordLike(d)
    /\ l[1] \in {"pkcs12", "key"} => NeedsUserCert(d) /\ Is(d, "key", Arg0(l))
    /\ l[1] = "http-proxy" => Has(d, "proxy-server")
    /\ ~IsBlob(l)

Unclaimed == {"auth-user-pass", "pkcs12", "key", "http-proxy", "<>"}

LEMMA NothingClaimed == ASSUME NEW d, NEW l, l[1] \notin Unclaimed PROVE LineClaims(d, l)
BY DEF LineClaims, Unclaimed, IsBlob

LEMMA NamedClaim ==
    ASSUME NEW d, NEW k \in {"pkcs12", "key"}, NEW v, NeedsUserCert(d), Is(d, "key", v)
    PROVE  LineClaims(d, <<k, v>>)
<1> DEFINE l == <<k, v>>
<1>1. l[1] = k /\ Arg0(l) = v BY LineArgs
<1> HIDE DEF l
<1>2. LineClaims(d, l) BY <1>1 DEF LineClaims, IsBlob
<1> QED BY <1>2 DEF l

LEMMA CredentialClaims ==
    ASSUME NEW d, NEW l, CredentialLine(d, l) PROVE LineClaims(d, l)
<1>1. CASE \E f \in ExportedFlags : Yes(d, f) /\ l = <<f>>
  <2>1. PICK f \in ExportedFlags : l = <<f>> BY <1>1
  <2>2. l[1] = f BY <2>1
  <2>3. l[1] \notin Unclaimed BY <2>2 DEF ExportedFlags, Unclaimed
  <2> QED BY <2>3, NothingClaimed
<1>2. CASE l = <<"client">>
  <2>1. l[1] \notin Unclaimed BY <1>2 DEF Unclaimed
  <2> QED BY <2>1, NothingClaimed
<1>3. CASE Folded(d) /\ l = <<"pkcs12", d["cert"]>>
  <2>1. NeedsUserCert(d) /\ Is(d, "key", d["cert"]) BY <1>3 DEF Folded, Is, Has
  <2> QED BY <1>3, <2>1, NamedClaim
<1>4. CASE l = <<"ca", d["ca"]>> \/ l = <<"cert", d["cert"]>>
  <2>1. l[1] \notin Unclaimed BY <1>4 DEF Unclaimed
  <2> QED BY <2>1, NothingClaimed
<1>5. CASE NeedsUserCert(d) /\ Has(d, "key") /\ l = <<"key", d["key"]>>
  <2>1. Is(d, "key", d["key"]) BY <1>5 DEF Is, Has
  <2> QED BY <1>5, <2>1, NamedClaim
<1>6. CASE IsPasswordLike(d) /\ l = <<"auth-user-pass">>
  <2>1. l[1] = "auth-user-pass" BY <1>6
  <2> QED BY <1>6, <2>1 DEF LineClaims, IsBlob
<1>7. CASE l = IF Has(d, "static-key-direction")
               THEN <<"secret", d["static-key"], d["static-key-direction"]>>
               ELSE <<"secret", d["static-key"]>>
  <2>1. l[1] = "secret" BY <1>7
  <2>2. l[1] \notin Unclaimed BY <2>1 DEF Unclaimed
  <2> QED BY <2>2, NothingClaimed
<1> QED BY <1>1, <1>2, <1>3, <1>4, <1>5, <1>6, <1>7, Zenon DEF CredentialLine

LEMMA OnlyTailProxy ==
    ASSUME NEW d, NEW l, Sound(d), l[1] = "http-proxy",
           PairLine(d, l, pairs_str) \/ TunnelLine(d, l) \/ TlsLine(d, l) \/ TailLine(d, l)
    PROVE  TailLine(d, l)
<1>1. ~PairLine(d, l, pairs_str) BY DEF PairLine, pairs_str
<1>2. ~TunnelLine(d, l) BY DEF TunnelLine
<1>3. ~TlsLine(d, l)
  <2>1. CASE Has(d, "verify-x509-name") /\ l = BuildX509(d["verify-x509-name"])
    <3>1. l[1] = "verify-x509-name" BY <2>1, X509Harmless DEF Sound
    <3> QED BY <3>1
  <2>2. ~PairLine(d, l, TlsPairs) BY DEF PairLine, TlsPairs
  <2>3. CASE ~(Has(d, "verify-x509-name") /\ l = BuildX509(d["verify-x509-name"]))
    BY <2>2, <2>3 DEF TlsLine
  <2> QED BY <2>1, <2>3
<1> QED BY <1>1, <1>2, <1>3

LEMMA ExportedClaims ==
    ASSUME NEW d, NEW l, Sound(d), ExportedLine(d, l) PROVE LineClaims(d, l)
<1>1. CASE CredentialLine(d, l) BY <1>1, CredentialClaims
<1>2. CASE ~CredentialLine(d, l)
  <2>1. l[1] \notin PlainNames BY <1>2, OtherExportedNames DEF ExportedLine
  <2>2. l[1] \notin {"auth-user-pass", "pkcs12", "key", "<>"} BY <2>1 DEF PlainNames
  <2>3. ASSUME l[1] = "http-proxy" PROVE Has(d, "proxy-server")
    <3>1. TailLine(d, l) BY <1>2, <2>3, OnlyTailProxy DEF ExportedLine
    <3> QED BY <2>3, <3>1 DEF TailLine, BuildTail
  <2> QED BY <2>2, <2>3 DEF LineClaims, IsBlob
<1> QED BY <1>1, <1>2

LEMMA OwnClaims == ASSUME NEW d, NEW l, BuiltOwn(d, l) PROVE LineClaims(d, l)
<1>1. CASE NeedsUserCert(d) /\ Is(d, "key", d["cert"]) /\ l = <<"pkcs12", d["cert"]>>
  BY <1>1, NamedClaim
<1>2. CASE NeedsUserCert(d) /\ Has(d, "key") /\ l = <<"key", d["key"]>>
  <2>1. Is(d, "key", d["key"]) BY <1>2 DEF Is, Has
  <2> QED BY <1>2, <2>1, NamedClaim
<1>3. CASE \/ l = <<"ca", d["ca"]>> \/ l = <<"cert", d["cert"]>>
           \/ l = <<"mssfix", Decimal[Number[d["mssfix"]]]>>
  <2>1. l[1] \notin Unclaimed BY <1>3 DEF Unclaimed
  <2> QED BY <2>1, NothingClaimed
<1> QED BY <1>1, <1>2, <1>3, Zenon DEF BuiltOwn

LEMMA ListClaims == ASSUME NEW d, NEW l, l[1] \in ListNames PROVE LineClaims(d, l)
<1>1. l[1] \notin Unclaimed BY DEF ListNames, RouteNames, Unclaimed
<1> QED BY <1>1, NothingClaimed

LEMMA AllClaimed ==
    ASSUME NEW K, NEW d, \A l \in K : LineClaims(d, l) PROVE Claims(K, d)
BY DEF Claims, LineClaims, Supplies, FileOf

LEMMA BuiltClaims ==
    ASSUME NEW d, Sound(d), Has(d, "remote")
    PROVE  Claims(Lines(emit(build_profile_string(d))), d)
<1> DEFINE K == Lines(emit(build_profile_string(d)))
<1>1. ASSUME NEW l \in K PROVE LineClaims(d, l)
  BY <1>1, BuiltText, ExportedClaims, OwnClaims, ListClaims
<1> HIDE DEF K
<1>2. Claims(K, d) BY <1>1, AllClaimed
<1> QED BY <1>2 DEF K

LEMMA ExportClaims ==
    ASSUME NEW d, Sound(d) PROVE Claims(Lines(emit(from_nm_data(d))), d)
<1> DEFINE K == Lines(emit(from_nm_data(d)))
<1>1. ASSUME NEW l \in K PROVE LineClaims(d, l)
  BY <1>1, ExportedText, ExportedClaims, ListClaims
<1> HIDE DEF K
<1>2. Claims(K, d) BY <1>1, AllClaimed
<1> QED BY <1>2 DEF K

-----------------------------------------------------------------------------
(* The file that is imported.                                              *)
Mode(K) ==
    /\ \A l, m \in K : KeySource(l) /\ KeySource(m) => l = m
    /\ \A l \in K : l[1] \in {"cert", "key", "pkcs12", "http-proxy"} => Arg0(l) # ""
    /\ \A l, m \in K : ~(Supplies(l, "secret") /\ TlsSource(m))

LEMMA ModeIs == ASSUME NEW t PROVE OneMode(t) <=> Mode(Lines(t))
BY DEF OneMode, Mode, Lines

LEMMA GivenStays ==
    ASSUME NEW t \in Seq(Directives), NEW l \in Lines(t), NEW x \in {"key", "proxy-server"},
           NEW v, Gives(l, x, v)
    PROVE  x \in DOMAIN Read(t).data
<1>1. PICK i \in DOMAIN t : l = t[i] BY DEF Lines
<1>2. l \in Directives BY <1>1, ElementOfSeq, LenProperties
<1>3. x \in DOMAIN One(t[i]).data BY <1>1, <1>2, OneItems DEF Holds
<1>4. \A j \in DOMAIN t : x \notin Removed(t[j]) BY DEF Removed
<1>5. ReadFrom(t) BY ReadItems
<1> QED BY <1>1, <1>3, <1>4, <1>5 DEF ReadFrom

LEMMA KeyGiven ==
    ASSUME NEW m, NEW v, Gives(m, "key", v)
    PROVE  m[1] \in {"key", "pkcs12"} /\ v = Arg0(m)
<1>1. ~GivesPlain(m, "key", v)
  <2>1. \A n \in DOMAIN Copied : Copied[n] # "key" BY DEF Copied
  <2>2. "key" \notin Flags BY DEF Flags
  <2> QED BY <2>1, <2>2 DEF GivesPlain
<1>2. ~GivesProxy(m, "key", v) BY DEF GivesProxy
<1>3. ~GivesTunnel(m, "key", v) BY DEF GivesTunnel
<1>4. GivesCredential(m, "key", v) BY <1>1, <1>2, <1>3 DEF Gives
<1> QED BY <1>4 DEF GivesCredential

LEMMA ProxyLineGives ==
    ASSUME NEW l, l[1] = "http-proxy", Arg0(l) # "" PROVE Gives(l, "proxy-server", Arg0(l))
BY DEF Gives, GivesProxy, Proxies

(* An item of these comes from the directives and stays.                   *)
LEMMA ImportedItem ==
    ASSUME NEW t, Legible(t), parses(t), NEW lost, NEW auth,
           NEW x \in {"key", "proxy-server"}, NEW l \in Lines(t), NEW v, Gives(l, x, v)
    PROVE  /\ x \in DOMAIN Read(t).data
           /\ Has(ImportedData(t, lost, auth), x)
           /\ (\A m \in Lines(t) : ~BlobFor(m, x))
                => ImportedData(t, lost, auth)[x] = Read(t).data[x]
<1> DEFINE n == ImportedData(t, lost, auth)
           a == as_nm_data(t)
           ks == {"ta-dir", "static-key-direction", "remote", "nm-openvpn3-extra-routes",
                  "connection-type"}
<1>1. t \in Seq(Directives) BY DEF Legible
<1>2. x \in DOMAIN Read(t).data BY <1>1, GivenStays
<1>3. Fills(n, a, t) BY ImportedFills
<1>4. Agrees(a, Read(t).data, ks) BY ImportIs DEF ImportsAs
<1> HIDE DEF n, a
<1>5. x \notin ks BY DEF ks
<1>6. x \notin ExtraKeys \cup {"http-proxy-auth-file"} BY DEF ExtraKeys
<1> HIDE DEF ks
<1>7. x \in DOMAIN a /\ a[x] = Read(t).data[x] BY <1>2, <1>4, <1>5 DEF Agrees
<1>8. x \in DOMAIN n BY <1>3, <1>6, <1>7 DEF Fills
<1>9. ASSUME \A m \in Lines(t) : ~BlobFor(m, x) PROVE n[x] = a[x]
  <2>1. \A i \in DOMAIN t : ~BlobFor(t[i], x) BY <1>9 DEF Lines
  <2> QED BY <1>3, <1>6, <1>7, <2>1 DEF Fills
<1> QED BY <1>2, <1>7, <1>8, <1>9 DEF n, Has

LEMMA ImportedType ==
    ASSUME NEW t, Legible(t), parses(t), NEW lost, NEW auth
    PROVE  Is(ImportedData(t, lost, auth), "connection-type", InferContype(Read(t).have))
<1> DEFINE n == ImportedData(t, lost, auth)
           a == as_nm_data(t)
           x == "connection-type"
<1>1. Fills(n, a, t) BY ImportedFills
<1>2. Is(a, x, InferContype(Read(t).have)) BY ImportIs DEF ImportsAs
<1>3. t \in Seq(Accepted) BY AcceptedText DEF Legible
<1> HIDE DEF n, a
<1>4. ASSUME NEW i \in DOMAIN t PROVE ~BlobFor(t[i], x)
  <2>1. t[i] \in Accepted BY <1>3, ElementOfSeq, LenProperties
  <2>2. IsBlob(t[i]) => t[i][2] \in INLINE_BLOB_NAMES BY <2>1 DEF Accepted
  <2>3. \A b \in INLINE_BLOB_NAMES : x \notin BlobKeys(b) BY DEF INLINE_BLOB_NAMES, BlobKeys
  <2> QED BY <2>2, <2>3 DEF BlobFor
<1>5. x \notin ExtraKeys \cup {"http-proxy-auth-file"} BY DEF ExtraKeys
<1> HIDE DEF x
<1>6. x \in DOMAIN a /\ a[x] = InferContype(Read(t).have) BY <1>2 DEF Is
<1>7. x \in DOMAIN n /\ n[x] = a[x] BY <1>1, <1>4, <1>5, <1>6 DEF Fills
<1> QED BY <1>6, <1>7 DEF Is, n, x

LEMMA BlobName == ASSUME NEW m \in Directives, IsBlob(m) PROVE Arg0(m) = m[2]
<1>1. Len(m) = 2 BY DEF Directives
<1> QED BY <1>1 DEF Arg0

LEMMA WhoTellsSecret ==
    ASSUME NEW m \in Directives, "secret" \in Tells(m) PROVE Supplies(m, "secret")
<1>1. m[1] = "secret" \/ (m[1] = "<>" /\ Arg0(m) = "secret") BY DEF Tells
<1>2. IsBlob(m) => Arg0(m) = m[2] BY BlobName
<1> QED BY <1>1, <1>2 DEF Supplies, IsBlob

LEMMA FileShows ==
    ASSUME NEW t \in Seq(Directives), Mode(Lines(t)), NEW l \in Lines(t)
    PROVE  /\ Tells(l) \subseteq Read(t).have
           /\ TlsSource(l) => "secret" \notin Read(t).have
<1>1. Read(t).have = UNION {Tells(m) : m \in Lines(t)} BY ReadGives DEF ReadsAs
<1>2. \A m \in Lines(t) : m \in Directives BY ElementOfSeq, LenProperties DEF Lines
<1>3. ASSUME TlsSource(l), "secret" \in Read(t).have PROVE FALSE
  <2>1. PICK m \in Lines(t) : "secret" \in Tells(m) BY <1>1, <1>3
  <2>2. Supplies(m, "secret") BY <1>2, <2>1, WhoTellsSecret
  <2> QED BY <1>3, <2>2 DEF Mode
<1> QED BY <1>1, <1>3

LEMMA LineTells ==
    ASSUME NEW l \in Directives, l[1] \in {"cert", "key", "pkcs12"} => Arg0(l) # ""
    PROVE  /\ l[1] = "auth-user-pass" => Tells(l) = {"auth-user-pass"}
           /\ \A x \in {"cert", "key"} : Supplies(l, x) => x \in Tells(l)
           /\ l[1] = "pkcs12" => {"cert", "key"} \subseteq Tells(l)
<1>1. IsBlob(l) => Arg0(l) = l[2] BY BlobName
<1>2. ASSUME NEW x \in {"cert", "key"}, Supplies(l, x) PROVE x \in Tells(l)
  <2>1. CASE l[1] = x BY <1>2, <2>1 DEF Tells
  <2>2. CASE l[1] = "<>" /\ Arg0(l) = x BY <1>2, <2>2 DEF Tells
  <2> QED BY <1>1, <1>2, <2>1, <2>2 DEF Supplies, IsBlob
<1> QED BY <1>2 DEF Tells

LEMMA Inferred ==
    ASSUME NEW have, "secret" \notin have
    PROVE  /\ "auth-user-pass" \in have => InferContype(have) \in {"password", "password-tls"}
           /\ {"cert", "key"} \subseteq have => InferContype(have) \in {"tls", "password-tls"}
BY DEF InferContype

(* The key item of an imported connection is that of its one key line.     *)
LEMMA ImportedKey ==
    ASSUME NEW t, Legible(t), parses(t), Mode(Lines(t)), NEW lost, NEW auth,
           NEW l \in Lines(t), KeySource(l), Has(ImportedData(t, lost, auth), "key")
    PROVE  Is(ImportedData(t, lost, auth), "key", FileOf(l))
<1> DEFINE n == ImportedData(t, lost, auth)
           a == as_nm_data(t)
           ks == {"ta-dir", "static-key-direction", "remote", "nm-openvpn3-extra-routes",
                  "connection-type"}
<1>1. Fills(n, a, t) BY ImportedFills
<1>2. Agrees(a, Read(t).data, ks) BY ImportIs DEF ImportsAs
<1>3. ReadsAs(t) BY ReadGives DEF Legible
<1>4. "key" \in DOMAIN n BY DEF Has
<1>5. \A m \in Lines(t) : KeySource(m) => m = l BY DEF Mode
<1> HIDE DEF n, a
<1>6. "key" \notin ks /\ "key" \notin ExtraKeys BY DEF ks, ExtraKeys
<1> HIDE DEF ks
<1>7. CASE "key" \in DOMAIN a /\ n["key"] = a["key"]
  <2>1. "key" \in DOMAIN Read(t).data /\ a["key"] = Read(t).data["key"]
    BY <1>2, <1>6, <1>7 DEF Agrees
  <2>2. PICK m \in Lines(t) : Gives(m, "key", Read(t).data["key"]) BY <1>3, <2>1 DEF ReadsAs
  <2>3. m[1] \in {"key", "pkcs12"} /\ Read(t).data["key"] = Arg0(m) BY <2>2, KeyGiven
  <2>4. m = l BY <1>5, <2>3 DEF KeySource, Supplies
  <2>5. FileOf(l) = Arg0(l) BY <2>3, <2>4 DEF FileOf, IsBlob
  <2> QED BY <1>4, <1>7, <2>1, <2>3, <2>4, <2>5 DEF Is, n
<1>8. ASSUME NEW i \in DOMAIN t, BlobFor(t[i], "key"), n["key"] = BlobPath[t[i][2]]
      PROVE  Is(n, "key", FileOf(l))
  <2>1. IsBlob(t[i]) /\ t[i][2] \in {"key", "pkcs12"} BY <1>8 DEF BlobFor, BlobKeys
  <2>2. t[i] \in Lines(t) BY DEF Lines
  <2>3. t[i] = l BY <1>5, <2>1, <2>2 DEF KeySource, Supplies
  <2>4. FileOf(l) = BlobPath[t[i][2]] BY <2>1, <2>3 DEF FileOf
  <2> QED BY <1>4, <1>8, <2>4 DEF Is
<1>9. \/ "key" \in DOMAIN a /\ n["key"] = a["key"]
      \/ \E i \in DOMAIN t : BlobFor(t[i], "key") /\ n["key"] = BlobPath[t[i][2]]
  BY <1>1, <1>4, <1>6 DEF Fills
<1> QED BY <1>7, <1>8, <1>9 DEF n

LEMMA ImportClaims ==
    ASSUME NEW t, Legible(t), parses(t), Mode(Lines(t)), NEW lost, NEW auth,
           \A b \in Blobs(t) : Has(ImportedData(t, lost, auth), b)
    PROVE  Claims(Lines(t), ImportedData(t, lost, auth))
<1> DEFINE n == ImportedData(t, lost, auth)
           K == Lines(t)
           have == Read(t).have
<1>1. t \in Seq(Directives) BY DEF Legible
<1>2. Is(n, "connection-type", InferContype(have)) BY ImportedType
<1>3. \A l \in K : l \in Directives BY <1>1, ElementOfSeq, LenProperties DEF Lines
<1>4. \A l \in K : l[1] \in {"cert", "key", "pkcs12", "http-proxy"} => Arg0(l) # "" BY DEF Mode
<1>5. \A l \in K : Tells(l) \subseteq have /\ (TlsSource(l) => "secret" \notin have)
  BY <1>1, FileShows
<1>6. ASSUME NEW x \in {"key", "proxy-server"}, NEW l \in K, NEW v, Gives(l, x, v)
      PROVE  Has(n, x)
  BY <1>6, ImportedItem
<1>7. ASSUME NEW l \in K, KeySource(l), Has(n, "key") PROVE Is(n, "key", FileOf(l))
  BY <1>7, ImportedKey
<1>8. ASSUME NEW l \in K, IsBlob(l) PROVE Has(n, l[2])
  <2>1. l[2] \in Blobs(t) BY <1>8 DEF Blobs, Lines
  <2> QED BY <2>1
<1> HIDE DEF n, K, have
<1>9. ASSUME NEW l \in K, l[1] = "auth-user-pass" PROVE IsPasswordLike(n)
  <2>1. "auth-user-pass" \in have /\ "secret" \notin have
    BY <1>3, <1>4, <1>5, <1>9, LineTells DEF TlsSource
  <2>2. InferContype(have) \in {"password", "password-tls"} BY <2>1, Inferred
  <2> QED BY <1>2, <2>2 DEF IsPasswordLike, Is, Has
<1>10. ASSUME NEW l \in K, KeySource(l), {"cert", "key"} \subseteq have, Has(n, "key")
       PROVE  NeedsUserCert(n) /\ Is(n, "key", FileOf(l))
  <2>1. "secret" \notin have BY <1>5, <1>10 DEF TlsSource
  <2>2. InferContype(have) \in {"tls", "password-tls"} BY <1>10, <2>1, Inferred
  <2>3. NeedsUserCert(n) BY <1>2, <2>2 DEF NeedsUserCert, Is, Has
  <2> QED BY <1>7, <1>10, <2>3
<1>11. ASSUME NEW l \in K, l[1] \in {"key", "pkcs12"} PROVE Has(n, "key")
  <2>1. Arg0(l) # "" BY <1>4, <1>11
  <2>2. Gives(l, "key", Arg0(l)) BY <1>11, <2>1 DEF Gives, GivesCredential
  <2> QED BY <1>6, <2>2
<1>12. ASSUME NEW l \in K, l[1] = "pkcs12" PROVE NeedsUserCert(n) /\ Is(n, "key", Arg0(l))
  <2>1. KeySource(l) /\ FileOf(l) = Arg0(l) BY <1>12 DEF KeySource, Supplies, FileOf, IsBlob
  <2>2. {"cert", "key"} \subseteq have BY <1>3, <1>4, <1>5, <1>12, LineTells
  <2> QED BY <1>10, <1>11, <1>12, <2>1, <2>2
<1>13. ASSUME NEW l \in K, NEW m \in K, Supplies(l, "key"), Supplies(m, "cert")
       PROVE  NeedsUserCert(n) /\ Is(n, "key", FileOf(l))
  <2>1. KeySource(l) BY <1>13 DEF KeySource
  <2>2. "key" \in Tells(l) /\ "cert" \in Tells(m) BY <1>3, <1>4, <1>13, LineTells
  <2>3. {"cert", "key"} \subseteq have BY <1>5, <2>2
  <2>4. Has(n, "key") BY <1>8, <1>11, <1>13 DEF Supplies
  <2> QED BY <1>10, <2>1, <2>3, <2>4
<1>14. ASSUME NEW l \in K, l[1] = "http-proxy" PROVE Has(n, "proxy-server")
  <2>1. Arg0(l) # "" BY <1>4, <1>14
  <2>2. Gives(l, "proxy-server", Arg0(l)) BY <1>14, <2>1, ProxyLineGives
  <2> QED BY <1>6, <2>2
<1>15. Claims(K, n) BY <1>9, <1>12, <1>13, <1>14 DEF Claims
<1> QED BY <1>15 DEF K, n

-----------------------------------------------------------------------------
(* A file that is exported has one private key and one mode as well.       *)
LineMode(d, l) ==
    /\ l[1] = "key" => ~Folded(d) /\ l = <<"key", d["key"]>>
    /\ l[1] = "pkcs12" => Folded(d) /\ l = <<"pkcs12", d["cert"]>>
    /\ l[1] \in {"cert", "key", "pkcs12", "http-proxy"} => Arg0(l) # ""
    /\ l[1] = "secret" => IsStaticKey(d)
    /\ l[1] \in {"auth-user-pass", "cert", "key", "pkcs12"} => ~IsStaticKey(d)
    /\ l[1] # "<>"

ModeNames == {"key", "pkcs12", "cert", "http-proxy", "secret", "auth-user-pass", "<>"}

LEMMA NoModeLine == ASSUME NEW d, NEW l, l[1] \notin ModeNames PROVE LineMode(d, l)
BY DEF LineMode, ModeNames

LEMMA AllMode == ASSUME NEW K, NEW d, \A l \in K : LineMode(d, l) PROVE Mode(K)
<1>1. \A l \in K : ~IsBlob(l) BY DEF LineMode, IsBlob
<1>2. ASSUME NEW l \in K, NEW m \in K, KeySource(l), KeySource(m) PROVE l = m
  <2>1. l[1] \in {"key", "pkcs12"} /\ m[1] \in {"key", "pkcs12"} BY <1>1, <1>2 DEF KeySource, Supplies
  <2>2. LineMode(d, l) /\ LineMode(d, m) OBVIOUS
  <2>3. CASE Folded(d)
    <3>1. l = <<"pkcs12", d["cert"]>> BY <2>1, <2>2, <2>3, Zenon DEF LineMode
    <3>2. m = <<"pkcs12", d["cert"]>> BY <2>1, <2>2, <2>3, Zenon DEF LineMode
    <3> QED BY <3>1, <3>2, Zenon
  <2>4. CASE ~Folded(d)
    <3>1. l = <<"key", d["key"]>> BY <2>1, <2>2, <2>4, Zenon DEF LineMode
    <3>2. m = <<"key", d["key"]>> BY <2>1, <2>2, <2>4, Zenon DEF LineMode
    <3> QED BY <3>1, <3>2, Zenon
  <2> QED BY <2>3, <2>4
<1>3. \A l \in K : l[1] \in {"cert", "key", "pkcs12", "http-proxy"} => Arg0(l) # ""
  BY DEF LineMode
<1>4. \A l, m \in K : ~(Supplies(l, "secret") /\ TlsSource(m))
  BY <1>1 DEF LineMode, Supplies, TlsSource, KeySource
<1> QED BY <1>2, <1>3, <1>4 DEF Mode

LEMMA NotStatic ==
    ASSUME NEW d, NeedsUserCert(d) \/ IsPasswordLike(d) PROVE ~IsStaticKey(d)
BY DEF NeedsUserCert, IsPasswordLike, IsStaticKey, Is, Has

LEMMA FileMode ==
    ASSUME NEW d, Sound(d), ~IsStaticKey(d), NEW k \in {"cert", "key", "pkcs12"},
           NEW x \in DOMAIN d,
           k = "key" => ~Folded(d) /\ x = "key",
           k = "pkcs12" => Folded(d) /\ x = "cert"
    PROVE  LineMode(d, <<k, d[x]>>)
<1> DEFINE v == d[x]
           l == <<k, v>>
<1>1. v # "" BY DEF Sound
<1>2. k = "key" => l = <<"key", d["key"]>> OBVIOUS
<1>3. k = "pkcs12" => l = <<"pkcs12", d["cert"]>> OBVIOUS
<1> HIDE DEF v
<1>4. l[1] = k /\ Arg0(l) = v BY LineArgs
<1> HIDE DEF l
<1>5. LineMode(d, l) BY <1>1, <1>2, <1>3, <1>4 DEF LineMode
<1> QED BY <1>5 DEF l, v

LEMMA CredentialMode ==
    ASSUME NEW d, NEW l, Sound(d), CredentialLine(d, l) PROVE LineMode(d, l)
<1>1. CASE \E f \in ExportedFlags : Yes(d, f) /\ l = <<f>>
  <2>1. PICK f \in ExportedFlags : l = <<f>> BY <1>1
  <2>2. l[1] = f BY <2>1
  <2>3. l[1] \notin ModeNames BY <2>2 DEF ExportedFlags, ModeNames
  <2> QED BY <2>3, NoModeLine
<1>2. CASE l = <<"client">> \/ l = <<"ca", d["ca"]>>
  <2>1. l[1] \notin ModeNames BY <1>2 DEF ModeNames
  <2> QED BY <2>1, NoModeLine
<1>3. CASE Folded(d) /\ l = <<"pkcs12", d["cert"]>>
  <2>1. NeedsUserCert(d) /\ "cert" \in DOMAIN d BY <1>3 DEF Folded, Has
  <2>2. ~IsStaticKey(d) BY <2>1, NotStatic
  <2> QED BY <1>3, <2>1, <2>2, FileMode
<1>4. CASE ~Folded(d) /\ NeedsUserCert(d) /\ Has(d, "cert") /\ l = <<"cert", d["cert"]>>
  <2>1. ~IsStaticKey(d) /\ "cert" \in DOMAIN d BY <1>4, NotStatic DEF Has
  <2> QED BY <1>4, <2>1, FileMode
<1>5. CASE ~Folded(d) /\ NeedsUserCert(d) /\ Has(d, "key") /\ l = <<"key", d["key"]>>
  <2>1. ~IsStaticKey(d) /\ "key" \in DOMAIN d BY <1>5, NotStatic DEF Has
  <2> QED BY <1>5, <2>1, FileMode
<1>6. CASE IsPasswordLike(d) /\ l = <<"auth-user-pass">>
  <2>1. l[1] = "auth-user-pass" BY <1>6
  <2>2. ~IsStaticKey(d) BY <1>6, NotStatic
  <2> QED BY <2>1, <2>2 DEF LineMode
<1>7. CASE /\ IsStaticKey(d) /\ Has(d, "static-key")
           /\ l = IF Has(d, "static-key-direction")
                  THEN <<"secret", d["static-key"], d["static-key-direction"]>>
                  ELSE <<"secret", d["static-key"]>>
  <2>1. l[1] = "secret" BY <1>7
  <2> QED BY <1>7, <2>1 DEF LineMode
<1> QED BY <1>1, <1>2, <1>3, <1>4, <1>5, <1>6, <1>7, Zenon DEF CredentialLine

LEMMA ProxyMode ==
    ASSUME NEW d, Sound(d), Has(d, "proxy-server"), NEW p
    PROVE  LineMode(d, <<"http-proxy", d["proxy-server"], p>>)
<1> DEFINE l == <<"http-proxy", d["proxy-server"], p>>
<1>1. l[1] = "http-proxy" /\ Arg0(l) = d["proxy-server"] BY LineArgs3
<1>2. d["proxy-server"] # "" BY DEF Sound, Has
<1> HIDE DEF l
<1>3. LineMode(d, l) BY <1>1, <1>2 DEF LineMode
<1> QED BY <1>3 DEF l

LEMMA ExportedMode ==
    ASSUME NEW d, NEW l, Sound(d), ExportedLine(d, l) PROVE LineMode(d, l)
<1>1. CASE CredentialLine(d, l) BY <1>1, CredentialMode
<1>2. CASE ~CredentialLine(d, l) /\ l[1] # "http-proxy"
  <2>1. l[1] \notin PlainNames BY <1>2, OtherExportedNames DEF ExportedLine
  <2>2. l[1] \notin ModeNames BY <1>2, <2>1 DEF PlainNames, ModeNames
  <2> QED BY <2>2, NoModeLine
<1>3. CASE ~CredentialLine(d, l) /\ l[1] = "http-proxy"
  <2>1. TailLine(d, l) BY <1>3, OnlyTailProxy DEF ExportedLine
  <2>2. \/ Has(d, "proxy-server")
           /\ l = <<"http-proxy", d["proxy-server"],
                    IF Has(d, "proxy-port") THEN d["proxy-port"] ELSE "8080">>
    BY <1>3, <2>1 DEF TailLine, BuildTail
  <2> QED BY <2>2, ProxyMode
<1> QED BY <1>1, <1>2, <1>3

LEMMA ExportModes ==
    ASSUME NEW d, Sound(d)
    PROVE  OneMode(emit(from_nm_data(d))) /\ Blobs(emit(from_nm_data(d))) = {}
<1> DEFINE K == Lines(emit(from_nm_data(d)))
<1>1. ASSUME NEW l, l[1] \in ListNames PROVE LineMode(d, l)
  <2>1. l[1] \notin ModeNames BY <1>1 DEF ListNames, RouteNames, ModeNames
  <2> QED BY <2>1, NoModeLine
<1>2. ASSUME NEW l \in K PROVE LineMode(d, l)
  BY <1>1, <1>2, ExportedText, ExportedMode
<1>3. Blobs(emit(from_nm_data(d))) = {} BY <1>2 DEF Blobs, Lines, LineMode, IsBlob
<1> HIDE DEF K
<1>4. Mode(K) BY <1>2, AllMode
<1> QED BY <1>3, <1>4, ModeIs DEF K

-----------------------------------------------------------------------------
(* vpn.data stays a dictionary of finitely many items: everything that is  *)
(* written into it has a key of these tables.                              *)
LEMMA FiniteTen ==
    ASSUME NEW a, NEW b, NEW c, NEW d, NEW e, NEW f, NEW g, NEW h, NEW i, NEW j
    PROVE  IsFiniteSet({a, b, c, d, e, f, g, h, i, j})
<1> DEFINE A == {a, b, c, d, e}
           B == {f, g, h, i, j}
<1>1. IsFiniteSet(A) /\ IsFiniteSet(B) BY FiniteFew
<1>2. {a, b, c, d, e, f, g, h, i, j} = A \cup B OBVIOUS
<1> HIDE DEF A, B
<1>3. IsFiniteSet(A \cup B) BY <1>1, FiniteJoin
<1> QED BY <1>2, <1>3

IsKeyTable(K) == IsFiniteSet(K) /\ "" \notin K

LEMMA KeyTableJoin ==
    ASSUME NEW A, NEW B, IsKeyTable(A), IsKeyTable(B) PROVE IsKeyTable(A \cup B)
BY FiniteJoin DEF IsKeyTable

LEMMA KeyTablePart ==
    ASSUME NEW A, NEW B \in SUBSET A, IsKeyTable(A) PROVE IsKeyTable(B)
BY FS_Subset DEF IsKeyTable

LEMMA DictionaryIs ==
    ASSUME NEW d
    PROVE  IsDictionary(d) <=> d = [k \in DOMAIN d |-> d[k]] /\ IsKeyTable(DOMAIN d)
BY DEF IsDictionary, IsKeyTable

LEMMA SecretTables ==
    /\ IsFiniteSet(SecretKeys)
    /\ IsKeyTable({"cert-pass-flags", "password-flags", "http-proxy-password-flags"})
<1> DEFINE F == {"cert-pass-flags", "password-flags", "http-proxy-password-flags"}
<1>1. SecretKeys = {"cert-pass", "password", "http-proxy-password", "password", "password"}
  BY DEF SecretKeys
<1>2. IsFiniteSet(SecretKeys) BY <1>1, FiniteFew
<1>3. F = {"cert-pass-flags", "password-flags", "http-proxy-password-flags",
           "password-flags", "password-flags"}
  OBVIOUS
<1>4. "" \notin F OBVIOUS
<1> HIDE DEF F
<1>5. IsFiniteSet(F) BY <1>3, FiniteFew
<1>6. IsKeyTable(F) BY <1>4, <1>5 DEF IsKeyTable
<1> QED BY <1>2, <1>6 DEF F

LEMMA RowTable == IsKeyTable(WIDGET_DATA_KEYS)
<1> DEFINE A == {"connection-type", "remote", "port", "ca", "cert", "key", "static-key",
                 "static-key-direction", "username", "nm-openvpn3-profile"}
           B == {"dev", "dev-type", "proto-tcp", "tunnel-mtu", "mssfix", "fragment-size",
                 "ping", "ping-restart", "reneg-seconds", "connect-timeout"}
           C == {"allow-compression", "comp-lzo", "compress", "cipher", "data-ciphers",
                 "data-ciphers-fallback", "tls-cipher", "auth", "keysize", "tls-version-min"}
           D == {"tls-version-min-or-highest", "tls-version-max", "verify-x509-name",
                 "remote-cert-tls", "ns-cert-type", "ta", "ta-dir", "tls-crypt",
                 "tls-crypt-v2", "proxy-type"}
           E == {"proxy-server", "proxy-port", "http-proxy-username",
                 "override-route-nopull", "override-force-default-gateway",
                 "override-block-ipv6", "override-dns-setup-disabled", "override-dco",
                 "override-log-level", "override-log-level"}
<1>1. /\ IsFiniteSet(A) /\ IsFiniteSet(B) /\ IsFiniteSet(C) /\ IsFiniteSet(D)
      /\ IsFiniteSet(E)
  BY FiniteTen
<1>2. WIDGET_DATA_KEYS = A \cup B \cup C \cup D \cup E BY DEF WIDGET_DATA_KEYS
<1>3. "" \notin A \cup B \cup C \cup D \cup E OBVIOUS
<1> HIDE DEF A, B, C, D, E
<1>4. IsFiniteSet(A \cup B) /\ IsFiniteSet(C \cup D) BY <1>1, FiniteJoin
<1>5. IsFiniteSet((A \cup B) \cup (C \cup D)) BY <1>4, FiniteJoin
<1>6. IsFiniteSet(((A \cup B) \cup (C \cup D)) \cup E) BY <1>1, <1>5, FiniteJoin
<1>7. ((A \cup B) \cup (C \cup D)) \cup E = WIDGET_DATA_KEYS BY <1>2
<1> QED BY <1>2, <1>3, <1>6, <1>7 DEF IsKeyTable

LEMMA CopiedTable == IsKeyTable({Copied[n] : n \in DOMAIN Copied})
<1> DEFINE A == {"dev", "dev-type", "port", "cipher", "data-ciphers",
                 "data-ciphers-fallback", "auth", "keysize", "tls-cipher", "ping"}
           B == {"ping-exit", "ping-restart", "allow-compression", "ns-cert-type",
                 "remote-cert-tls", "tls-remote", "tls-version-max", "tls-crypt",
                 "tls-crypt-v2", "extra-certs"}
           C == {"tunnel-mtu", "fragment-size", "reneg-seconds", "connect-timeout",
                 "connect-timeout"}
           T == A \cup B \cup C
<1>1. IsFiniteSet(A) /\ IsFiniteSet(B) BY FiniteTen
<1>2. IsFiniteSet(C) BY FiniteFew
<1>3. "" \notin T OBVIOUS
<1>4. ASSUME NEW n \in DOMAIN Copied PROVE Copied[n] \in T BY <1>4 DEF Copied
<1> HIDE DEF A, B, C
<1>5. IsFiniteSet(A \cup B) BY <1>1, FiniteJoin
<1>6. IsFiniteSet((A \cup B) \cup C) BY <1>2, <1>5, FiniteJoin
<1>7. IsKeyTable(T) BY <1>3, <1>6 DEF IsKeyTable
<1> HIDE DEF T
<1>8. {Copied[n] : n \in DOMAIN Copied} \in SUBSET T BY <1>4
<1> QED BY <1>7, <1>8, KeyTablePart

LEMMA ImportTable == IsKeyTable(SettingKeys)
<1> DEFINE A == {"ca", "cert", "key", "static-key", "static-key-direction", "ta", "ta-dir",
                 "proto-tcp", "mssfix", "compress"}
           B == {"comp-lzo", "tls-version-min", "tls-version-min-or-highest",
                 "verify-x509-name", "crl-verify-dir", "crl-verify-file", "local-ip",
                 "remote-ip", "ping", "ping-restart"}
           C == {"proxy-type", "proxy-server", "proxy-port", "http-proxy-auth-file",
                 "remote", "nm-openvpn3-extra-routes", "connection-type",
                 "http-proxy-username", "http-proxy-password-flags", "nm-openvpn3-profile"}
           P == {Copied[n] : n \in DOMAIN Copied}
           F == {"float", "remote-random", "remote-random-hostname", "push-peer-info",
                 "tun-ipv6", "allow-pull-fqdn", "float", "float", "float", "float"}
           N == {"ca", "cert", "extra-certs", "crl-verify", "key", "pkcs12", "secret",
                 "tls-auth", "tls-crypt", "tls-crypt-v2"}
<1>1. /\ IsFiniteSet(A) /\ IsFiniteSet(B) /\ IsFiniteSet(C) /\ IsFiniteSet(F)
      /\ IsFiniteSet(N)
  BY FiniteTen
<1>2. "" \notin A /\ "" \notin B /\ "" \notin C /\ "" \notin F /\ "" \notin N OBVIOUS
<1>3. Flags = F BY DEF Flags
<1>4. INLINE_BLOB_NAMES = N BY DEF INLINE_BLOB_NAMES
<1>5. SettingKeys = A \cup B \cup C \cup P \cup Flags \cup INLINE_BLOB_NAMES
  BY DEF SettingKeys, DataKeys, ImportKeys
<1>6. IsKeyTable(P) BY CopiedTable
<1> HIDE DEF A, B, C, F, N, P
<1>7. /\ IsKeyTable(A) /\ IsKeyTable(B) /\ IsKeyTable(C) /\ IsKeyTable(F)
      /\ IsKeyTable(N)
  BY <1>1, <1>2 DEF IsKeyTable
<1>8. IsKeyTable(A \cup B) /\ IsKeyTable(C \cup P) /\ IsKeyTable(F \cup N)
  BY <1>6, <1>7, KeyTableJoin
<1>9. IsKeyTable((A \cup B) \cup (C \cup P)) BY <1>8, KeyTableJoin
<1>10. IsKeyTable(((A \cup B) \cup (C \cup P)) \cup (F \cup N)) BY <1>8, <1>9, KeyTableJoin
<1>11. SettingKeys = ((A \cup B) \cup (C \cup P)) \cup (F \cup N) BY <1>3, <1>4, <1>5
<1> QED BY <1>10, <1>11

LEMMA ImportedDictionary ==
    ASSUME NEW t, Legible(t), parses(t), NEW lost, NEW auth
    PROVE  IsDictionary(ImportedData(t, lost, auth))
<1> DEFINE n == ImportedData(t, lost, auth)
           a == as_nm_data(t)
<1>1. Fills(n, a, t) BY ImportedFills
<1> HIDE DEF n, a
<1>2. n \in Dicts(SettingKeys) BY <1>1 DEF Fills
<1>3. n = [k \in DOMAIN n |-> n[k]] /\ DOMAIN n \in SUBSET SettingKeys BY <1>2, DictIs
<1>4. IsKeyTable(DOMAIN n) BY <1>3, ImportTable, KeyTablePart
<1>5. IsDictionary(n) BY <1>3, <1>4, DictionaryIs
<1> QED BY <1>5 DEF n

LEMMA SavedDictionary ==
    ASSUME IsDictionary(data), IsDictionary(initial) PROVE IsDictionary(Saved)
<1> DEFINE flags == {FlagKey(s) : s \in Stored}
           own == {k \in WIDGET_DATA_KEYS : Written(k) # ""}
           foreign == (DOMAIN data \cup DOMAIN initial) \ WIDGET_DATA_KEYS
           F == {"cert-pass-flags", "password-flags", "http-proxy-password-flags"}
           T == (WIDGET_DATA_KEYS \cup F) \cup (DOMAIN data \cup DOMAIN initial)
<1>1. DOMAIN Saved = own \cup foreign \cup flags /\ Saved = [k \in DOMAIN Saved |-> Saved[k]]
  BY DEF Saved
<1>2. flags \subseteq F
  <2>1. Stored \subseteq SecretKeys BY DEF Stored
  <2>2. \A s \in SecretKeys : FlagKey(s) \in F BY DEF SecretKeys, FlagKey
  <2> QED BY <2>1, <2>2
<1>3. own \cup foreign \cup flags \in SUBSET T BY <1>2
<1>4. IsKeyTable(F) BY SecretTables
<1>5. IsKeyTable(DOMAIN data) /\ IsKeyTable(DOMAIN initial) BY DictionaryIs
<1> HIDE DEF F, flags, own, foreign
<1>6. IsKeyTable(WIDGET_DATA_KEYS \cup F) BY <1>4, RowTable, KeyTableJoin
<1>7. IsKeyTable(DOMAIN data \cup DOMAIN initial) BY <1>5, KeyTableJoin
<1>8. IsKeyTable(T) BY <1>6, <1>7, KeyTableJoin
<1> HIDE DEF T
<1>9. IsKeyTable(DOMAIN Saved) BY <1>1, <1>3, <1>8, KeyTablePart
<1> QED BY <1>1, <1>9, DictionaryIs

-----------------------------------------------------------------------------
(* What the dialog is told.                                                *)

(* The lines of the file an imported connection was read from, or that has *)
(* been exported from it since, speak for its vpn.data.                    *)
FileSpeaks == ImportedWhole /\ file # NoFile => Claims(Lines(file.text), data)

(* A file that was exported has one key, one mode and no blobs.            *)
OwnFile == file.by # "user" => OneMode(file.text) /\ Blobs(file.text) = {}

DInv ==
    /\ IsDictionary(data) /\ IsDictionary(initial)
    /\ IsFiniteSet(DOMAIN secrets)
    /\ OwnFile
    /\ FileSpeaks

LEMMA NoFileMode == OneMode(NoFile.text) /\ Blobs(NoFile.text) = {}
<1>1. DOMAIN NoFile.text = {} BY DEF NoFile
<1> QED BY <1>1 DEF OneMode, Blobs

LEMMA DInvInit == Init => DInv
<1> SUFFICES ASSUME Init PROVE DInv OBVIOUS
<1>1. IsDictionary(data)
  <2>1. data \in Connections BY DEF Init
  <2> QED BY <2>1, SettingsAssumption, Zenon
<1>2. IsDictionary(initial)
  <2>1. initial = NoItems BY DEF Init, EditorInit
  <2>2. IsDictionary(NoItems) BY SettingsAssumption, Zenon
  <2> QED BY <2>1, <2>2
<1>3. IsFiniteSet(DOMAIN secrets)
  <2>1. DOMAIN secrets = SecretKeys BY DEF Init
  <2> QED BY <2>1, SecretTables
<1>4. OwnFile
  <2>1. CASE file = NoFile BY <2>1, NoFileMode DEF OwnFile
  <2>2. ASSUME NEW t \in UserFiles, file = [by |-> "user", text |-> t] PROVE OwnFile
    <3>1. file.by = "user" BY <2>2
    <3> QED BY <3>1 DEF OwnFile
  <2> QED BY <2>1, <2>2 DEF Init
<1>5. FileSpeaks
  <2>1. writer = "user" BY DEF Init, EditorInit
  <2> QED BY <2>1 DEF FileSpeaks, ImportedWhole
<1> QED BY <1>1, <1>2, <1>3, <1>4, <1>5 DEF DInv

LEMMA SecretsStayFinite ==
    ASSUME IsFiniteSet(DOMAIN secrets), Apply PROVE IsFiniteSet(DOMAIN secrets')
<1>1. DOMAIN secrets' = DOMAIN secrets \cup Stored BY DEF Apply
<1>2. Stored \in SUBSET SecretKeys BY DEF Stored
<1>3. IsFiniteSet(Stored) BY <1>2, SecretTables, FS_Subset
<1>4. IsFiniteSet(DOMAIN secrets \cup Stored) BY <1>3, FiniteJoin
<1> QED BY <1>1, <1>4

(* An exported file: a copy of the pinned one, or written from vpn.data.   *)
LEMMA ExportSpeaks ==
    ASSUME SInv, DInv, Export PROVE OwnFile' /\ FileSpeaks'
<1>1. /\ file'.text = Exported(data) /\ UNCHANGED <<data, writer>>
      /\ file'.by = IF Readable(data) THEN file.by ELSE "export"
  BY DEF Export, editorVars
<1>2. CASE Readable(data)
  <2>1. file'.text = file.text /\ file'.by = file.by /\ file # NoFile
    BY <1>1, <1>2 DEF Exported, Readable
  <2>2. OwnFile' BY <2>1 DEF DInv, OwnFile
  <2>3. ImportedWhole' => ImportedWhole BY <1>1, <2>1 DEF ImportedWhole
  <2>4. FileSpeaks' BY <1>1, <2>1, <2>3 DEF DInv, FileSpeaks
  <2> QED BY <2>2, <2>4
<1>3. CASE ~Readable(data)
  <2>1. Sound(data) BY SoundIs DEF SInv, EInv, EditorTypeOK
  <2>2. file'.text = emit(from_nm_data(data)) BY <1>1, <1>3 DEF Exported
  <2>3. OwnFile' BY <2>1, <2>2, ExportModes DEF OwnFile
  <2>4. Claims(Lines(emit(from_nm_data(data))), data) BY <2>1, ExportClaims
  <2>5. Claims(Lines(file'.text), data') BY <1>1, <2>2, <2>4
  <2> QED BY <2>3, <2>5 DEF FileSpeaks
<1> QED BY <1>2, <1>3

LEMMA ImportSpeaks ==
    ASSUME SInv, DInv, Import
    PROVE  IsDictionary(data') /\ IsFiniteSet(DOMAIN secrets') /\ FileSpeaks'
<1>1. PICK lost, auth :
        /\ data' = ImportedData(file.text, lost, auth)
        /\ secrets' = IF "pass" \in auth THEN [s \in {"http-proxy-password"} |-> "fromfile"]
                      ELSE [s \in {} |-> ""]
  BY DEF Import
<1>2. parses(file.text) /\ file' = file BY DEF Import
<1>3. Legible(file.text) BY DEF SInv, FileLegible
<1>4. IsDictionary(data') BY <1>1, <1>2, <1>3, ImportedDictionary
<1>5. IsFiniteSet(DOMAIN secrets')
  <2>1. DOMAIN secrets' = {"http-proxy-password"} \/ DOMAIN secrets' = {} BY <1>1
  <2> QED BY <2>1, FS_Singleton, FS_EmptySet
<1>6. ASSUME ImportedWhole' PROVE Claims(Lines(file.text), data')
  <2>1. OneMode(file.text) /\ \A b \in Blobs(file.text) : Has(data', b)
    BY <1>2, <1>6 DEF DInv, OwnFile, ImportedWhole
  <2>2. Mode(Lines(file.text)) BY <2>1, ModeIs
  <2>3. \A b \in Blobs(file.text) : Has(ImportedData(file.text, lost, auth), b)
    BY <1>1, <2>1
  <2>4. Claims(Lines(file.text), ImportedData(file.text, lost, auth))
    BY <1>2, <1>3, <2>2, <2>3, ImportClaims
  <2> QED BY <1>1, <2>4
<1>7. FileSpeaks' BY <1>2, <1>6 DEF FileSpeaks
<1> QED BY <1>4, <1>5, <1>7

LEMMA DInvStep == SInv /\ DInv /\ [Next]_vars => DInv'
<1> SUFFICES ASSUME SInv, DInv, [Next]_vars PROVE DInv' OBVIOUS
<1>1. CASE [EditorNext]_editorVars /\ UNCHANGED file
  <2>1. IsDictionary(initial')
    <3>1. IsDictionary(NoItems) BY SettingsAssumption, Zenon
    <3>2. initial' \in {data, NoItems, initial} BY <1>1, DataChanges
    <3> QED BY <3>1, <3>2 DEF DInv
  <2>2. OwnFile' BY <1>1 DEF DInv, OwnFile
  <2>3. CASE Apply /\ data' = Saved
    <3>1. IsDictionary(Saved) BY SavedDictionary DEF DInv
    <3>2. IsDictionary(data') BY <2>3, <3>1
    <3>3. IsFiniteSet(DOMAIN secrets') BY <2>3, SecretsStayFinite DEF DInv
    <3>4. FileSpeaks'
      <4>1. writer' = "apply" BY <2>3 DEF Apply
      <4> QED BY <4>1 DEF FileSpeaks, ImportedWhole
    <3> QED BY <2>1, <2>2, <3>2, <3>3, <3>4 DEF DInv
  <2>4. CASE UNCHANGED <<data, secrets, writer>>
    <3>1. FileSpeaks' BY <1>1, <2>4 DEF DInv, FileSpeaks, ImportedWhole
    <3>2. IsDictionary(data') BY <2>4 DEF DInv
    <3>3. IsFiniteSet(DOMAIN secrets') BY <2>4 DEF DInv
    <3> QED BY <2>1, <2>2, <3>1, <3>2, <3>3 DEF DInv
  <2> QED BY <1>1, <2>3, <2>4, DataChanges
<1>2. ASSUME UNCHANGED editorVars, OwnFile', FileSpeaks' PROVE DInv'
  <2>1. UNCHANGED <<data, initial, secrets>> BY <1>2 DEF editorVars
  <2>2. IsDictionary(data') /\ IsDictionary(initial') /\ IsFiniteSet(DOMAIN secrets')
    BY <2>1 DEF DInv
  <2> QED BY <1>2, <2>2 DEF DInv
<1>3. CASE Export BY <1>2, <1>3, ExportSpeaks DEF Export
<1>4. CASE Import
  <2>1. IsDictionary(data') /\ IsFiniteSet(DOMAIN secrets') /\ FileSpeaks'
    BY <1>4, ImportSpeaks
  <2>2. UNCHANGED <<initial, file>> BY <1>4 DEF Import
  <2>3. IsDictionary(initial') /\ OwnFile' BY <2>2 DEF DInv, OwnFile
  <2> QED BY <2>1, <2>3 DEF DInv
<1>5. CASE LoseFile
  <2>1. file' = NoFile /\ UNCHANGED editorVars BY <1>5 DEF LoseFile
  <2>2. OwnFile' BY <2>1, NoFileMode DEF OwnFile
  <2>3. FileSpeaks' BY <2>1 DEF FileSpeaks
  <2> QED BY <1>2, <2>1, <2>2, <2>3
<1> QED BY <1>1, <1>3, <1>4, <1>5 DEF Next, vars

LEMMA DialogInvariance == Spec => [](SInv /\ DInv)
BY SInvInit, SInvStep, DInvInit, DInvStep, PTL DEF Spec

(* The profile that would be connected needs no secret that vpn.data does  *)
(* not speak of.                                                           *)
LEMMA ConnectedSpeaks ==
    ASSUME SInv, DInv, Connectable(data), Pinned(data) => ImportedWhole
    PROVE  Claims(Lines(Connected(data)), data)
<1>1. CASE Pinned(data)
  <2>1. file # NoFile BY <1>1 DEF Connectable, Readable
  <2>2. Connected(data) = file.text BY <1>1 DEF Connected
  <2>3. Claims(Lines(file.text), data) BY <1>1, <2>1 DEF DInv, FileSpeaks
  <2> QED BY <2>2, <2>3
<1>2. CASE ~Pinned(data)
  <2>1. Sound(data) BY SoundIs DEF SInv, EInv, EditorTypeOK
  <2>2. Has(data, "remote") BY <1>2 DEF Connectable, build_profile_ok
  <2>3. Connected(data) = emit(build_profile_string(data)) BY <1>2 DEF Connected
  <2>4. Claims(Lines(emit(build_profile_string(data))), data) BY <2>1, <2>2, BuiltClaims
  <2> QED BY <2>3, <2>4
<1> QED BY <1>1, <1>2

(* Whatever edits, exports and imports a connection went through: the auth *)
(* dialog, started by NetworkManager with the items and the secrets of the *)
(* connection, reads them back (read_vpn_details) and asks for every       *)
(* secret that the profile do_connect would hand to openvpn3 needs, inline *)
(* keys included, unless its flags waive it; and with hints it asks for    *)
(* the hinted secret and for nothing else (needs, run).  A file of the     *)
(* user's own is to be one openvpn accepts and to have been imported       *)
(* whole, and the passphrase of a bundle that does not look like one is    *)
(* not promised (BundlePassphraseAsked is the finding about it).           *)
THEOREM DialogAlwaysAsksEnough == Spec => []DialogAsksEnough
<1>1. SInv /\ DInv => DialogAsksEnough
  <2> SUFFICES ASSUME SInv, DInv PROVE DialogAsksEnough OBVIOUS
  <2>1. ASSUME Connectable(data), Has(data, "connection-type"),
               Pinned(data) => ImportedWhole
        PROVE  ToAsk(Connected(data), data)
                 \subseteq Asked(run(Details(data, secrets), {}, TRUE))
    <3>1. Claims(Lines(Connected(data)), data) BY <2>1, ConnectedSpeaks
    <3>2. ToAsk(Connected(data), data) \subseteq InferredNeeds(data)
      BY <2>1, <3>1, ClaimsCover
    <3>3. IsItems(data) /\ IsItems(secrets) BY DEF SInv, EInv, EditorTypeOK
    <3>4. IsDictionary(data) /\ IsFiniteSet(DOMAIN secrets) BY DEF DInv
    <3>5. Asked(run(Details(data, secrets), {}, TRUE)) = InferredNeeds(data)
      BY <3>3, <3>4, AskedFirst
    <3> QED BY <3>2, <3>5
  <2>2. \A h \in DOMAIN KnownHints :
          Asked(run(Details(data, secrets), {h, "username"}, TRUE)) = {KnownHints[h]}
    BY AskedByHint
  <2> QED BY <2>1, <2>2 DEF DialogAsksEnough, ToAsk
<1> QED BY <1>1, DialogInvariance, PTL
=============================================================================
