---------------------------- MODULE ConfigLemmas ----------------------------
(***************************************************************************)
(* Facts about the operators of BridgeConfig, for every set of ids, URLs,  *)
(* tokens and settings: each yields a config again, and what goes to       *)
(* config.yaml depends on nothing that secrets.yaml or the defaults        *)
(* restore.                                                                *)
(***************************************************************************)
EXTENDS BridgeConfig, TLAPS

\* A config is made of its parts; the sources map is typed by its own domain.
LEMMA MakeConfig ==
  ASSUME NEW s \in Settings, NEW d \in Optional(Passwords), NEW a \in Optional(Passwords),
         NEW D \in SUBSET Ids, NEW f \in [D -> Source]
  PROVE  [settings |-> s, display |-> d, admin |-> a, sources |-> f] \in Config
<1>1. f \in UNION {[E -> Source] : E \in SUBSET Ids}
  OBVIOUS
<1>2. QED
  BY <1>1 DEF Config

\* The parts of a config have their types.
LEMMA ConfigFields ==
  ASSUME NEW c \in Config
  PROVE  /\ c.settings \in Settings
         /\ c.display \in Optional(Passwords)
         /\ c.admin \in Optional(Passwords)
         /\ DOMAIN c.sources \in SUBSET Ids
         /\ c.sources \in [DOMAIN c.sources -> Source]
<1>1. /\ c.settings \in Settings
      /\ c.display \in Optional(Passwords)
      /\ c.admin \in Optional(Passwords)
      /\ c.sources \in UNION {[E -> Source] : E \in SUBSET Ids}
  BY DEF Config
<1>2. PICK E \in SUBSET Ids : c.sources \in [E -> Source]
  BY <1>1
<1>3. QED
  BY <1>1, <1>2

\* What the defaults do to a source, and replacing its value, leave it a source.
LEMMA SourceKept ==
  ASSUME NEW src \in Source, NEW v \in Optional(Tokens)
  PROVE  WithMode(src) \in Source /\ WithValue(src, v) \in Source
BY DEF Source, WithMode, WithValue, FirstNonEmpty, Optional, Modes

\* Filled-in settings are settings.
LEMMA SettingsKept ==
  ASSUME NEW s \in Settings
  PROVE  WithDefaults(s) \in Settings
BY DEF Settings, WithDefaults, NonZero, DefaultSettings

\* ApplyDefaults yields a config.
LEMMA DefaultsType ==
  ASSUME NEW c \in Config
  PROVE  ApplyDefaults(c) \in Config
<1> DEFINE f == [i \in DOMAIN c.sources |-> WithMode(c.sources[i])]
<1>1. f \in [DOMAIN c.sources -> Source]
  BY ConfigFields, SourceKept DEF Optional
<1>2. WithDefaults(c.settings) \in Settings
  BY ConfigFields, SettingsKept
<1> HIDE DEF f
<1>3. [settings |-> WithDefaults(c.settings), display |-> c.display, admin |-> c.admin,
       sources |-> f] \in Config
  BY <1>1, <1>2, ConfigFields, MakeConfig
<1>4. QED
  BY <1>3 DEF ApplyDefaults, f

\* Merging secrets yields a config.
LEMMA ApplySecretsType ==
  ASSUME NEW c \in Config, NEW sec \in Secrets
  PROVE  ApplySecrets(c, sec) \in Config
<1> DEFINE Value(i) == FirstNonEmpty(sec.proxmox[i], c.sources[i].value)
           f == [i \in DOMAIN c.sources |-> WithValue(c.sources[i], Value(i))]
<1>1. ASSUME NEW i \in DOMAIN c.sources
      PROVE  WithValue(c.sources[i], Value(i)) \in Source
  <2>1. c.sources[i] \in Source /\ i \in Ids
    BY ConfigFields
  <2>2. Value(i) \in Optional(Tokens)
    BY <2>1 DEF Secrets, Source, FirstNonEmpty
  <2> HIDE DEF Value
  <2>3. QED
    BY <2>1, <2>2, SourceKept
<1>2. f \in [DOMAIN c.sources -> Source]
  BY <1>1
<1>3. sec.display \in Optional(Passwords) /\ sec.admin \in Optional(Passwords)
  BY DEF Secrets
<1> HIDE DEF f
<1>4. [settings |-> c.settings, display |-> sec.display, admin |-> sec.admin,
       sources |-> f] \in Config
  BY <1>2, <1>3, ConfigFields, MakeConfig
<1>5. QED
  BY <1>4 DEF ApplySecrets, f

\* Blanking the token values yields a config.
LEMMA WipeType ==
  ASSUME NEW c \in Config
  PROVE  WipeValues(c) \in Config
<1> DEFINE f == [i \in DOMAIN c.sources |-> WithValue(c.sources[i], Blank)]
<1>1. f \in [DOMAIN c.sources -> Source]
  BY ConfigFields, SourceKept DEF Optional
<1> HIDE DEF f
<1>2. [settings |-> c.settings, display |-> c.display, admin |-> c.admin,
       sources |-> f] \in Config
  BY <1>1, ConfigFields, MakeConfig
<1>3. QED
  BY <1>2 DEF WipeValues, f

\* What Save writes to config.yaml is a config.
LEMMA StripType ==
  ASSUME NEW c \in Config
  PROVE  Strip(c) \in Config
<1> DEFINE w == WipeValues(ApplyDefaults(c))
<1>1. w \in Config
  BY DefaultsType, WipeType
<1>2. Blank \in Optional(Passwords)
  BY DEF Optional
<1> HIDE DEF w
<1>3. [settings |-> w.settings, display |-> Blank, admin |-> Blank,
       sources |-> w.sources] \in Config
  BY <1>1, <1>2, ConfigFields, MakeConfig
<1>4. QED
  BY <1>3 DEF Strip, w

-----------------------------------------------------------------------------
(***************************************************************************)
(* What an operation makes of a config and its secrets is a config and     *)
(* secrets again.                                                          *)
(***************************************************************************)
\* A config with its settings or its sources replaced is a config.
LEMMA ReplaceParts ==
  ASSUME NEW c \in Config, NEW s \in Settings, NEW D \in SUBSET Ids, NEW f \in [D -> Source]
  PROVE  /\ [c EXCEPT !.settings = s] \in Config
         /\ [c EXCEPT !.sources = f] \in Config
<1>1. [c EXCEPT !.settings = s] \in Config
  BY DEF Config
<1>2. f \in UNION {[E -> Source] : E \in SUBSET Ids}
  OBVIOUS
<1>3. [c EXCEPT !.sources = f] \in Config
  BY <1>2 DEF Config
<1>4. QED
  BY <1>1, <1>3

\* Secrets with one token replaced are secrets.
LEMMA ReplaceToken ==
  ASSUME NEW sec \in Secrets, NEW id \in Ids, NEW t \in Optional(Tokens)
  PROVE  [sec EXCEPT !.proxmox[id] = t] \in Secrets
BY DEF Secrets

\* Saving the settings page.
LEMMA UpdateServerType ==
  ASSUME NEW in \in ServerUpdate, NEW c \in Config, NEW sec \in Secrets
  PROVE  UpdateServer(in, c, sec) \in [config : Config, secrets : Secrets]
<1> DEFINE s == in.settings
           memWarn == Clamp(s.memWarn, 1, 100)
           stoWarn == Clamp(s.stoWarn, 1, 100)
           new == [poll |-> s.poll, stale |-> s.stale,
                   memWarn |-> memWarn, memCrit |-> Clamp(s.memCrit, memWarn, 100),
                   stoWarn |-> stoWarn, stoCrit |-> Clamp(s.stoCrit, stoWarn, 100)]
           sec1 == [sec EXCEPT !.display = FirstNonEmpty(in.display, @),
                               !.admin = FirstNonEmpty(in.admin, @)]
<1>1. new \in Settings
  BY DEF ServerUpdate, Settings, Clamp
<1>2. sec1 \in Secrets
  BY DEF Secrets, ServerUpdate, FirstNonEmpty
<1> HIDE DEF new
<1>3. [c EXCEPT !.settings = new] \in Config
  BY <1>1 DEF Config
<1>4. QED
  BY <1>2, <1>3 DEF UpdateServer, new

\* The entry a source page describes, merged with the one it edits.
LEMMA SourceFromUpdateType ==
  ASSUME NEW in \in SourceUpdate, NEW c \in Config, NEW sec \in Secrets
  PROVE  SourceFromUpdate(in, c, sec) \in Source
<1> DEFINE old == Existing(c, in.id)
<1>1. in.id \in Ids
  BY DEF SourceUpdate
<1>2. old \in Source
  BY ConfigFields DEF Existing, NoSource, Source, Optional
<1>3. sec.proxmox[in.id] \in Optional(Tokens)
  BY <1>1 DEF Secrets
<1> HIDE DEF old
<1>4. QED
  BY <1>2, <1>3 DEF SourceFromUpdate, old, SourceUpdate, Source, FirstNonEmpty, Optional, Modes

\* Saving a source.
LEMMA UpsertSourceType ==
  ASSUME NEW in \in SourceUpdate, NEW c \in Config, NEW sec \in Secrets
  PROVE  UpsertSource(in, c, sec) \in [config : Config, secrets : Secrets]
<1> DEFINE src == SourceFromUpdate(in, c, sec)
           D == DOMAIN c.sources \cup {in.id}
           f == [i \in D |-> IF i = in.id THEN src ELSE c.sources[i]]
           t == FirstNonEmpty(in.token, sec.proxmox[in.id])
<1>1. src \in Source
  BY SourceFromUpdateType
<1>2. in.id \in Ids /\ D \in SUBSET Ids
  BY ConfigFields DEF SourceUpdate
<1> HIDE DEF src
<1>3. f \in [D -> Source]
  BY <1>1, ConfigFields
<1>4. t \in Optional(Tokens)
  BY <1>2 DEF SourceUpdate, Secrets, FirstNonEmpty
<1>5. UpsertSource(in, c, sec) = [config  |-> [c EXCEPT !.sources = f],
                                  secrets |-> [sec EXCEPT !.proxmox[in.id] = t]]
  BY <1>2 DEF UpsertSource, src
<1> HIDE DEF f, t, D
<1>6. [c EXCEPT !.sources = f] \in Config
  BY <1>2, <1>3, ReplaceParts, ConfigFields
<1>7. [sec EXCEPT !.proxmox[in.id] = t] \in Secrets
  BY <1>2, <1>4, ReplaceToken
<1>8. QED
  BY <1>5, <1>6, <1>7

\* Deleting a source.
LEMMA DeleteSourceType ==
  ASSUME NEW id \in Ids, NEW c \in Config, NEW sec \in Secrets
  PROVE  DeleteSource(id, c, sec) \in [config : Config, secrets : Secrets]
<1> DEFINE D == DOMAIN c.sources \ {id}
           f == [i \in D |-> c.sources[i]]
<1>1. D \in SUBSET Ids /\ f \in [D -> Source]
  BY ConfigFields
<1>2. [sec EXCEPT !.proxmox[id] = Blank] \in Secrets
  BY ReplaceToken DEF Optional
<1> HIDE DEF D, f
<1>3. [c EXCEPT !.sources = f] \in Config
  BY <1>1, ReplaceParts, ConfigFields
<1>4. QED
  BY <1>2, <1>3 DEF DeleteSource, D, f

\* The pair that apply validates, saves and publishes.
LEMMA PreparedType ==
  ASSUME NEW op \in Operation, NEW c \in Config, NEW sec \in Secrets
  PROVE  Prepared(op, c, sec) \in [config : Config, secrets : Secrets]
<1>1. Result(op, c, sec) \in [config : Config, secrets : Secrets]
  <2>1. CASE op \in [kind : {"settings"}, in : ServerUpdate]
    BY <2>1, UpdateServerType DEF Result
  <2>2. CASE op \in [kind : {"save"}, in : SourceUpdate]
    BY <2>2, UpsertSourceType DEF Result
  <2>3. CASE op \in [kind : {"delete"}, in : [id : Ids]]
    BY <2>3, DeleteSourceType DEF Result
  <2>4. QED
    BY <2>1, <2>2, <2>3 DEF Operation
<1> DEFINE r == Result(op, c, sec)
<1>2. ApplyDefaults(r.config) \in Config /\ r.secrets \in Secrets
  BY <1>1, DefaultsType
<1> HIDE DEF r
<1>3. ApplySecrets(ApplyDefaults(r.config), r.secrets) \in Config
  BY <1>2, ApplySecretsType
<1>4. QED
  BY <1>2, <1>3 DEF Prepared, r

\* What the bridge starts with.
LEMMA LoadType ==
  ASSUME NEW c \in Config, NEW sec \in Secrets
  PROVE  Load(c, sec) \in Config
<1>1. ApplySecrets(ApplyDefaults(c), sec) \in Config
  BY DefaultsType, ApplySecretsType
<1>2. DefaultSettings \in Settings /\ Blank \in Optional(Passwords)
  BY DEF DefaultSettings, Settings, Optional
<1>3. [i \in {} |-> NoSource] \in [{} -> Source]
  OBVIOUS
<1>4. [settings |-> DefaultSettings, display |-> Blank, admin |-> Blank,
       sources |-> [i \in {} |-> NoSource]] \in Config
  BY <1>2, <1>3, MakeConfig
<1>5. QED
  BY <1>1, <1>4 DEF Load, NewDefault

-----------------------------------------------------------------------------
(***************************************************************************)
(* What Save writes to config.yaml is the same for a config, the config    *)
(* with its defaults filled in, with secrets merged in, or with its values *)
(* blanked.                                                                *)
(***************************************************************************)
Bare(src) == WithValue(WithMode(src), Blank)

\* A source as config.yaml has it: neither the default mode nor the value matters.
LEMMA BareSame ==
  ASSUME NEW src \in Source, NEW v \in Optional(Tokens)
  PROVE  /\ Bare(WithMode(src)) = Bare(src)
         /\ Bare(WithValue(src, v)) = Bare(src)
BY DEF Bare, Source, WithMode, WithValue, FirstNonEmpty, Blank

\* Filling in the defaults a second time changes nothing.
LEMMA DefaultsTwice ==
  ASSUME NEW s \in Settings
  PROVE  WithDefaults(WithDefaults(s)) = WithDefaults(s)
BY DEF Settings, WithDefaults, NonZero, DefaultSettings

\* What Save writes, part by part.
LEMMA StripForm ==
  ASSUME NEW c \in Config
  PROVE  Strip(c) = [settings |-> WithDefaults(c.settings), display |-> Blank,
                     admin |-> Blank,
                     sources |-> [i \in DOMAIN c.sources |-> Bare(c.sources[i])]]
BY DEF Strip, WipeValues, ApplyDefaults, Bare

\* Two configs that agree on those parts are written alike.
LEMMA StripSame ==
  ASSUME NEW c \in Config, NEW k \in Config,
         WithDefaults(k.settings) = WithDefaults(c.settings),
         DOMAIN k.sources = DOMAIN c.sources,
         \A i \in DOMAIN c.sources : Bare(k.sources[i]) = Bare(c.sources[i])
  PROVE  Strip(k) = Strip(c)
<1>1. [i \in DOMAIN k.sources |-> Bare(k.sources[i])]
        = [i \in DOMAIN c.sources |-> Bare(c.sources[i])]
  OBVIOUS
<1>2. QED
  BY <1>1, StripForm

\* Filling in the defaults does not change what is written.
LEMMA StripDefaults ==
  ASSUME NEW c \in Config
  PROVE  Strip(ApplyDefaults(c)) = Strip(c)
<1> DEFINE k == ApplyDefaults(c)
<1>1. k \in Config
  BY DefaultsType
<1>2. WithDefaults(k.settings) = WithDefaults(c.settings)
  BY ConfigFields, DefaultsTwice DEF ApplyDefaults
<1>3. /\ DOMAIN k.sources = DOMAIN c.sources
      /\ \A i \in DOMAIN c.sources : k.sources[i] = WithMode(c.sources[i])
  BY DEF ApplyDefaults
<1>4. \A i \in DOMAIN c.sources : c.sources[i] \in Source
  BY ConfigFields
<1> HIDE DEF k
<1>5. \A i \in DOMAIN c.sources : Bare(k.sources[i]) = Bare(c.sources[i])
  BY <1>3, <1>4, BareSame DEF Optional
<1>6. Strip(k) = Strip(c)
  BY <1>1, <1>2, <1>3, <1>5, StripSame
<1>7. QED
  BY <1>6 DEF k

\* Merging secrets, and blanking the values, replace nothing but values.
LEMMA StripValues ==
  ASSUME NEW c \in Config, NEW k \in Config,
         k.settings = c.settings,
         DOMAIN k.sources = DOMAIN c.sources,
         \A i \in DOMAIN c.sources :
           \E v \in Optional(Tokens) : k.sources[i] = WithValue(c.sources[i], v)
  PROVE  Strip(k) = Strip(c)
<1>1. \A i \in DOMAIN c.sources : c.sources[i] \in Source
  BY ConfigFields
<1>2. \A i \in DOMAIN c.sources : Bare(k.sources[i]) = Bare(c.sources[i])
  BY <1>1, BareSame
<1>3. QED
  BY <1>2, StripSame

\* Merging secrets does not change what is written.
LEMMA StripSecrets ==
  ASSUME NEW c \in Config, NEW sec \in Secrets
  PROVE  Strip(ApplySecrets(c, sec)) = Strip(c)
<1> DEFINE k == ApplySecrets(c, sec)
           Value(i) == FirstNonEmpty(sec.proxmox[i], c.sources[i].value)
<1>1. k \in Config
  BY ApplySecretsType
<1>2. ASSUME NEW i \in DOMAIN c.sources PROVE Value(i) \in Optional(Tokens)
  <2>1. c.sources[i] \in Source /\ i \in Ids
    BY ConfigFields
  <2>2. QED
    BY <2>1 DEF Secrets, Source, FirstNonEmpty
<1>3. k.settings = c.settings /\ DOMAIN k.sources = DOMAIN c.sources
  BY DEF ApplySecrets
<1>4. \A i \in DOMAIN c.sources : k.sources[i] = WithValue(c.sources[i], Value(i))
  BY DEF ApplySecrets
<1> HIDE DEF k, Value
<1>5. Strip(k) = Strip(c)
  BY <1>1, <1>2, <1>3, <1>4, StripValues
<1>6. QED
  BY <1>5 DEF k

\* Blanking the values does not change what is written.
LEMMA StripWipe ==
  ASSUME NEW c \in Config
  PROVE  Strip(WipeValues(c)) = Strip(c)
<1> DEFINE k == WipeValues(c)
<1>1. k \in Config
  BY WipeType
<1>2. /\ k.settings = c.settings /\ DOMAIN k.sources = DOMAIN c.sources
      /\ \A i \in DOMAIN c.sources : k.sources[i] = WithValue(c.sources[i], Blank)
  BY DEF WipeValues
<1>3. Blank \in Optional(Tokens)
  BY DEF Optional
<1> HIDE DEF k
<1>4. Strip(k) = Strip(c)
  BY <1>1, <1>2, <1>3, StripValues
<1>5. QED
  BY <1>4 DEF k

\* What was written is written again as it is.
LEMMA StripTwice ==
  ASSUME NEW c \in Config
  PROVE  Strip(Strip(c)) = Strip(c)
<1> DEFINE w == WipeValues(ApplyDefaults(c))
<1>1. w \in Config /\ ApplyDefaults(c) \in Config /\ Strip(c) \in Config
  BY DefaultsType, WipeType, StripType
<1>2. Strip(w) = Strip(c)
  BY <1>1, StripWipe, StripDefaults
<1>3. Strip(c).settings = w.settings /\ Strip(c).sources = w.sources
  BY DEF Strip
<1> HIDE DEF w
<1>4. Strip(Strip(c)) = Strip(w)
  BY <1>1, <1>3, StripSame
<1>5. QED
  BY <1>2, <1>4

\* A restart brings back what config.yaml says.
LEMMA StripLoad ==
  ASSUME NEW c \in Config, NEW sec \in Secrets, ~Mock
  PROVE  Strip(Load(c, sec)) = Strip(c)
BY DefaultsType, StripSecrets, StripDefaults DEF Load

-----------------------------------------------------------------------------
(***************************************************************************)
(* Facts about tokens on their way through memory and files.  A token of a *)
(* live config is there twice, in the config and in the secrets, and after *)
(* a save only in the secrets; merging the two brings it back wherever it  *)
(* is missing.  So a config can stand for any other that differs in those  *)
(* values, and the operations make the same of both.                       *)
(***************************************************************************)
\* No source has a token of its own: a value is the one of the secrets, or blank.
ValuesFrom(c, s) == \A i \in DOMAIN c.sources : c.sources[i].value \in {Blank, s.proxmox[i]}

\* Two sources that differ in nothing but values of the same origin, or the mode
\* that is filled in, are filled in alike.
Filled(src, t) == WithValue(WithMode(src), FirstNonEmpty(t, WithMode(src).value))

LEMMA FilledSame ==
  ASSUME NEW src \in Source, NEW t \in Optional(Tokens), src.value \in {Blank, t}
  PROVE  /\ Filled(Bare(src), t) = Filled(src, t)
         /\ Filled(src, t) = WithValue(WithMode(src), t)
         /\ Filled(src, t).value = t
BY DEF Filled, Bare, Source, WithMode, WithValue, FirstNonEmpty, Blank

\* What apply and Load make of a config, part by part.
LEMMA FilledForm ==
  ASSUME NEW c \in Config, NEW s \in Secrets
  PROVE  ApplySecrets(ApplyDefaults(c), s) =
           [settings |-> WithDefaults(c.settings), display |-> s.display, admin |-> s.admin,
            sources  |-> [i \in DOMAIN c.sources |-> Filled(c.sources[i], s.proxmox[i])]]
BY DEF ApplySecrets, ApplyDefaults, Filled

\* Merging the secrets restores what Save blanked, and a second time nothing more.
LEMMA RestoresValues ==
  ASSUME NEW c \in Config, NEW s \in Secrets, ValuesFrom(c, s)
  PROVE  /\ ValuesFrom(WipeValues(c), s)
         /\ ApplySecrets(WipeValues(c), s) = ApplySecrets(c, s)
         /\ ValuesFrom(ApplySecrets(c, s), s)
         /\ ApplySecrets(ApplySecrets(c, s), s) = ApplySecrets(c, s)
<1> DEFINE D == DOMAIN c.sources
           w == WipeValues(c)
           k == ApplySecrets(c, s)
<1>1. \A i \in D : /\ c.sources[i] \in Source /\ i \in Ids
                   /\ c.sources[i].value \in {Blank, s.proxmox[i]}
  BY ConfigFields DEF ValuesFrom
<1>2. ASSUME NEW i \in D
      PROVE  /\ w.sources[i] = WithValue(c.sources[i], Blank)
             /\ k.sources[i] = WithValue(c.sources[i], s.proxmox[i])
             /\ w.sources[i].value = Blank
             /\ k.sources[i].value = s.proxmox[i]
  <2>1. w.sources[i] = WithValue(c.sources[i], Blank)
    BY DEF WipeValues
  <2>2. k.sources[i] = WithValue(c.sources[i], FirstNonEmpty(s.proxmox[i], c.sources[i].value))
    BY DEF ApplySecrets
  <2>3. FirstNonEmpty(s.proxmox[i], c.sources[i].value) = s.proxmox[i]
    BY <1>1 DEF FirstNonEmpty
  <2>4. QED
    BY <1>1, <2>1, <2>2, <2>3 DEF WithValue, Source
<1>3. DOMAIN w.sources = D /\ DOMAIN k.sources = D
  BY DEF WipeValues, ApplySecrets
<1>4. ASSUME NEW i \in D
      PROVE  /\ WithValue(w.sources[i], FirstNonEmpty(s.proxmox[i], w.sources[i].value))
                = WithValue(c.sources[i], s.proxmox[i])
             /\ WithValue(k.sources[i], FirstNonEmpty(s.proxmox[i], k.sources[i].value))
                = WithValue(c.sources[i], s.proxmox[i])
             /\ WithValue(c.sources[i], FirstNonEmpty(s.proxmox[i], c.sources[i].value))
                = WithValue(c.sources[i], s.proxmox[i])
  <2>1. /\ FirstNonEmpty(s.proxmox[i], w.sources[i].value) = s.proxmox[i]
        /\ FirstNonEmpty(s.proxmox[i], k.sources[i].value) = s.proxmox[i]
        /\ FirstNonEmpty(s.proxmox[i], c.sources[i].value) = s.proxmox[i]
    BY <1>1, <1>2 DEF FirstNonEmpty
  <2>2. WithValue(WithValue(c.sources[i], Blank), s.proxmox[i])
        = WithValue(c.sources[i], s.proxmox[i])
    BY <1>1 DEF WithValue, Source
  <2>3. WithValue(WithValue(c.sources[i], s.proxmox[i]), s.proxmox[i])
        = WithValue(c.sources[i], s.proxmox[i])
    BY <1>1 DEF WithValue, Source
  <2>4. QED
    BY <1>2, <2>1, <2>2, <2>3
<1>5. w.settings = c.settings /\ k.settings = c.settings
  BY DEF WipeValues, ApplySecrets
<1>6. ValuesFrom(w, s) /\ ValuesFrom(k, s)
  BY <1>2, <1>3 DEF ValuesFrom
<1> DEFINE f == [i \in D |-> WithValue(c.sources[i], s.proxmox[i])]
<1> HIDE DEF w, k
<1>7. /\ [i \in DOMAIN w.sources |->
            WithValue(w.sources[i], FirstNonEmpty(s.proxmox[i], w.sources[i].value))] = f
      /\ [i \in DOMAIN k.sources |->
            WithValue(k.sources[i], FirstNonEmpty(s.proxmox[i], k.sources[i].value))] = f
      /\ [i \in DOMAIN c.sources |->
            WithValue(c.sources[i], FirstNonEmpty(s.proxmox[i], c.sources[i].value))] = f
  BY <1>3, <1>4
<1>8. ApplySecrets(w, s) = ApplySecrets(c, s) /\ ApplySecrets(k, s) = ApplySecrets(c, s)
  BY <1>5, <1>7 DEF ApplySecrets
<1>9. QED
  BY <1>6, <1>8 DEF w, k

\* A config without values is filled in to one whose values the secrets have.
LEMMA FilledValues ==
  ASSUME NEW c \in Config, NEW s \in Secrets, ValuesFrom(c, s)
  PROVE  ValuesFrom(ApplySecrets(ApplyDefaults(c), s), s)
<1> DEFINE k == ApplySecrets(ApplyDefaults(c), s)
<1>1. \A i \in DOMAIN c.sources : /\ c.sources[i] \in Source /\ s.proxmox[i] \in Optional(Tokens)
                                  /\ c.sources[i].value \in {Blank, s.proxmox[i]}
  BY ConfigFields DEF ValuesFrom, Secrets
<1>2. /\ DOMAIN k.sources = DOMAIN c.sources
      /\ \A i \in DOMAIN c.sources : k.sources[i] = Filled(c.sources[i], s.proxmox[i])
  BY FilledForm
<1> HIDE DEF k
<1>3. \A i \in DOMAIN c.sources : k.sources[i].value = s.proxmox[i]
  BY <1>1, <1>2, FilledSame
<1>4. ValuesFrom(k, s)
  BY <1>2, <1>3 DEF ValuesFrom
<1>5. QED
  BY <1>4 DEF k

\* What an operation makes of the sources and their tokens.
LEMMA ResultValues ==
  ASSUME NEW op \in Operation, NEW c \in Config, NEW s \in Secrets, ValuesFrom(c, s)
  PROVE  LET r == Result(op, c, s)
         IN  /\ r.config \in Config
             /\ r.secrets \in Secrets
             /\ ValuesFrom(r.config, r.secrets)
<1> DEFINE r == Result(op, c, s)
<1>1. CASE op \in [kind : {"settings"}, in : ServerUpdate]
  <2>1. r \in [config : Config, secrets : Secrets] /\ r = UpdateServer(op.in, c, s)
    BY <1>1, UpdateServerType DEF Result
  <2>2. r.config.sources = c.sources /\ r.secrets.proxmox = s.proxmox
    <3>1. PICK n, d, a : r = [config  |-> [c EXCEPT !.settings = n],
                              secrets |-> [s EXCEPT !.display = d, !.admin = a]]
      BY ZenonT(40), <2>1 DEF UpdateServer
    <3> HIDE DEF r
    <3>2. r.config.sources = c.sources
      BY <3>1 DEF Config
    <3>3. r.secrets.proxmox = s.proxmox
      BY <3>1 DEF Secrets
    <3>4. QED
      BY <3>2, <3>3
  <2>3. QED
    BY <2>1, <2>2 DEF ValuesFrom
<1>2. CASE op \in [kind : {"save"}, in : SourceUpdate]
  <2> DEFINE src == SourceFromUpdate(op.in, c, s)
             t == FirstNonEmpty(op.in.token, s.proxmox[op.in.id])
  <2>1. r \in [config : Config, secrets : Secrets] /\ r = UpsertSource(op.in, c, s)
    BY <1>2, UpsertSourceType DEF Result
  <2>2. op.in.id \in Ids
    BY <1>2 DEF SourceUpdate
  <2>3. src.value = t
    BY DEF SourceFromUpdate
  <2>4. /\ DOMAIN r.config.sources = DOMAIN c.sources \cup {op.in.id}
        /\ \A i \in DOMAIN r.config.sources :
             r.config.sources[i] = IF i = op.in.id THEN src ELSE c.sources[i]
    BY <2>1 DEF UpsertSource, Config
  <2>5. \A i \in Ids : r.secrets.proxmox[i] = IF i = op.in.id THEN t ELSE s.proxmox[i]
    BY <2>1, <2>2 DEF UpsertSource, Secrets
  <2>6. DOMAIN c.sources \subseteq Ids
    BY ConfigFields
  <2> HIDE DEF src, t, r
  <2>7. QED
    BY <2>1, <2>2, <2>3, <2>4, <2>5, <2>6 DEF ValuesFrom, r
<1>3. CASE op \in [kind : {"delete"}, in : [id : Ids]]
  <2>1. r \in [config : Config, secrets : Secrets] /\ r = DeleteSource(op.in.id, c, s)
    BY <1>3, DeleteSourceType DEF Result
  <2>2. /\ DOMAIN r.config.sources = DOMAIN c.sources \ {op.in.id}
        /\ \A i \in DOMAIN r.config.sources : r.config.sources[i] = c.sources[i]
    BY <2>1 DEF DeleteSource, Config
  <2>3. \A i \in Ids \ {op.in.id} : r.secrets.proxmox[i] = s.proxmox[i]
    BY <2>1 DEF DeleteSource, Secrets
  <2>4. DOMAIN c.sources \subseteq Ids
    BY ConfigFields
  <2> HIDE DEF r
  <2>5. QED
    BY <2>1, <2>2, <2>3, <2>4 DEF ValuesFrom, r
<1>4. QED
  BY <1>1, <1>2, <1>3 DEF Operation

\* The mode and the settings, once filled in, stay as they are.
LEMMA FilledDefaults ==
  ASSUME NEW c \in Config, NEW s \in Secrets
  PROVE  LET k == ApplySecrets(ApplyDefaults(c), s) IN ApplyDefaults(k) = k
<1> DEFINE k == ApplySecrets(ApplyDefaults(c), s)
           f == [i \in DOMAIN c.sources |-> Filled(c.sources[i], s.proxmox[i])]
<1>1. k = [settings |-> WithDefaults(c.settings), display |-> s.display,
           admin |-> s.admin, sources |-> f]
  BY FilledForm
<1>2. ASSUME NEW i \in DOMAIN c.sources PROVE WithMode(f[i]) = f[i]
  <2> DEFINE src == c.sources[i]
             v == s.proxmox[i]
  <2>1. src \in Source /\ v \in Optional(Tokens)
    BY ConfigFields DEF Secrets
  <2>2. FirstNonEmpty(v, WithMode(src).value) \in Optional(Tokens)
    BY <2>1 DEF FirstNonEmpty, WithMode, Source
  <2>3. f[i] = Filled(src, v)
    OBVIOUS
  <2> HIDE DEF src, v, f
  <2>4. \A x \in Optional(Tokens) :
          WithMode(WithValue(WithMode(src), x)) = WithValue(WithMode(src), x)
    BY <2>1 DEF WithMode, WithValue, Source, FirstNonEmpty, Blank
  <2>5. QED
    BY <2>2, <2>3, <2>4 DEF Filled
<1>3. WithDefaults(WithDefaults(c.settings)) = WithDefaults(c.settings)
  BY ConfigFields, DefaultsTwice
<1>4. DOMAIN f = DOMAIN c.sources /\ f = [i \in DOMAIN f |-> f[i]]
  OBVIOUS
<1> HIDE DEF f, k
<1>5. [i \in DOMAIN f |-> WithMode(f[i])] = f
  BY <1>2, <1>4
<1>6. ApplyDefaults(k) = k
  BY <1>1, <1>3, <1>5 DEF ApplyDefaults
<1>7. QED
  BY <1>6 DEF k

\* A filled-in config without tokens of its own stays as it is.
LEMMA FilledTwice ==
  ASSUME NEW c \in Config, NEW s \in Secrets, ValuesFrom(c, s)
  PROVE  LET k == ApplySecrets(ApplyDefaults(c), s) IN ApplySecrets(k, s) = k
<1> DEFINE d == ApplyDefaults(c)
<1>1. d \in Config
  BY DefaultsType
<1>2. ValuesFrom(d, s)
  <2>1. \A i \in DOMAIN c.sources : c.sources[i] \in Source
    BY ConfigFields
  <2>2. \A i \in DOMAIN c.sources : d.sources[i].value = c.sources[i].value
    BY <2>1 DEF ApplyDefaults, WithMode, Source
  <2>3. QED
    BY <2>2 DEF ValuesFrom, ApplyDefaults
<1> HIDE DEF d
<1>3. ApplySecrets(ApplySecrets(d, s), s) = ApplySecrets(d, s)
  BY <1>1, <1>2, RestoresValues
<1>4. QED
  BY <1>3 DEF d

\* Blanking values leaves a filled-in config filled in.
LEMMA WipeFilled ==
  ASSUME NEW c \in Config, ApplyDefaults(c) = c
  PROVE  ApplyDefaults(WipeValues(c)) = WipeValues(c)
<1> DEFINE w == WipeValues(c)
<1>1. /\ w.settings = c.settings /\ w.display = c.display /\ w.admin = c.admin
      /\ w.sources = [i \in DOMAIN c.sources |-> WithValue(c.sources[i], Blank)]
      /\ w = [settings |-> w.settings, display |-> w.display, admin |-> w.admin,
              sources |-> w.sources]
  BY DEF WipeValues
<1>2. /\ WithDefaults(c.settings) = c.settings
      /\ \A i \in DOMAIN c.sources : WithMode(c.sources[i]) = c.sources[i]
  BY DEF ApplyDefaults
<1>3. ASSUME NEW i \in DOMAIN c.sources PROVE WithMode(w.sources[i]) = w.sources[i]
  <2>1. c.sources[i] \in Source /\ WithMode(c.sources[i]) = c.sources[i]
    BY <1>2, ConfigFields
  <2>2. WithMode(WithValue(c.sources[i], Blank)) = WithValue(WithMode(c.sources[i]), Blank)
    BY <2>1 DEF WithMode, WithValue, Source
  <2>3. QED
    BY <1>1, <2>1, <2>2
<1> HIDE DEF w
<1>4. DOMAIN w.sources = DOMAIN c.sources /\ w.sources = [i \in DOMAIN w.sources |-> w.sources[i]]
  BY <1>1
<1>5. [i \in DOMAIN w.sources |-> WithMode(w.sources[i])] = w.sources
  BY <1>3, <1>4
<1>6. ApplyDefaults(w) = w
  BY <1>1, <1>2, <1>5 DEF ApplyDefaults
<1>7. QED
  BY <1>6 DEF w

\* The pair that apply saves and publishes: its config has no token of its own.
LEMMA PreparedValues ==
  ASSUME NEW op \in Operation, NEW c \in Config, NEW s \in Secrets, ValuesFrom(c, s)
  PROVE  LET p == Prepared(op, c, s)
         IN  /\ ValuesFrom(p.config, p.secrets)
             /\ ApplySecrets(p.config, p.secrets) = p.config
             /\ ApplyDefaults(p.config) = p.config
<1> DEFINE r == Result(op, c, s)
<1>1. r.config \in Config /\ r.secrets \in Secrets /\ ValuesFrom(r.config, r.secrets)
  BY ResultValues
<1> HIDE DEF r
<1>2. QED
  BY <1>1, FilledValues, FilledTwice, FilledDefaults DEF Prepared, r

\* What a restart works with has no token of its own either.
LEMMA LoadValues ==
  ASSUME NEW c \in Config, NEW s \in Secrets, WipeValues(c) = c
  PROVE  /\ ValuesFrom(Load(c, s), s)
         /\ ApplyDefaults(Load(c, s)) = Load(c, s)
         /\ ~Mock => ApplySecrets(Load(c, s), s) = Load(c, s)
<1>1. CASE Mock
  <2>1. WithDefaults(DefaultSettings) = DefaultSettings
    BY DEF WithDefaults, DefaultSettings, NonZero
  <2>2. [i \in DOMAIN NewDefault.sources |-> WithMode(NewDefault.sources[i])]
        = NewDefault.sources
    BY DEF NewDefault
  <2>3. ApplyDefaults(NewDefault) = NewDefault
    BY <2>1, <2>2 DEF ApplyDefaults, NewDefault
  <2>4. ValuesFrom(NewDefault, s)
    BY DEF ValuesFrom, NewDefault
  <2>5. QED
    BY <1>1, <2>3, <2>4 DEF Load
<1>2. CASE ~Mock
  <2>1. \A i \in DOMAIN c.sources : c.sources[i] = WithValue(c.sources[i], Blank)
    <3>1. WipeValues(c).sources = [i \in DOMAIN c.sources |-> WithValue(c.sources[i], Blank)]
      BY DEF WipeValues
    <3>2. QED
      BY <3>1
  <2>2. \A i \in DOMAIN c.sources : c.sources[i].value = Blank
    BY ZenonT(40), <2>1, ConfigFields DEF WithValue, Source
  <2>3. ValuesFrom(c, s)
    BY <2>2 DEF ValuesFrom
  <2>4. QED
    BY <1>2, <2>3, FilledValues, FilledTwice, FilledDefaults DEF Load
<1>3. QED
  BY <1>1, <1>2

\* What Save writes to config.yaml has no value to blank.
LEMMA StripWiped ==
  ASSUME NEW c \in Config
  PROVE  WipeValues(Strip(c)) = Strip(c)
<1>1. \A i \in DOMAIN c.sources : c.sources[i] \in Source
  BY ConfigFields
<1>2. \A i \in DOMAIN c.sources : WithValue(Bare(c.sources[i]), Blank) = Bare(c.sources[i])
  BY <1>1 DEF Bare, WithValue, WithMode, Source
<1> DEFINE f == [i \in DOMAIN c.sources |-> Bare(c.sources[i])]
<1>3. Strip(c) = [settings |-> WithDefaults(c.settings), display |-> Blank,
                  admin |-> Blank, sources |-> f]
  BY StripForm
<1>4. [i \in DOMAIN f |-> WithValue(f[i], Blank)] = f
  BY <1>2
<1> HIDE DEF f
<1>5. QED
  BY <1>3, <1>4 DEF WipeValues

-----------------------------------------------------------------------------
(***************************************************************************)
(* A config and what config.yaml has of it.                                *)
(***************************************************************************)
\* Two configs whose parts are filled in alike are filled in alike.
LEMMA FilledAlike ==
  ASSUME NEW c \in Config, NEW k \in Config, NEW s \in Secrets,
         WithDefaults(k.settings) = WithDefaults(c.settings),
         DOMAIN k.sources = DOMAIN c.sources,
         \A i \in DOMAIN c.sources :
           Filled(k.sources[i], s.proxmox[i]) = Filled(c.sources[i], s.proxmox[i])
  PROVE  ApplySecrets(ApplyDefaults(k), s) = ApplySecrets(ApplyDefaults(c), s)
<1>1. [i \in DOMAIN k.sources |-> Filled(k.sources[i], s.proxmox[i])]
      = [i \in DOMAIN c.sources |-> Filled(c.sources[i], s.proxmox[i])]
  OBVIOUS
<1>2. QED
  BY <1>1, FilledForm

\* The parts of what config.yaml has.
LEMMA StripParts ==
  ASSUME NEW c \in Config
  PROVE  /\ Strip(c) \in Config
         /\ Strip(c).settings = WithDefaults(c.settings)
         /\ DOMAIN Strip(c).sources = DOMAIN c.sources
         /\ \A i \in DOMAIN c.sources : Strip(c).sources[i] = Bare(c.sources[i])
BY StripType, StripForm

\* config.yaml has no token.
LEMMA StripValuesFrom ==
  ASSUME NEW c \in Config, NEW s
  PROVE  ValuesFrom(Strip(c), s)
<1>1. \A i \in DOMAIN c.sources : c.sources[i] \in Source
  BY ConfigFields
<1>2. \A i \in DOMAIN c.sources : Bare(c.sources[i]).value = Blank
  BY <1>1 DEF Bare, WithValue, WithMode, Source
<1>3. QED
  BY <1>2, StripParts DEF ValuesFrom

\* A source page is merged with what is saved in the same way.
LEMMA UpdateStripped ==
  ASSUME NEW in \in SourceUpdate, NEW c \in Config, NEW s \in Secrets
  PROVE  SourceFromUpdate(in, Strip(c), s) = SourceFromUpdate(in, c, s)
<1> DEFINE old == Existing(c, in.id)
           kept == Existing(Strip(c), in.id)
<1>1. /\ kept.url = old.url /\ kept.env = old.env /\ kept.pin = old.pin /\ kept.ca = old.ca
      /\ FirstNonEmpty(kept.mode, "fingerprint") = FirstNonEmpty(old.mode, "fingerprint")
  <2>1. CASE in.id \in DOMAIN c.sources
    <3>1. c.sources[in.id] \in Source
      BY <2>1, ConfigFields
    <3>2. old = c.sources[in.id] /\ kept = Bare(c.sources[in.id])
      BY <2>1, StripParts DEF Existing
    <3> HIDE DEF old, kept
    <3>3. QED
      BY <3>1, <3>2 DEF Bare, WithValue, WithMode, Source, FirstNonEmpty, Blank
  <2>2. CASE in.id \notin DOMAIN c.sources
    BY <2>2, StripParts DEF Existing
  <2>3. QED
    BY <2>1, <2>2
<1> HIDE DEF old, kept
<1>2. QED
  BY <1>1 DEF SourceFromUpdate, old, kept, FirstNonEmpty

\* What an operation makes of a config does not depend on the values it holds:
\* config.yaml and secrets.yaml, once written, say all that counts.
LEMMA PreparedStripped ==
  ASSUME NEW op \in Operation, NEW c \in Config, NEW s \in Secrets, ValuesFrom(c, s)
  PROVE  /\ Prepared(op, Strip(c), s) = Prepared(op, c, s)
         /\ Accepted(op, Strip(c), s) <=> Accepted(op, c, s)
<1> DEFINE r == Result(op, c, s)
           q == Result(op, Strip(c), s)
           id == op.in.id
<1>1. Strip(c) \in Config /\ ValuesFrom(Strip(c), s)
  BY StripType, StripValuesFrom
<1>2. /\ r.config \in Config /\ r.secrets \in Secrets /\ q.config \in Config
  BY <1>1, ResultValues
<1>3. \A i \in DOMAIN c.sources :
        /\ c.sources[i] \in Source
        /\ s.proxmox[i] \in Optional(Tokens)
        /\ c.sources[i].value \in {Blank, s.proxmox[i]}
        /\ Filled(Strip(c).sources[i], s.proxmox[i]) = Filled(c.sources[i], s.proxmox[i])
  <2>1. \A i \in DOMAIN c.sources :
        /\ c.sources[i] \in Source
        /\ s.proxmox[i] \in Optional(Tokens)
        /\ c.sources[i].value \in {Blank, s.proxmox[i]}
    BY ConfigFields DEF ValuesFrom, Secrets
  <2>2. QED
    BY <2>1, FilledSame, StripParts
<1>4. /\ q.secrets = r.secrets
      /\ WithDefaults(q.config.settings) = WithDefaults(r.config.settings)
      /\ DOMAIN q.config.sources = DOMAIN r.config.sources
      /\ \A i \in DOMAIN r.config.sources :
           Filled(q.config.sources[i], r.secrets.proxmox[i])
             = Filled(r.config.sources[i], r.secrets.proxmox[i])
      /\ OperationOK(op, Strip(c), s) <=> OperationOK(op, c, s)
  <2>1. CASE op \in [kind : {"settings"}, in : ServerUpdate]
    <3>1. PICK n, d, a :
            /\ r = [config  |-> [c EXCEPT !.settings = n],
                    secrets |-> [s EXCEPT !.display = d, !.admin = a]]
            /\ q = [config  |-> [Strip(c) EXCEPT !.settings = n],
                    secrets |-> [s EXCEPT !.display = d, !.admin = a]]
      BY ZenonT(40), <2>1 DEF Result, UpdateServer
    <3>2. OperationOK(op, Strip(c), s) <=> OperationOK(op, c, s)
      BY <2>1 DEF OperationOK
    <3> HIDE DEF r, q
    <3>3. /\ q.secrets = r.secrets /\ r.secrets.proxmox = s.proxmox
          /\ q.config.settings = r.config.settings
          /\ r.config.sources = c.sources /\ q.config.sources = Strip(c).sources
      <4>1. q.secrets = r.secrets
        BY <3>1
      <4>2. r.secrets.proxmox = s.proxmox
        BY <3>1 DEF Secrets
      <4>3. r.config.settings = n /\ r.config.sources = c.sources
        BY <3>1 DEF Config
      <4>4. q.config.settings = n /\ q.config.sources = Strip(c).sources
        BY <1>1, <3>1 DEF Config
      <4>5. QED
        BY <4>1, <4>2, <4>3, <4>4
    <3>4. QED
      BY <1>3, <3>2, <3>3, StripParts
  <2>2. CASE op \in [kind : {"save"}, in : SourceUpdate]
    <3> DEFINE src == SourceFromUpdate(op.in, c, s)
    <3>1. /\ r = UpsertSource(op.in, c, s) /\ q = UpsertSource(op.in, Strip(c), s)
          /\ SourceFromUpdate(op.in, Strip(c), s) = src
          /\ id \in Ids
      BY <2>2, UpdateStripped DEF Result, SourceUpdate
    <3>2. /\ DOMAIN r.config.sources = DOMAIN c.sources \cup {id}
          /\ \A i \in DOMAIN r.config.sources :
               r.config.sources[i] = IF i = id THEN src ELSE c.sources[i]
          /\ r.config.settings = c.settings
      BY <3>1 DEF UpsertSource, Config
    <3>3. /\ DOMAIN q.config.sources = DOMAIN c.sources \cup {id}
          /\ \A i \in DOMAIN q.config.sources :
               q.config.sources[i] = IF i = id THEN src ELSE Strip(c).sources[i]
          /\ q.config.settings = WithDefaults(c.settings)
      BY <1>1, <3>1, StripParts DEF UpsertSource, Config
    <3>4. /\ q.secrets = r.secrets
          /\ \A i \in Ids \ {id} : r.secrets.proxmox[i] = s.proxmox[i]
      BY <3>1 DEF UpsertSource, Secrets
    <3>5. OperationOK(op, Strip(c), s) <=> OperationOK(op, c, s)
      BY <2>2, <3>1 DEF OperationOK, UpsertSourceOK
    <3>6. WithDefaults(q.config.settings) = WithDefaults(r.config.settings)
      BY <3>2, <3>3, ConfigFields, DefaultsTwice
    <3> HIDE DEF src, r, q, id
    <3>7. \A i \in DOMAIN r.config.sources :
            Filled(q.config.sources[i], r.secrets.proxmox[i])
              = Filled(r.config.sources[i], r.secrets.proxmox[i])
      BY <1>3, <3>2, <3>3, <3>4, ConfigFields
    <3>8. QED
      BY <3>2, <3>3, <3>4, <3>5, <3>6, <3>7
  <2>3. CASE op \in [kind : {"delete"}, in : [id : Ids]]
    <3>1. r = DeleteSource(id, c, s) /\ q = DeleteSource(id, Strip(c), s)
      BY <2>3 DEF Result
    <3>2. /\ DOMAIN r.config.sources = DOMAIN c.sources \ {id}
          /\ \A i \in DOMAIN r.config.sources : r.config.sources[i] = c.sources[i]
          /\ r.config.settings = c.settings
      BY <3>1 DEF DeleteSource, Config
    <3>3. /\ DOMAIN q.config.sources = DOMAIN c.sources \ {id}
          /\ \A i \in DOMAIN q.config.sources : q.config.sources[i] = Strip(c).sources[i]
          /\ q.config.settings = WithDefaults(c.settings)
      BY <1>1, <3>1, StripParts DEF DeleteSource, Config
    <3>4. /\ q.secrets = r.secrets
          /\ \A i \in Ids \ {id} : r.secrets.proxmox[i] = s.proxmox[i]
      BY <3>1 DEF DeleteSource, Secrets
    <3>5. OperationOK(op, Strip(c), s) <=> OperationOK(op, c, s)
      BY <2>3, StripParts DEF OperationOK, DeleteSourceOK
    <3>6. WithDefaults(q.config.settings) = WithDefaults(r.config.settings)
      BY <3>2, <3>3, ConfigFields, DefaultsTwice
    <3> HIDE DEF r, q, id
    <3>7. \A i \in DOMAIN r.config.sources :
            Filled(q.config.sources[i], r.secrets.proxmox[i])
              = Filled(r.config.sources[i], r.secrets.proxmox[i])
      BY <1>3, <3>2, <3>3, <3>4, ConfigFields
    <3>8. QED
      BY <3>2, <3>3, <3>4, <3>5, <3>6, <3>7
  <2>4. QED
    BY <2>1, <2>2, <2>3 DEF Operation
<1> HIDE DEF r, q
<1>5. ApplySecrets(ApplyDefaults(q.config), r.secrets)
      = ApplySecrets(ApplyDefaults(r.config), r.secrets)
  BY <1>2, <1>4, FilledAlike
<1>6. Prepared(op, Strip(c), s) = Prepared(op, c, s)
  BY <1>4, <1>5 DEF Prepared, r, q
<1>7. QED
  BY <1>4, <1>6 DEF Accepted

-----------------------------------------------------------------------------
(***************************************************************************)
(* What an operation leaves alone.                                         *)
(***************************************************************************)
PasswordsOf(s) == <<s.display, s.admin>>

\* An operation about a source leaves the tokens of the bridge as they are; the
\* prepared config carries those of the prepared secrets.
LEMMA PreparedPasswords ==
  ASSUME NEW op \in Operation, NEW c \in Config, NEW s \in Secrets
  PROVE  LET p == Prepared(op, c, s)
         IN  /\ PasswordsOf(p.config) = PasswordsOf(p.secrets)
             /\ op.kind # "settings" => PasswordsOf(p.secrets) = PasswordsOf(s)
<1> DEFINE r == Result(op, c, s)
<1>1. PasswordsOf(Prepared(op, c, s).config) = PasswordsOf(Prepared(op, c, s).secrets)
  BY DEF Prepared, ApplySecrets, PasswordsOf
<1>2. ASSUME op.kind # "settings" PROVE PasswordsOf(r.secrets) = PasswordsOf(s)
  <2>1. op.kind \in {"save", "delete"}
    BY <1>2 DEF Operation
  <2>2. CASE op.kind = "save"
    BY <2>2 DEF Result, UpsertSource, PasswordsOf, Secrets
  <2>3. CASE op.kind = "delete"
    BY <2>3 DEF Result, DeleteSource, PasswordsOf, Secrets
  <2>4. QED
    BY <2>1, <2>2, <2>3
<1>3. QED
  BY <1>1, <1>2 DEF Prepared

\* An operation about a source leaves the settings as they are, filled in.
LEMMA PreparedSettings ==
  ASSUME NEW op \in Operation, NEW c \in Config, NEW s \in Secrets,
         op.kind # "settings", ApplyDefaults(c) = c
  PROVE  Prepared(op, c, s).config.settings = c.settings
<1> DEFINE r == Result(op, c, s)
<1>1. r.config.settings = c.settings
  <2>1. CASE op.kind = "save"
    BY <2>1 DEF Result, UpsertSource, Config
  <2>2. CASE op.kind = "delete"
    BY <2>2 DEF Result, DeleteSource, Config
  <2>3. QED
    BY <2>1, <2>2 DEF Operation
<1>2. WithDefaults(c.settings) = c.settings
  BY DEF ApplyDefaults
<1> HIDE DEF r
<1>3. QED
  BY <1>1, <1>2 DEF Prepared, ApplySecrets, ApplyDefaults, r

\* An operation about something else leaves a source as it is, filled in.
LEMMA PreparedElsewhere ==
  ASSUME NEW op \in Operation, NEW c \in Config, NEW s \in Secrets, ValuesFrom(c, s),
         NEW t \in Ids, op.kind # "settings" => op.in.id # t
  PROVE  LET p == Prepared(op, c, s)
         IN  /\ t \in DOMAIN p.config.sources <=> t \in DOMAIN c.sources
             /\ t \in DOMAIN c.sources =>
                  p.config.sources[t] = Filled(c.sources[t], s.proxmox[t])
             /\ p.secrets.proxmox[t] = s.proxmox[t]
<1> DEFINE r == Result(op, c, s)
           k == ApplySecrets(ApplyDefaults(r.config), r.secrets)
<1>1. r.config \in Config /\ r.secrets \in Secrets
  BY ResultValues
<1>2. /\ t \in DOMAIN r.config.sources <=> t \in DOMAIN c.sources
      /\ t \in DOMAIN c.sources => r.config.sources[t] = c.sources[t]
      /\ r.secrets.proxmox[t] = s.proxmox[t]
  <2>1. CASE op \in [kind : {"settings"}, in : ServerUpdate]
    <3>1. PICK n, d, a : r = [config  |-> [c EXCEPT !.settings = n],
                              secrets |-> [s EXCEPT !.display = d, !.admin = a]]
      BY ZenonT(40), <2>1 DEF Result, UpdateServer
    <3> HIDE DEF r
    <3>2. r.config.sources = c.sources
      BY <3>1 DEF Config
    <3>3. r.secrets.proxmox = s.proxmox
      BY <3>1 DEF Secrets
    <3>4. QED
      BY <3>2, <3>3
  <2>2. CASE op \in [kind : {"save"}, in : SourceUpdate]
    <3>1. r = UpsertSource(op.in, c, s) /\ op.in.id # t
      BY <2>2 DEF Result
    <3>2. /\ DOMAIN r.config.sources = DOMAIN c.sources \cup {op.in.id}
          /\ \A i \in DOMAIN r.config.sources \ {op.in.id} :
               r.config.sources[i] = c.sources[i]
      BY <3>1 DEF UpsertSource, Config
    <3>3. r.secrets.proxmox[t] = s.proxmox[t]
      BY <3>1 DEF UpsertSource, Secrets
    <3> HIDE DEF r
    <3>4. QED
      BY <3>1, <3>2, <3>3
  <2>3. CASE op \in [kind : {"delete"}, in : [id : Ids]]
    <3>1. r = DeleteSource(op.in.id, c, s) /\ op.in.id # t
      BY <2>3 DEF Result
    <3>2. /\ DOMAIN r.config.sources = DOMAIN c.sources \ {op.in.id}
          /\ \A i \in DOMAIN r.config.sources : r.config.sources[i] = c.sources[i]
      BY <3>1 DEF DeleteSource, Config
    <3>3. r.secrets.proxmox[t] = s.proxmox[t]
      BY <3>1 DEF DeleteSource, Secrets
    <3> HIDE DEF r
    <3>4. QED
      BY <3>1, <3>2, <3>3
  <2>4. QED
    BY <2>1, <2>2, <2>3 DEF Operation
<1>3. Prepared(op, c, s) = [config |-> k, secrets |-> r.secrets]
  BY DEF Prepared
<1> HIDE DEF r
<1>4. /\ DOMAIN k.sources = DOMAIN r.config.sources
      /\ \A i \in DOMAIN r.config.sources :
           k.sources[i] = Filled(r.config.sources[i], r.secrets.proxmox[i])
  BY <1>1, FilledForm
<1> HIDE DEF k
<1>5. QED
  BY <1>2, <1>3, <1>4

\* Only a delete takes a token away, and it takes only its own.
LEMMA TokenGone ==
  ASSUME NEW op \in Operation, NEW c \in Config, NEW s \in Secrets, NEW i \in Ids,
         s.proxmox[i] # Blank, Prepared(op, c, s).secrets.proxmox[i] = Blank
  PROVE  op.kind = "delete" /\ op.in.id = i
<1>1. Prepared(op, c, s).secrets = Result(op, c, s).secrets
  BY DEF Prepared
<1>2. CASE op \in [kind : {"settings"}, in : ServerUpdate]
  <2>1. PICK d, a : Result(op, c, s).secrets = [s EXCEPT !.display = d, !.admin = a]
    BY <1>2 DEF Result, UpdateServer
  <2>2. QED
    BY <1>1, <2>1 DEF Secrets
<1>3. CASE op \in [kind : {"save"}, in : SourceUpdate]
  <2>1. Result(op, c, s).secrets =
          [s EXCEPT !.proxmox[op.in.id] = FirstNonEmpty(op.in.token, s.proxmox[op.in.id])]
    BY <1>3 DEF Result, UpsertSource
  <2>2. QED
    BY <1>1, <2>1 DEF Secrets, FirstNonEmpty
<1>4. CASE op \in [kind : {"delete"}, in : [id : Ids]]
  <2>1. Result(op, c, s).secrets = [s EXCEPT !.proxmox[op.in.id] = Blank]
    BY <1>4 DEF Result, DeleteSource
  <2>2. QED
    BY <1>1, <1>4, <2>1 DEF Secrets
<1>5. QED
  BY <1>2, <1>3, <1>4 DEF Operation
=============================================================================
