----------------------- MODULE ConnectorWebhookProofs -----------------------
(***************************************************************************)
(* Proofs about ConnectorWebhook: types, replays, retired secrets and the  *)
(* rate limit, for any messages, owners, limits and times.                 *)
(***************************************************************************)
EXTENDS ConnectorWebhook, Induction

(* Types.  A history maps some messages to the times they were seen.       *)
Hashes == Secrets \cup {NoSecret}
Histories == UNION {[D -> Times] : D \in SUBSET Messages}
Configs == [secret_hash : Hashes, nonces : Histories, started : Times \cup {-1},
            count : 0 .. MaxLimit]
Limits == 1 .. MaxLimit
Connectors == [enabled : BOOLEAN, limit : Limits, secret_ref : BOOLEAN, config : Configs,
               effects : [Messages -> 0 .. 2], passed : [Times -> Nat]]
Lost == [forgotten : SUBSET Messages, restored : SUBSET Hashes, miscounted : BOOLEAN]

Reading == [at : {"nonce", "rate"}, message : Messages, config : Configs, seen : Times]
Checked == [at : {"checked"}, message : Messages]
Passing == [at : {"payload"}, message : Messages, seen : Times]
Writing == [at : {"write"}, old : Configs, new : Configs, lost : Lost,
            retires : SUBSET Hashes]
Saved == [at : {"saved"}, retires : SUBSET Hashes]

(* A configuration: its history is within the limit and its window has     *)
(* begun not later than time, unless the owner sent them so.               *)
ConfigOK(c, time) ==
    /\ IsFiniteSet(DOMAIN c.nonces)
    /\ Cardinality(DOMAIN c.nonces) <= MaxTracked + 1 \/ c.nonces \in PatchedNonces
    /\ c.started <= time \/ c.started \in PatchedStarts

ConnectorOK(c, time) == c \in Connectors /\ ConfigOK(c.config, time)
SentOK(msgs) ==
    /\ DOMAIN msgs \subseteq Messages
    /\ \A m \in DOMAIN msgs : msgs[m] \in [timestamp : Int, secret : Secrets]
WebhookOK(w, time) ==
    /\ w \in Reading \cup Checked \cup Passing \cup {IdleWebhook}
    /\ w.at \in {"nonce", "rate"} => ConfigOK(w.config, w.seen) /\ w.seen <= time
    /\ w.at = "payload" => w.seen <= time
OwnerOK(r, time) ==
    /\ r \in Writing \cup Saved \cup {IdleOwner}
    /\ r.at = "write" => ConfigOK(r.old, time) /\ ConfigOK(r.new, time)
Losses == [forgotten : SUBSET Messages, restored : SUBSET Hashes,
               miscounted : BOOLEAN, retired : SUBSET Hashes, highest : Limits]

TypeInv ==
    /\ ConnectorOK(connector, now) /\ ConnectorOK(disk, now) /\ now \in Times
    /\ SentOK(sent) /\ WebhookOK(webhook, now)
    /\ owner = [o \in Owners |-> owner[o]] /\ \A o \in Owners : OwnerOK(owner[o], now)
    /\ events \in 0 .. MaxEvents /\ issued \in 1 .. events + 1
    /\ history \in Losses
    /\ connector.limit <= history.highest /\ disk.limit <= history.highest

-----------------------------------------------------------------------------
(* Replays.                                                                *)

(* A nonce was seen when its message was acceptable, unless the history    *)
(* was tampered with.                                                      *)
SeenInTime(h, msgs, forgotten) ==
    \A m \in DOMAIN h :
        \/ m \in forgotten
        \/ m \in DOMAIN msgs /\ h[m] >= msgs[m].timestamp - Tolerance

(* Two histories agree but for the nonces forgotten.                       *)
SameNonces(h, k, forgotten) ==
    \A m \in (DOMAIN h \cup DOMAIN k) \ forgotten :
        m \in DOMAIN h /\ m \in DOMAIN k /\ h[m] = k[m]
WriteOK(r, msgs, forgotten) ==
    /\ SameNonces(r.old.nonces, r.new.nonces, r.lost.forgotten)
    /\ SeenInTime(r.old.nonces, msgs, forgotten)

(* Another delivery of m is refused: its nonce is there or its time is     *)
(* over, unless the nonce was forgotten.                                   *)
Refusable(h, m, msgs, time, forgotten) ==
    \/ m \in forgotten
    \/ time > msgs[m].timestamp + Tolerance
    \/ m \in DOMAIN h

EffectsOK(c, msgs, time, forgotten) ==
    \A m \in Messages :
        /\ c.effects[m] > 0 =>
              m \in DOMAIN msgs /\ Refusable(c.config.nonces, m, msgs, time, forgotten)
        /\ c.effects[m] > 1 => m \in forgotten

NonceInv ==
    /\ SeenInTime(connector.config.nonces, sent, history.forgotten)
    /\ SeenInTime(disk.config.nonces, sent, history.forgotten)
    /\ EffectsOK(connector, sent, now, history.forgotten)
    /\ EffectsOK(disk, sent, now, history.forgotten)
    /\ \A o \in Owners : owner[o].at = "write" => WriteOK(owner[o], sent, history.forgotten)
    /\ webhook.at \in {"nonce", "rate"} =>
          SeenInTime(webhook.config.nonces, sent, history.forgotten)
    /\ webhook.at # "idle" => webhook.message \in DOMAIN sent
    /\ webhook.at = "nonce" =>
          /\ webhook.seen - sent[webhook.message].timestamp \in -Tolerance .. Tolerance
          /\ connector.effects[webhook.message] > 0 =>
                \/ webhook.message \in history.forgotten
                \/ webhook.message \in DOMAIN webhook.config.nonces
    /\ webhook.at \in {"checked", "rate", "payload"} =>
          /\ connector.effects[webhook.message] > 0 =>
                webhook.message \in history.forgotten
          /\ Refusable(connector.config.nonces, webhook.message, sent, now,
                       history.forgotten)

-----------------------------------------------------------------------------
(* Secrets.                                                                *)

(* A secret that one thread of the owner is about to write is nowhere else *)
(* yet.                                                                    *)
Unseen(o, s) ==
    /\ s # connector.config.secret_hash /\ s # disk.config.secret_hash
    /\ webhook.at \in {"nonce", "rate"} => s # webhook.config.secret_hash
    /\ s \notin history.retired
    /\ \A p \in Owners :
          /\ owner[p].at \in {"write", "saved"} => s \notin owner[p].retires
          /\ owner[p].at = "write" =>
                /\ s # owner[p].old.secret_hash
                /\ p # o => s # owner[p].new.secret_hash

IssuedSecrets == 1 .. issued \cup {NoSecret}

(* What a write that brings no new secret may write.                       *)
Patchable(r) == {r.old.secret_hash, NoSecret} \cup r.lost.restored

SecretInv ==
    /\ {connector.config.secret_hash, disk.config.secret_hash} \subseteq IssuedSecrets
    /\ webhook.at \in {"nonce", "rate"} => webhook.config.secret_hash \in IssuedSecrets
    /\ history.retired \subseteq IssuedSecrets
    /\ \A o \in Owners :
          /\ owner[o].at \in {"write", "saved"} => owner[o].retires \subseteq IssuedSecrets
          /\ owner[o].at = "write" =>
                /\ owner[o].old.secret_hash \in IssuedSecrets
                /\ owner[o].new.secret_hash \in IssuedSecrets
                /\ owner[o].new.secret_hash \notin owner[o].retires \ {NoSecret}
                /\ \/ owner[o].new.secret_hash \in Patchable(owner[o])
                   \/ Unseen(o, owner[o].new.secret_hash)
          /\ owner[o].at = "saved"
             /\ connector.config.secret_hash \in owner[o].retires \ {NoSecret}
                => connector.config.secret_hash \in history.restored
    /\ \A c \in {connector, disk} :
          c.config.secret_hash \in history.retired \ {NoSecret} =>
              c.config.secret_hash \in history.restored

-----------------------------------------------------------------------------
(* The rate limit.                                                         *)

(* The times from s on, the ones less than a window before it, and the     *)
(* ones before it of a stretch that is as long as a window.                *)
From(s) == {u \in Times : u >= s}
ShortlyBefore(s) == {u \in Times : u < s /\ u > s - Window}
StretchBefore(s, t) == {u \in Times : u < s /\ u >= t /\ u < t + Window}

(* The limit holds within the current window, shortly before it, and, with *)
(* its factor of two, in every stretch before it; pending requests of the  *)
(* window are yet to be carried out.                                       *)
RateOK(c, pending, highest) ==
    LET start == c.config.started
    IN  /\ \A u \in Times : c.passed[u] > 0 => start # -1 /\ u < start + Window
        /\ SumFunctionOnSet(c.passed, From(start)) + pending <= c.config.count
        /\ SumFunctionOnSet(c.passed, From(start)) + pending <= highest
        /\ SumFunctionOnSet(c.passed, ShortlyBefore(start)) <= highest
        /\ \A t \in Times : SumFunctionOnSet(c.passed, StretchBefore(start, t)) <= 2 * highest

(* A request that passed belongs to the window, windows do not begin in    *)
(* the future, and no request of the owner means to change the counter.    *)
WindowOK(w, c) ==
    /\ w.at = "payload" =>
          /\ c.config.started # -1
          /\ w.seen >= c.config.started
          /\ w.seen < c.config.started + Window
    /\ w.at = "rate" => w.config.started <= w.seen
CountKept(r) ==
    r.at = "write" /\ ~r.lost.miscounted =>
        r.new.started = r.old.started /\ r.new.count = r.old.count
Pending(w) == IF w.at = "payload" THEN 1 ELSE 0

RateInv ==
    ~history.miscounted =>
        /\ RateOK(connector, Pending(webhook), history.highest)
        /\ RateOK(disk, 0, history.highest)
        /\ connector.config.started <= now /\ disk.config.started <= now
        /\ WindowOK(webhook, connector)
        /\ \A o \in Owners : CountKept(owner[o])

-----------------------------------------------------------------------------
(* Types of what the steps compute.                                        *)

\* The constants as numbers.
LEMMA Numbers ==
  /\ Tolerance \in Nat /\ Tolerance > 0 /\ MaxTracked \in Nat /\ MaxTracked > 0
  /\ Window \in Nat /\ Window > 0 /\ MaxLimit \in Nat /\ MaxLimit > 0
  /\ MaxEvents \in Nat /\ MaxTime \in Nat /\ NonceTTL = 2 * Tolerance
  /\ Times \subseteq Nat /\ Secrets \subseteq Nat /\ NoSecret \notin Secrets
  /\ FirstLimit \in Limits /\ Limits \subseteq Nat
  BY WebhookAssumption DEF Times, Secrets, Limits

\* Times as numbers.
LEMMA TimeNumbers ==
  /\ \A t \in Times : t \in Nat /\ t <= MaxTime
  /\ \A s \in Times \cup {-1} : s \in Int /\ s >= -1
  BY Numbers DEF Times

\* A history is a function from messages to times.
LEMMA HistoryType ==
  ASSUME NEW h
  PROVE  h \in Histories <=>
           /\ h = [m \in DOMAIN h |-> h[m]] /\ DOMAIN h \subseteq Messages
           /\ \A m \in DOMAIN h : h[m] \in Times
  <1>1. ASSUME h \in Histories
        PROVE  /\ h = [m \in DOMAIN h |-> h[m]] /\ DOMAIN h \subseteq Messages
               /\ \A m \in DOMAIN h : h[m] \in Times
    <2>1. PICK D \in SUBSET Messages : h \in [D -> Times]
      BY <1>1 DEF Histories
    <2> QED
      BY <2>1
  <1>2. ASSUME h = [m \in DOMAIN h |-> h[m]], DOMAIN h \subseteq Messages,
               \A m \in DOMAIN h : h[m] \in Times
        PROVE  h \in Histories
    <2>1. h \in [DOMAIN h -> Times] /\ DOMAIN h \in SUBSET Messages
      BY <1>2
    <2> QED
      BY <2>1 DEF Histories
  <1> QED
    BY <1>1, <1>2

\* A configuration that was read earlier is still one.
LEMMA ConfigLater ==
  ASSUME NEW c \in Configs, NEW s \in Nat, NEW t \in Nat, s <= t, ConfigOK(c, s)
  PROVE  ConfigOK(c, t)
  <1>1. c.started \in Times \cup {-1}
    BY DEF Configs
  <1>2. c.started \in Int
    BY <1>1, TimeNumbers
  <1> QED
    BY <1>2 DEF ConfigOK

\* What cleaning keeps: at most MaxTracked of the nonces within their time.
LEMMA CleanedType ==
  ASSUME NEW c \in Configs, NEW s, ConfigOK(c, s), NEW t \in Times,
         NEW h \in _clean_hmac_nonce_history(c, t)
  PROVE  /\ h \in Histories /\ DOMAIN h \subseteq Kept(c, t) /\ Kept(c, t) \subseteq DOMAIN c.nonces
         /\ \A m \in DOMAIN h : h[m] = c.nonces[m]
         /\ IsFiniteSet(DOMAIN h) /\ Cardinality(DOMAIN h) <= MaxTracked
  <1> DEFINE kept == Kept(c, t)
  <1>1. kept \subseteq DOMAIN c.nonces
    BY DEF Kept
  <1>2. c.nonces \in Histories /\ IsFiniteSet(DOMAIN c.nonces)
    BY DEF Configs, ConfigOK
  <1>3. DOMAIN c.nonces \subseteq Messages /\ \A m \in DOMAIN c.nonces : c.nonces[m] \in Times
    BY <1>2, HistoryType
  <1>4. IsFiniteSet(kept) /\ Cardinality(kept) \in Nat
    BY <1>1, <1>2, FS_Subset, FS_CardinalityType
  <1> HIDE DEF kept
  <1>5. PICK T \in IF Cardinality(kept) > MaxTracked
                   THEN {T \in kSubset(MaxTracked, kept) :
                           \A m \in T, n \in kept \ T : c.nonces[n] <= c.nonces[m]}
                   ELSE {kept} :
           h = Restrict(c.nonces, T)
    BY DEF _clean_hmac_nonce_history, kept
  <1>6. T \subseteq kept /\ Cardinality(T) <= MaxTracked
    <2>1. CASE Cardinality(kept) > MaxTracked
      <3>1. T \in kSubset(MaxTracked, kept)
        BY <1>5, <2>1
      <3>2. T \subseteq kept /\ Cardinality(T) = MaxTracked
        BY <3>1 DEF kSubset
      <3> QED
        BY <3>2, Numbers
    <2>2. CASE ~(Cardinality(kept) > MaxTracked)
      <3>1. T = kept
        BY <1>5, <2>2
      <3> QED
        BY <1>4, <2>2, <3>1, Numbers
    <2> QED
      BY <2>1, <2>2
  <1>7. h = [m \in T |-> c.nonces[m]]
    BY <1>5 DEF Restrict
  <1>8. DOMAIN h = T /\ \A m \in T : h[m] = c.nonces[m]
    BY <1>7
  <1>9. h = [m \in DOMAIN h |-> h[m]]
    BY <1>7, <1>8
  <1>10. h \in Histories
    BY <1>1, <1>3, <1>6, <1>8, <1>9, HistoryType
  <1>11. IsFiniteSet(DOMAIN h)
    BY <1>4, <1>6, <1>8, FS_Subset
  <1> QED
    BY <1>1, <1>6, <1>8, <1>10, <1>11 DEF kept

\* A history with one more nonce.
LEMMA WithType ==
  ASSUME NEW h \in Histories, IsFiniteSet(DOMAIN h), Cardinality(DOMAIN h) <= MaxTracked,
         NEW m \in Messages, NEW t \in Times
  PROVE  /\ With(h, m, t) \in Histories /\ DOMAIN With(h, m, t) = DOMAIN h \cup {m}
         /\ With(h, m, t)[m] = t
         /\ \A k \in DOMAIN h : k # m => With(h, m, t)[k] = h[k]
         /\ IsFiniteSet(DOMAIN With(h, m, t)) /\ Cardinality(DOMAIN With(h, m, t)) <= MaxTracked + 1
  <1> DEFINE g == With(h, m, t)
  <1>1. g = [x \in DOMAIN h \cup {m} |-> IF x = m THEN t ELSE h[x]]
    BY DEF With
  <1>2. DOMAIN g = DOMAIN h \cup {m} /\ g[m] = t /\ \A k \in DOMAIN h : k # m => g[k] = h[k]
    BY <1>1
  <1>3. g = [x \in DOMAIN g |-> g[x]]
    BY <1>1
  <1> HIDE DEF g
  <1>4. DOMAIN h \subseteq Messages /\ \A k \in DOMAIN h : h[k] \in Times
    BY HistoryType
  <1>5. g \in Histories
    BY <1>2, <1>3, <1>4, HistoryType
  <1>6. /\ IsFiniteSet(DOMAIN g) /\ Cardinality(DOMAIN h) \in Nat
        /\ Cardinality(DOMAIN g) = IF m \in DOMAIN h THEN Cardinality(DOMAIN h)
                                   ELSE Cardinality(DOMAIN h) + 1
    BY <1>2, FS_AddElement, FS_CardinalityType
  <1>7. Cardinality(DOMAIN g) <= MaxTracked + 1
    BY <1>6, Numbers
  <1> QED
    BY <1>2, <1>5, <1>6, <1>7 DEF g

\* A write of a configuration, and what it may lose.
LEMMA OverwriteStep ==
  ASSUME TypeInv, NEW old \in Configs, NEW new \in Configs, NEW lost \in Lost,
         Overwrite(old, new, lost)
  PROVE  /\ connector' \in Connectors /\ connector'.config = new
         /\ connector'.enabled = connector.enabled /\ connector'.secret_ref = connector.secret_ref
         /\ connector'.limit = connector.limit
         /\ connector'.effects = connector.effects /\ connector'.passed = connector.passed
         /\ history' \in Losses /\ history'.retired = history.retired
         /\ history'.highest = history.highest
         /\ history'.forgotten = history.forgotten \cup lost.forgotten \cup
               {m \in DOMAIN connector.config.nonces :
                   m \notin DOMAIN old.nonces \/ old.nonces[m] # connector.config.nonces[m]}
         /\ history'.restored = history.restored \cup lost.restored \cup
               (IF old.secret_hash # connector.config.secret_hash THEN {new.secret_hash} ELSE {})
         /\ history'.miscounted = (history.miscounted \/ lost.miscounted \/
               <<old.started, old.count>> # <<connector.config.started, connector.config.count>>)
  <1> DEFINE gone == {m \in DOMAIN connector.config.nonces :
                        m \notin DOMAIN old.nonces \/ old.nonces[m] # connector.config.nonces[m]}
             back == IF old.secret_hash # connector.config.secret_hash
                     THEN {new.secret_hash} ELSE {}
             wrong == <<old.started, old.count>>
                        # <<connector.config.started, connector.config.count>>
  <1>1. connector' = [connector EXCEPT !.config = new]
    BY DEF Overwrite
  <1>2. connector \in Connectors /\ history \in Losses
    BY DEF TypeInv, ConnectorOK
  <1>3. history' = [history EXCEPT !.forgotten = @ \cup lost.forgotten \cup gone,
                                   !.restored = @ \cup lost.restored \cup back,
                                   !.miscounted = @ \/ lost.miscounted \/ wrong]
    BY DEF Overwrite
  <1>4. gone \subseteq Messages
    <2>1. connector.config.nonces \in Histories
      BY <1>2 DEF Connectors, Configs
    <2> QED
      BY <2>1, HistoryType
  <1>5. back \subseteq Hashes
    BY DEF Configs
  <1>6. wrong \in BOOLEAN
    OBVIOUS
  <1> HIDE DEF gone, back, wrong
  <1>7. /\ lost.forgotten \subseteq Messages /\ lost.restored \subseteq Hashes
        /\ lost.miscounted \in BOOLEAN
    BY DEF Lost
  <1>8. /\ history' \in Losses
        /\ history'.forgotten = history.forgotten \cup lost.forgotten \cup gone
        /\ history'.restored = history.restored \cup lost.restored \cup back
        /\ history'.miscounted = (history.miscounted \/ lost.miscounted \/ wrong)
        /\ history'.retired = history.retired /\ history'.highest = history.highest
    BY <1>2, <1>3, <1>4, <1>5, <1>6, <1>7 DEF Losses
  <1>9. /\ connector' \in Connectors /\ connector'.config = new
        /\ connector'.enabled = connector.enabled /\ connector'.secret_ref = connector.secret_ref
        /\ connector'.limit = connector.limit
        /\ connector'.effects = connector.effects /\ connector'.passed = connector.passed
    BY <1>1, <1>2 DEF Connectors
  <1> QED
    BY <1>8, <1>9 DEF gone, back, wrong

\* Nothing is lost, or the nonces truncated away.
LEMMA LostType ==
  /\ NoLoss \in Lost /\ NoLoss.forgotten = {} /\ NoLoss.restored = {} /\ ~NoLoss.miscounted
  /\ \A F \in SUBSET Messages :
        LET lost == [NoLoss EXCEPT !.forgotten = F]
        IN  lost \in Lost /\ lost.forgotten = F /\ lost.restored = {} /\ ~lost.miscounted
  BY DEF NoLoss, Lost

\* The webhook by where it is.
LEMMA WebhookPlace ==
  ASSUME TypeInv
  PROVE  /\ webhook.at \in {"nonce", "rate"} =>
              /\ webhook.message \in Messages /\ webhook.config \in Configs
              /\ webhook.seen \in Times /\ webhook.seen <= now
              /\ ConfigOK(webhook.config, webhook.seen)
         /\ webhook.at = "checked" => webhook.message \in Messages
         /\ webhook.at = "payload" =>
              webhook.message \in Messages /\ webhook.seen \in Times /\ webhook.seen <= now
         /\ webhook.at \in {"idle", "nonce", "checked", "rate", "payload"}
         /\ webhook.at = "idle" => webhook = IdleWebhook
  BY DEF TypeInv, WebhookOK, Reading, Checked, Passing, IdleWebhook

\* A thread of the owner by where it is.
LEMMA OwnerPlace ==
  ASSUME TypeInv, NEW o \in Owners
  PROVE  /\ owner[o].at = "write" =>
              /\ owner[o].old \in Configs /\ owner[o].new \in Configs
              /\ owner[o].retires \in SUBSET Hashes /\ owner[o].lost \in Lost
              /\ ConfigOK(owner[o].old, now) /\ ConfigOK(owner[o].new, now)
         /\ owner[o].at = "saved" => owner[o].retires \in SUBSET Hashes
         /\ owner[o].at \in {"idle", "write", "saved"}
  BY DEF TypeInv, OwnerOK, Writing, Saved, IdleOwner

\* The nonce is looked up and recorded.
LEMMA NonceStep ==
  ASSUME TypeInv, _assert_hmac_v1_not_replayed
  PROVE  \E cleaned \in _clean_hmac_nonce_history(webhook.config, webhook.seen),
            new \in Configs, lost \in Lost :
           /\ lost.forgotten = Kept(webhook.config, webhook.seen) \ DOMAIN cleaned
           /\ lost.restored = {} /\ ~lost.miscounted
           /\ ConfigOK(new, webhook.seen)
           /\ new.secret_hash = webhook.config.secret_hash
           /\ new.started = webhook.config.started /\ new.count = webhook.config.count
           /\ new.nonces = IF webhook.message \in DOMAIN cleaned THEN cleaned
                           ELSE With(cleaned, webhook.message, webhook.seen)
           /\ Overwrite(webhook.config, new, lost)
           /\ \/ /\ webhook.message \in DOMAIN cleaned
                 /\ webhook' = IdleWebhook /\ disk' = connector'
              \/ /\ webhook.message \notin DOMAIN cleaned
                 /\ webhook' = [at |-> "checked", message |-> webhook.message]
                 /\ disk' = disk
  <1> DEFINE Nonces(cleaned) == IF webhook.message \in DOMAIN cleaned THEN cleaned
                                ELSE With(cleaned, webhook.message, webhook.seen)
  <1>1. PICK cleaned \in _clean_hmac_nonce_history(webhook.config, webhook.seen) :
          /\ Overwrite(webhook.config, [webhook.config EXCEPT !.nonces = Nonces(cleaned)],
                       [NoLoss EXCEPT !.forgotten =
                          Kept(webhook.config, webhook.seen) \ DOMAIN cleaned])
          /\ \/ /\ webhook.message \in DOMAIN cleaned
                /\ webhook' = IdleWebhook /\ disk' = connector'
             \/ /\ webhook.message \notin DOMAIN cleaned
                /\ webhook' = [at |-> "checked", message |-> webhook.message]
                /\ disk' = disk
    BY DEF _assert_hmac_v1_not_replayed, persist
  <1>2. /\ webhook.message \in Messages /\ webhook.config \in Configs
        /\ webhook.seen \in Times /\ ConfigOK(webhook.config, webhook.seen)
    BY WebhookPlace DEF _assert_hmac_v1_not_replayed
  <1>3. /\ cleaned \in Histories /\ IsFiniteSet(DOMAIN cleaned)
        /\ Cardinality(DOMAIN cleaned) <= MaxTracked
    BY <1>1, <1>2, CleanedType
  <1> DEFINE h == Nonces(cleaned)
  <1>4. h \in Histories /\ IsFiniteSet(DOMAIN h) /\ Cardinality(DOMAIN h) <= MaxTracked + 1
    <2>1. CASE webhook.message \in DOMAIN cleaned
      <3>1. h = cleaned
        BY <2>1
      <3>2. Cardinality(DOMAIN cleaned) \in Nat
        BY <1>3, FS_CardinalityType
      <3>3. Cardinality(DOMAIN cleaned) <= MaxTracked + 1
        BY <1>3, <3>2, Numbers
      <3> QED
        BY <1>3, <3>1, <3>3
    <2>2. CASE webhook.message \notin DOMAIN cleaned
      <3>1. h = With(cleaned, webhook.message, webhook.seen)
        BY <2>2
      <3> HIDE DEF h, Nonces
      <3> QED
        BY <1>2, <1>3, <3>1, WithType, Zenon
    <2> QED
      BY <2>1, <2>2
  <1> DEFINE new == [webhook.config EXCEPT !.nonces = h]
  <1> HIDE DEF h
  <1>5. /\ new \in Configs /\ new.nonces = h /\ new.secret_hash = webhook.config.secret_hash
        /\ new.started = webhook.config.started /\ new.count = webhook.config.count
    BY <1>2, <1>4 DEF Configs
  <1> DEFINE gone == Kept(webhook.config, webhook.seen) \ DOMAIN cleaned
             lost == [NoLoss EXCEPT !.forgotten = gone]
  <1>6. Overwrite(webhook.config, new, lost)
    BY <1>1 DEF h
  <1>9. gone \in SUBSET Messages
    <2>1. DOMAIN webhook.config.nonces \subseteq Messages
      BY <1>2, HistoryType DEF Configs
    <2> QED
      BY <2>1 DEF Kept
  <1> HIDE DEF gone
  <1>10. lost \in Lost /\ lost.forgotten = gone /\ lost.restored = {} /\ ~lost.miscounted
    BY <1>9, LostType
  <1> HIDE DEF lost
  <1> HIDE DEF new
  <1>7. ConfigOK(new, webhook.seen)
    BY <1>2, <1>4, <1>5 DEF ConfigOK
  <1>8. new.nonces = IF webhook.message \in DOMAIN cleaned THEN cleaned
                     ELSE With(cleaned, webhook.message, webhook.seen)
    BY <1>5 DEF h
  <1> QED
    BY <1>1, <1>5, <1>6, <1>7, <1>8, <1>10 DEF gone

\* The request is counted, or counted and refused.
LEMMA RateStep ==
  ASSUME TypeInv, _enforce_connector_rate_limit
  PROVE  \E new \in Configs :
           /\ ConfigOK(new, webhook.seen)
           /\ new.nonces = webhook.config.nonces
           /\ new.secret_hash = webhook.config.secret_hash
           /\ Overwrite(webhook.config, new, NoLoss)
           /\ \/ /\ new.started = webhook.config.started /\ new.count >= webhook.config.count
                 /\ webhook' = IdleWebhook /\ disk' = connector'
              \/ /\ webhook' = [at |-> "payload", message |-> webhook.message,
                                seen |-> webhook.seen]
                 /\ disk' = disk
                 /\ \/ /\ window_over(webhook.config, webhook.seen)
                       /\ new.started = webhook.seen /\ new.count = 1
                    \/ /\ ~window_over(webhook.config, webhook.seen)
                       /\ new.started = webhook.config.started
                       /\ webhook.config.count < connector.limit
                       /\ new.count = webhook.config.count + 1
  <1> DEFINE c == webhook.config
             t == webhook.seen
             over == window_over(c, t)
             limited == ~over /\ c.count >= connector.limit
             counted == IF c.count < MaxLimit THEN c.count + 1 ELSE MaxLimit
             new == IF over THEN NewWindow(c, t) ELSE [c EXCEPT !.count = counted]
  <1>1. /\ Overwrite(c, new, NoLoss)
        /\ IF limited THEN webhook' = IdleWebhook /\ disk' = connector'
           ELSE webhook' = [at |-> "payload", message |-> webhook.message, seen |-> t]
                /\ disk' = disk
    BY DEF _enforce_connector_rate_limit, persist
  <1>2. c \in Configs /\ t \in Times /\ ConfigOK(c, t)
    BY WebhookPlace DEF _enforce_connector_rate_limit
  <1>3. /\ c.count \in 0 .. MaxLimit /\ c.started \in Times \cup {-1}
    BY <1>2 DEF Configs
  <1>4. CASE over
    <2>1. new = [c EXCEPT !.started = t, !.count = 1]
      BY <1>4 DEF NewWindow
    <2>2. 1 \in 0 .. MaxLimit /\ t # -1 /\ t <= t
      <3>1. t \in Nat
        BY <1>2, TimeNumbers
      <3> HIDE DEF t
      <3> QED
        BY <3>1, Numbers
    <2> DEFINE n == [c EXCEPT !.started = t, !.count = 1]
    <2>3. /\ n \in Configs /\ n.nonces = c.nonces /\ n.secret_hash = c.secret_hash
          /\ n.started = t /\ n.count = 1
      BY <1>2, <2>2 DEF Configs
    <2> HIDE DEF n
    <2>4. ConfigOK(n, t)
      BY <1>2, <2>2, <2>3 DEF ConfigOK
    <2>5. Overwrite(c, n, NoLoss)
      BY <1>1, <2>1 DEF n
    <2>6. ~limited
      BY <1>4
    <2> HIDE DEF new, limited
    <2> QED
      BY <1>1, <1>4, <2>3, <2>4, <2>5, <2>6
  <1>5. CASE ~over
    <2>1. new = [c EXCEPT !.count = counted]
      BY <1>5
    <2>2. counted \in 0 .. MaxLimit /\ counted >= c.count
      BY <1>3, Numbers
    <2>3. ~limited => c.count < connector.limit /\ counted = c.count + 1
      <3>1. connector.limit \in 1 .. MaxLimit
        BY DEF TypeInv, ConnectorOK, Connectors, Limits
      <3> HIDE DEF c, t
      <3> QED
        BY <1>3, <1>5, <3>1, Numbers
    <2> HIDE DEF counted
    <2> DEFINE n == [c EXCEPT !.count = counted]
    <2>4. /\ n \in Configs /\ n.nonces = c.nonces /\ n.secret_hash = c.secret_hash
          /\ n.started = c.started /\ n.count = counted
      BY <1>2, <2>2 DEF Configs
    <2> HIDE DEF n
    <2>5. ConfigOK(n, t)
      BY <1>2, <2>4 DEF ConfigOK
    <2>6. Overwrite(c, n, NoLoss)
      BY <1>1, <2>1 DEF n
    <2> HIDE DEF new, limited
    <2> QED
      BY <1>1, <1>5, <2>2, <2>3, <2>4, <2>5, <2>6
  <1> QED
    BY <1>4, <1>5

\* The payload is carried out or refused.
LEMMA HandleStep ==
  ASSUME TypeInv, handle_connector_webhook
  PROVE  /\ connector' \in Connectors /\ connector'.config = connector.config
         /\ connector'.limit = connector.limit
         /\ connector'.passed = [connector.passed EXCEPT ![webhook.seen] = @ + 1]
         /\ \A m \in Messages :
              \/ connector'.effects[m] = connector.effects[m]
              \/ m = webhook.message /\ connector'.effects[m] = connector.effects[m] + 1
         /\ webhook' = IdleWebhook /\ disk' = connector'
         /\ UNCHANGED <<now, sent, owner, issued, events, history>>
  <1> DEFINE m == webhook.message
             t == webhook.seen
             passed == [connector EXCEPT !.passed[t] = @ + 1]
             effects == [connector.effects EXCEPT ![m] = IF @ < 2 THEN @ + 1 ELSE @]
  <1>1. m \in Messages /\ t \in Times /\ connector \in Connectors
    BY WebhookPlace DEF handle_connector_webhook, TypeInv, ConnectorOK
  <1>2. connector.passed \in [Times -> Nat] /\ connector.effects \in [Messages -> 0 .. 2]
    BY <1>1 DEF Connectors
  <1>3. [connector.passed EXCEPT ![t] = @ + 1] \in [Times -> Nat]
    BY <1>1, <1>2
  <1>4. /\ passed \in Connectors /\ passed.config = connector.config
        /\ passed.passed = [connector.passed EXCEPT ![t] = @ + 1]
        /\ passed.effects = connector.effects /\ passed.limit = connector.limit
    BY <1>1, <1>3 DEF Connectors
  <1>5. /\ effects \in [Messages -> 0 .. 2]
        /\ \A k \in Messages : \/ effects[k] = connector.effects[k]
                               \/ k = m /\ effects[k] = connector.effects[k] + 1
    BY <1>1, <1>2
  <1>6. \/ connector' = [passed EXCEPT !.effects[m] = IF @ < 2 THEN @ + 1 ELSE @]
        \/ connector' = passed
    BY DEF handle_connector_webhook
  <1>7. /\ webhook' = IdleWebhook /\ disk' = connector'
        /\ UNCHANGED <<now, sent, owner, issued, events, history>>
    BY DEF handle_connector_webhook, persist
  <1> HIDE DEF passed
  <1>8. [passed EXCEPT !.effects[m] = IF @ < 2 THEN @ + 1 ELSE @] = [passed EXCEPT !.effects = effects]
    BY <1>4
  <1> HIDE DEF effects
  <1>9. CASE connector' = [passed EXCEPT !.effects = effects]
    BY <1>4, <1>5, <1>7, <1>9 DEF Connectors
  <1>10. CASE connector' = passed
    BY <1>4, <1>7, <1>10
  <1> QED
    BY <1>6, <1>8, <1>9, <1>10

-----------------------------------------------------------------------------
(* Types.                                                                  *)

\* The types hold at first.
LEMMA TypeStart ==
  ASSUME Init
  PROVE  TypeInv
  <1>1. 0 \in Times /\ 1 \in Secrets /\ 0 \in 0 .. MaxLimit /\ 0 \in 0 .. MaxEvents
    BY Numbers DEF Times, Secrets
  <1>2. DOMAIN NewConfig.nonces = {} /\ NewConfig.nonces = [m \in {} |-> 0]
    BY DEF NewConfig
  <1>3. NewConfig.nonces \in Histories
    BY <1>2, HistoryType
  <1>4. NewConfig \in Configs /\ NewConfig.started = -1 /\ NewConfig.count = 0
    BY <1>1, <1>3 DEF NewConfig, Configs, Hashes
  <1>5. IsFiniteSet(DOMAIN NewConfig.nonces) /\ Cardinality(DOMAIN NewConfig.nonces) <= MaxTracked + 1
    BY <1>2, FS_EmptySet, Numbers
  <1>6. ConfigOK(NewConfig, 0)
    BY <1>4, <1>5 DEF ConfigOK
  <1> HIDE DEF NewConfig
  <1>7. /\ create_connector \in Connectors /\ create_connector.config = NewConfig
        /\ create_connector.limit = FirstLimit
    BY <1>4, Numbers DEF create_connector, Connectors
  <1>8. ConnectorOK(create_connector, 0)
    BY <1>6, <1>7 DEF ConnectorOK
  <1>9. SentOK(<< >>)
    BY DEF SentOK
  <1>10. WebhookOK(IdleWebhook, 0) /\ OwnerOK(IdleOwner, 0)
    BY DEF WebhookOK, OwnerOK, IdleWebhook, IdleOwner
  <1>11. 1 \in 1 .. 0 + 1
    OBVIOUS
  <1>12. history \in Losses /\ history.highest = FirstLimit
    BY Numbers DEF Init, Losses
  <1>13. connector.limit <= history.highest /\ disk.limit <= history.highest
    BY <1>7, <1>12, Numbers DEF Init
  <1> QED
    BY <1>13, <1>1, <1>8, <1>9, <1>10, <1>11, <1>12 DEF Init, TypeInv

\* A thread of the owner that reads the configuration and is about to write it
\* with another hash.
LEMMA WritingType ==
  ASSUME TypeInv, NEW s \in Hashes, NEW retires \in SUBSET Hashes
  PROVE  LET new == [connector.config EXCEPT !.secret_hash = s]
         IN  /\ OwnerOK([at |-> "write", old |-> connector.config, new |-> new,
                         lost |-> NoLoss, retires |-> retires], now)
             /\ new.nonces = connector.config.nonces /\ new.secret_hash = s
  <1> DEFINE new == [connector.config EXCEPT !.secret_hash = s]
  <1>1. connector.config \in Configs /\ ConfigOK(connector.config, now)
    BY DEF TypeInv, ConnectorOK, Connectors
  <1>2. /\ new \in Configs /\ new.nonces = connector.config.nonces /\ new.secret_hash = s
        /\ new.started = connector.config.started /\ new.count = connector.config.count
    BY <1>1 DEF Configs
  <1> HIDE DEF new
  <1>3. ConfigOK(new, now)
    BY <1>1, <1>2 DEF ConfigOK
  <1>4. OwnerOK([at |-> "write", old |-> connector.config, new |-> new, lost |-> NoLoss,
                 retires |-> retires], now)
    BY <1>1, <1>2, <1>3, LostType DEF OwnerOK, Writing
  <1> QED
    BY <1>2, <1>4 DEF new

\* What the owner may send is a configuration, and what that loses.
LEMMA MergedType ==
  ASSUME TypeInv, NEW new \in Merged(connector.config)
  PROVE  /\ new \in Configs /\ ConfigOK(new, now) /\ Patched(connector.config, new) \in Lost
         /\ new.secret_hash \in {connector.config.secret_hash, NoSecret} \cup history.retired
  <1> DEFINE c == connector.config
  <1>1. c \in Configs /\ ConfigOK(c, now) /\ history.retired \subseteq Hashes
    BY DEF TypeInv, ConnectorOK, Connectors, Losses
  <1>2. /\ c.nonces \in Histories /\ IsFiniteSet(DOMAIN c.nonces) /\ c.secret_hash \in Hashes
        /\ c.started \in Times \cup {-1} /\ c.count \in 0 .. MaxLimit
    BY <1>1 DEF Configs, ConfigOK
  <1>3. ASSUME NEW h \in PatchedNonces
        PROVE  h \in Histories /\ IsFiniteSet(DOMAIN h)
    <2>1. /\ h = [m \in DOMAIN h |-> h[m]] /\ IsFiniteSet(DOMAIN h)
          /\ DOMAIN h \subseteq Messages /\ \A m \in DOMAIN h : h[m] \in 0 .. MaxTime
      BY WebhookAssumption
    <2> QED
      BY <2>1, HistoryType DEF Times
  <1>4. /\ new \in [secret_hash : {c.secret_hash, NoSecret} \cup history.retired,
                    nonces : {c.nonces} \cup PatchedNonces,
                    started : {c.started} \cup PatchedStarts,
                    count : {c.count} \cup PatchedCounts]
    BY DEF Merged
  <1>5. /\ new = [secret_hash |-> new.secret_hash, nonces |-> new.nonces,
                  started |-> new.started, count |-> new.count]
        /\ new.secret_hash \in {c.secret_hash, NoSecret} \cup history.retired
        /\ new.nonces = c.nonces \/ new.nonces \in PatchedNonces
        /\ new.started = c.started \/ new.started \in PatchedStarts
        /\ new.count = c.count \/ new.count \in PatchedCounts
    BY <1>4
  <1> HIDE DEF c
  <1>6. new.nonces \in Histories /\ IsFiniteSet(DOMAIN new.nonces)
    BY <1>2, <1>3, <1>5
  <1>7. new.started \in Times \cup {-1}
    BY <1>2, <1>5, WebhookAssumption DEF Times
  <1>8. new.count \in 0 .. MaxLimit
    BY <1>2, <1>5, WebhookAssumption
  <1>9. new.secret_hash \in Hashes
    BY <1>1, <1>2, <1>5 DEF Hashes
  <1>10. new \in Configs
    BY <1>5, <1>6, <1>7, <1>8, <1>9 DEF Configs
  <1>11. ConfigOK(new, now)
    BY <1>1, <1>5, <1>6 DEF ConfigOK
  <1>12. DOMAIN c.nonces \subseteq Messages /\ DOMAIN new.nonces \subseteq Messages
    BY <1>2, <1>6, HistoryType
  <1>13. Patched(c, new) \in Lost
    BY <1>9, <1>12 DEF Patched, Lost
  <1> QED
    BY <1>5, <1>10, <1>11, <1>13 DEF c

\* What the owner sends is kept but for what it loses.
LEMMA PatchedLoses ==
  ASSUME NEW old, NEW new
  PROVE  LET lost == Patched(old, new)
         IN  /\ SameNonces(old.nonces, new.nonces, lost.forgotten)
             /\ new.secret_hash = old.secret_hash \/ new.secret_hash \in lost.restored
             /\ ~lost.miscounted => new.started = old.started /\ new.count = old.count
  <1> DEFINE lost == Patched(old, new)
  <1>1. /\ lost.forgotten = {m \in DOMAIN old.nonces \cup DOMAIN new.nonces :
                      \/ m \notin DOMAIN old.nonces \/ m \notin DOMAIN new.nonces
                      \/ old.nonces[m] # new.nonces[m]}
        /\ lost.restored = IF old.secret_hash # new.secret_hash THEN {new.secret_hash} ELSE {}
        /\ lost.miscounted = (<<old.started, old.count>> # <<new.started, new.count>>)
    BY DEF Patched
  <1> HIDE DEF lost
  <1>2. SameNonces(old.nonces, new.nonces, lost.forgotten)
    BY <1>1 DEF SameNonces
  <1>3. new.secret_hash = old.secret_hash \/ new.secret_hash \in lost.restored
    BY <1>1
  <1>4. ~lost.miscounted => new.started = old.started /\ new.count = old.count
    BY <1>1
  <1> QED
    BY <1>2, <1>3, <1>4 DEF lost

\* Every step keeps the types.
LEMMA TypeStep ==
  ASSUME TypeInv, [Next]_vars
  PROVE  TypeInv'
  <1>1. /\ ConnectorOK(connector, now) /\ ConnectorOK(disk, now) /\ now \in Times
        /\ SentOK(sent) /\ WebhookOK(webhook, now) /\ history \in Losses
        /\ owner = [o \in Owners |-> owner[o]] /\ \A o \in Owners : OwnerOK(owner[o], now)
        /\ events \in 0 .. MaxEvents /\ issued \in 1 .. events + 1
        /\ connector \in Connectors /\ connector.config \in Configs
        /\ connector.config.secret_hash \in Hashes
        /\ connector.limit <= history.highest /\ disk.limit <= history.highest
    BY DEF TypeInv, ConnectorOK, Connectors, Configs
  <1>2. now \in Nat /\ MaxTime \in Nat /\ MaxEvents \in Nat
    BY <1>1, Numbers, TimeNumbers
  <1>3. WebhookOK(IdleWebhook, now) /\ OwnerOK(IdleOwner, now)
    BY DEF WebhookOK, OwnerOK, IdleWebhook, IdleOwner
  \* A step of the server that changes neither the clock nor the owner.
  <1>4. ASSUME ConnectorOK(connector', now), disk' = disk \/ disk' = connector',
               UNCHANGED <<now, owner, issued, events>>, SentOK(sent'), WebhookOK(webhook', now),
               history' \in Losses, connector'.limit = connector.limit,
               history'.highest = history.highest
        PROVE  TypeInv'
    BY <1>1, <1>4 DEF TypeInv
  \* A request of the owner.
  <1>5. ASSUME NEW o \in Owners, NEW r, OwnerOK(r, now), owner' = [owner EXCEPT ![o] = r],
               ConnectorOK(connector', now), disk' = disk \/ disk' = connector',
               UNCHANGED <<now, sent, webhook>>, history' \in Losses,
               events' \in 0 .. MaxEvents, issued' \in 1 .. events' + 1,
               connector'.limit <= history'.highest, disk.limit <= history'.highest
        PROVE  TypeInv'
    <2>1. owner'[o] = r /\ \A p \in Owners : p # o => owner'[p] = owner[p]
      BY <1>1, <1>5
    <2>2. owner' = [p \in Owners |-> owner'[p]]
      BY <1>1, <1>5
    <2>3. \A p \in Owners : OwnerOK(owner'[p], now)
      BY <1>1, <1>5, <2>1
    <2> QED
      BY <1>1, <1>5, <2>2, <2>3 DEF TypeInv
  <1>6. CASE Tick
    <2>1. /\ now' = now + 1 /\ now < MaxTime
          /\ UNCHANGED <<connector, disk, sent, webhook, owner, issued, events, history>>
      BY <1>6 DEF Tick
    <2>2. now' \in Times /\ now' \in Nat /\ now <= now'
      BY <1>2, <2>1 DEF Times
    <2>3. ConnectorOK(connector, now') /\ ConnectorOK(disk, now')
      BY <1>1, <1>2, <2>2, ConfigLater DEF ConnectorOK, Connectors
    <2>4. WebhookOK(webhook, now')
      <3>1. webhook.at \in {"nonce", "rate", "payload"} => webhook.seen \in Nat
        BY WebhookPlace, TimeNumbers
      <3>2. /\ webhook \in Reading \cup Checked \cup Passing \cup {IdleWebhook}
            /\ webhook.at \in {"nonce", "rate"} =>
                 ConfigOK(webhook.config, webhook.seen) /\ webhook.seen <= now
            /\ webhook.at = "payload" => webhook.seen <= now
        BY <1>1 DEF WebhookOK
      <3>3. webhook.at \in {"nonce", "rate", "payload"} => webhook.seen <= now'
        BY <1>2, <2>2, <3>1, <3>2
      <3> QED
        BY <3>2, <3>3 DEF WebhookOK
    <2>5. ASSUME NEW o \in Owners PROVE OwnerOK(owner[o], now')
      <3>1. owner[o].at = "write" => ConfigOK(owner[o].old, now') /\ ConfigOK(owner[o].new, now')
        BY <1>2, <2>2, OwnerPlace, ConfigLater
      <3> QED
        BY <1>1, <3>1 DEF OwnerOK
    <2> QED
      BY <1>1, <2>1, <2>2, <2>3, <2>4, <2>5 DEF TypeInv
  <1>7. CASE restart
    <2>1. /\ events < MaxEvents /\ events' = events + 1 /\ connector' = disk
          /\ webhook' = IdleWebhook /\ owner' = [o \in Owners |-> IdleOwner]
          /\ UNCHANGED <<disk, now, sent, issued, history>>
      BY <1>7 DEF restart
    <2>2. events' \in 0 .. MaxEvents /\ issued' \in 1 .. events' + 1
      BY <1>1, <1>2, <2>1
    <2>3. owner' = [o \in Owners |-> owner'[o]] /\ \A o \in Owners : OwnerOK(owner'[o], now)
      BY <1>3, <2>1
    <2> QED
      BY <1>1, <1>3, <2>1, <2>2, <2>3 DEF TypeInv
  <1>8. ASSUME NEW m \in Messages, receive(m) PROVE TypeInv'
    <2>1. PICK signed \in Signed(m) :
            sent' = With(sent, m, signed)
      BY <1>8 DEF receive
    <2>2. signed \in [timestamp : Int, secret : Secrets]
      <3>1. CASE m \in DOMAIN sent
        BY <1>1, <2>1, <3>1 DEF Signed, SentOK
      <3>2. CASE m \notin DOMAIN sent
        <4>1. 1 .. issued \subseteq Secrets
          BY <1>1, <1>2 DEF Secrets
        <4>2. \A skew \in Skews : now + skew \in Int
          BY <1>2, WebhookAssumption
        <4> QED
          BY <2>1, <3>2, <4>1, <4>2 DEF Signed
      <3> QED
        BY <3>1, <3>2
    <2>3. SentOK(sent')
      BY <1>1, <2>1, <2>2 DEF SentOK, With
    <2> DEFINE w == [at |-> "nonce", message |-> m, config |-> connector.config, seen |-> now]
    <2>4. WebhookOK(w, now)
      BY <1>1, <1>2 DEF WebhookOK, Reading, ConnectorOK
    <2>5. /\ webhook' = w
          /\ UNCHANGED <<connector, disk, now, owner, issued, events, history>>
      BY <1>8 DEF receive
    <2> HIDE DEF w
    <2> QED
      BY <1>1, <1>4, <2>3, <2>4, <2>5
  <1>9. ASSUME NEW m \in Messages, refuse(m) PROVE TypeInv'
    <2>1. /\ UNCHANGED <<connector, now, sent, webhook, owner, issued, events, history>>
          /\ disk' = connector'
      BY <1>9 DEF refuse, persist
    <2> QED
      BY <1>1, <1>4, <2>1
  <1>10. CASE _assert_hmac_v1_not_replayed
    <2>1. PICK cleaned \in _clean_hmac_nonce_history(webhook.config, webhook.seen),
               new \in Configs, lost \in Lost :
            /\ ConfigOK(new, webhook.seen)
            /\ Overwrite(webhook.config, new, lost)
            /\ \/ webhook' = IdleWebhook /\ disk' = connector'
               \/ webhook' = [at |-> "checked", message |-> webhook.message] /\ disk' = disk
      BY <1>10, NonceStep
    <2>2. /\ webhook.message \in Messages /\ webhook.config \in Configs
          /\ webhook.seen \in Times /\ webhook.seen <= now
      BY <1>10, WebhookPlace DEF _assert_hmac_v1_not_replayed
    <2>4. /\ connector' \in Connectors /\ connector'.config = new /\ history' \in Losses
          /\ connector'.limit = connector.limit /\ history'.highest = history.highest
      BY <2>1, <2>2, OverwriteStep
    <2>5. ConnectorOK(connector', now)
      BY <1>2, <2>1, <2>2, <2>4, ConfigLater, TimeNumbers DEF ConnectorOK
    <2>6. WebhookOK(webhook', now)
      <3>1. WebhookOK([at |-> "checked", message |-> webhook.message], now)
        BY <2>2 DEF WebhookOK, Checked
      <3> QED
        BY <1>3, <2>1, <3>1
    <2>7. UNCHANGED <<now, sent, owner, issued, events>>
      BY <1>10 DEF _assert_hmac_v1_not_replayed
    <2> QED
      BY <1>1, <1>4, <2>1, <2>4, <2>5, <2>6, <2>7
  <1>11. CASE read_rate
    <2> DEFINE w == [at |-> "rate", message |-> webhook.message, config |-> connector.config,
                     seen |-> now]
    <2>1. /\ webhook' = w /\ webhook.at = "checked"
          /\ UNCHANGED <<connector, disk, now, sent, owner, issued, events, history>>
      BY <1>11 DEF read_rate
    <2>2. webhook.message \in Messages
      BY <2>1, WebhookPlace
    <2>3. WebhookOK(w, now)
      BY <1>1, <1>2, <2>2 DEF WebhookOK, Reading, ConnectorOK
    <2> HIDE DEF w
    <2> QED
      BY <1>1, <1>4, <2>1, <2>3
  <1>12. CASE _enforce_connector_rate_limit
    <2>1. PICK new \in Configs :
            /\ ConfigOK(new, webhook.seen) /\ Overwrite(webhook.config, new, NoLoss)
            /\ \/ webhook' = IdleWebhook /\ disk' = connector'
               \/ /\ webhook' = [at |-> "payload", message |-> webhook.message,
                                 seen |-> webhook.seen]
                  /\ disk' = disk
      BY <1>12, RateStep
    <2>2. /\ webhook.message \in Messages /\ webhook.config \in Configs
          /\ webhook.seen \in Times /\ webhook.seen <= now
      BY <1>12, WebhookPlace DEF _enforce_connector_rate_limit
    <2>3. /\ connector' \in Connectors /\ connector'.config = new /\ history' \in Losses
          /\ connector'.limit = connector.limit /\ history'.highest = history.highest
      BY <2>1, <2>2, LostType, OverwriteStep
    <2>4. ConnectorOK(connector', now)
      BY <1>2, <2>1, <2>2, <2>3, ConfigLater, TimeNumbers DEF ConnectorOK
    <2>5. WebhookOK(webhook', now)
      <3>1. WebhookOK([at |-> "payload", message |-> webhook.message, seen |-> webhook.seen], now)
        BY <2>2 DEF WebhookOK, Passing
      <3> QED
        BY <1>3, <2>1, <3>1
    <2>6. UNCHANGED <<now, sent, owner, issued, events>>
      BY <1>12 DEF _enforce_connector_rate_limit
    <2> QED
      BY <1>1, <1>4, <2>1, <2>3, <2>4, <2>5, <2>6
  <1>13. CASE handle_connector_webhook
    <2>1. /\ connector' \in Connectors /\ connector'.config = connector.config
          /\ connector'.limit = connector.limit /\ webhook' = IdleWebhook /\ disk' = connector'
          /\ UNCHANGED <<now, sent, owner, issued, events, history>>
      BY <1>13, HandleStep
    <2>2. ConnectorOK(connector', now)
      BY <1>1, <2>1 DEF ConnectorOK
    <2> QED
      BY <1>1, <1>3, <1>4, <2>1, <2>2
  <1>14. ASSUME NEW o \in Owners, Request(o)
         PROVE  /\ events' \in 0 .. MaxEvents /\ issued \in 1 .. events' + 1
                /\ issued + 1 \in 1 .. events' + 1 /\ issued + 1 \in Hashes
    <2>1. events < MaxEvents /\ events' = events + 1
      BY <1>14 DEF Request
    <2> QED
      BY <1>1, <1>2, <2>1 DEF Hashes, Secrets
  <1>15. ASSUME NEW o \in Owners, issue_connector_secret(o) PROVE TypeInv'
    <2> DEFINE r == [at |-> "write", old |-> connector.config,
                     new |-> [connector.config EXCEPT !.secret_hash = issued + 1],
                     lost |-> NoLoss, retires |-> {connector.config.secret_hash}]
    <2>1. /\ Request(o) /\ issued' = issued + 1 /\ owner' = [owner EXCEPT ![o] = r]
          /\ connector' = [connector EXCEPT !.secret_ref = TRUE]
          /\ UNCHANGED <<disk, now, sent, webhook, history>>
      BY <1>15 DEF issue_connector_secret
    <2>2. OwnerOK(r, now)
      BY <1>1, <1>14, <2>1, WritingType
    <2>3. /\ connector' \in Connectors /\ connector'.config = connector.config
          /\ connector'.limit = connector.limit
      BY <1>1, <2>1 DEF Connectors
    <2>4. ConnectorOK(connector', now)
      BY <1>1, <2>3 DEF ConnectorOK
    <2> HIDE DEF r
    <2> QED
      BY <1>1, <1>5, <1>14, <2>1, <2>2, <2>3, <2>4
  <1>16. ASSUME NEW o \in Owners, revoke_connector_secret(o) PROVE TypeInv'
    <2> DEFINE r == [at |-> "write", old |-> connector.config,
                     new |-> [connector.config EXCEPT !.secret_hash = NoSecret],
                     lost |-> NoLoss, retires |-> {connector.config.secret_hash}]
    <2>1. /\ Request(o) /\ owner' = [owner EXCEPT ![o] = r]
          /\ connector' = [connector EXCEPT !.secret_ref = FALSE]
          /\ UNCHANGED <<disk, now, sent, webhook, issued, history>>
      BY <1>16 DEF revoke_connector_secret
    <2>2. OwnerOK(r, now)
      BY <1>1, WritingType DEF Hashes
    <2>3. /\ connector' \in Connectors /\ connector'.config = connector.config
          /\ connector'.limit = connector.limit
      BY <1>1, <2>1 DEF Connectors
    <2>4. ConnectorOK(connector', now)
      BY <1>1, <2>3 DEF ConnectorOK
    <2> HIDE DEF r
    <2> QED
      BY <1>1, <1>5, <1>14, <2>1, <2>2, <2>3, <2>4
  <1>17. ASSUME NEW o \in Owners, update_connector(o) PROVE TypeInv'
    <2>1. Request(o) /\ UNCHANGED <<disk, now, sent, webhook, issued>>
      BY <1>17 DEF update_connector
    <2>2. PICK limit \in 1 .. MaxLimit, enabled \in BOOLEAN :
            /\ connector' = [connector EXCEPT !.limit = limit, !.enabled = enabled]
            /\ history' = [history EXCEPT !.highest = IF limit > @ THEN limit ELSE @]
      BY <1>17 DEF update_connector
    <2>3. /\ connector' \in Connectors /\ connector'.config = connector.config
          /\ connector'.limit = limit
      BY <1>1, <2>2 DEF Connectors, Limits
    <2>4. ConnectorOK(connector', now)
      BY <1>1, <2>3 DEF ConnectorOK
    <2>5. /\ history' \in Losses
          /\ history'.highest = IF limit > history.highest THEN limit ELSE history.highest
      BY <1>1, <2>2 DEF Losses, Limits
    <2>6. connector'.limit <= history'.highest /\ disk.limit <= history'.highest
      <3>1. {limit, history.highest, disk.limit} \subseteq 1 .. MaxLimit
        BY <1>1 DEF Losses, Limits, ConnectorOK, Connectors
      <3> QED
        BY <1>1, <2>3, <2>5, <3>1, Numbers
    <2>7. PICK r : OwnerOK(r, now) /\ owner' = [owner EXCEPT ![o] = r]
      <3>1. OwnerOK([at |-> "saved", retires |-> {}], now)
        BY DEF OwnerOK, Saved
      <3>2. ASSUME NEW new \in Merged(connector.config)
            PROVE  OwnerOK([at |-> "write", old |-> connector.config, new |-> new,
                            lost |-> Patched(connector.config, new), retires |-> {}], now)
        <4>1. /\ new \in Configs /\ ConfigOK(new, now)
              /\ Patched(connector.config, new) \in Lost /\ ConfigOK(connector.config, now)
          BY <1>1, MergedType DEF ConnectorOK
        <4> QED
          BY <1>1, <4>1 DEF OwnerOK, Writing
      <3> QED
        BY <1>17, <3>1, <3>2 DEF update_connector
    <2> QED
      BY <1>1, <1>5, <1>14, <2>1, <2>4, <2>5, <2>6, <2>7
  <1>18. ASSUME NEW o \in Owners, write_config(o) PROVE TypeInv'
    <2> DEFINE r == [at |-> "saved", retires |-> owner[o].retires]
    <2>1. /\ owner[o].at = "write" /\ Overwrite(owner[o].old, owner[o].new, owner[o].lost)
          /\ owner' = [owner EXCEPT ![o] = r]
          /\ UNCHANGED <<disk, now, sent, webhook, issued, events>>
      BY <1>18 DEF write_config
    <2>2. /\ owner[o].old \in Configs /\ owner[o].new \in Configs
          /\ owner[o].retires \in SUBSET Hashes /\ ConfigOK(owner[o].new, now)
          /\ owner[o].lost \in Lost
      BY <2>1, OwnerPlace
    <2>3. /\ connector' \in Connectors /\ connector'.config = owner[o].new /\ history' \in Losses
          /\ connector'.limit = connector.limit /\ history'.highest = history.highest
      BY <2>1, <2>2, OverwriteStep
    <2>4. ConnectorOK(connector', now)
      BY <2>2, <2>3 DEF ConnectorOK
    <2>5. OwnerOK(r, now)
      BY <2>2 DEF OwnerOK, Saved
    <2> HIDE DEF r
    <2> QED
      BY <1>1, <1>5, <2>1, <2>3, <2>4, <2>5
  <1>19. ASSUME NEW o \in Owners, answer(o) PROVE TypeInv'
    <2>1. /\ owner[o].at = "saved" /\ owner' = [owner EXCEPT ![o] = IdleOwner]
          /\ history' = [history EXCEPT !.retired = @ \cup owner[o].retires]
          /\ UNCHANGED <<connector, now, sent, webhook, issued, events>> /\ disk' = connector'
      BY <1>19 DEF answer, persist
    <2>2. owner[o].retires \in SUBSET Hashes
      BY <2>1, OwnerPlace
    <2>3. history' \in Losses /\ history'.highest = history.highest
      BY <1>1, <2>1, <2>2 DEF Losses
    <2> QED
      BY <1>1, <1>3, <1>5, <2>1, <2>3
  <1>20. ASSUME NEW o \in Owners, disable_connector(o) \/ enable_connector(o) PROVE TypeInv'
    <2>1. /\ Request(o) /\ disk' = connector'
          /\ \/ connector' = [connector EXCEPT !.enabled = FALSE]
             \/ connector' = [connector EXCEPT !.enabled = TRUE]
          /\ UNCHANGED <<now, sent, webhook, owner, issued, history>>
      BY <1>20 DEF disable_connector, enable_connector, persist
    <2>2. /\ connector' \in Connectors /\ connector'.config = connector.config
          /\ connector'.limit = connector.limit
      BY <1>1, <2>1 DEF Connectors
    <2>3. ConnectorOK(connector', now)
      BY <1>1, <2>2 DEF ConnectorOK
    <2> QED
      BY <1>1, <1>14, <2>1, <2>2, <2>3 DEF TypeInv
  <1>21. CASE UNCHANGED vars
    BY <1>1, <1>21 DEF vars, TypeInv
  <1> QED
    BY <1>6, <1>7, <1>8, <1>9, <1>10, <1>11, <1>12, <1>13, <1>15, <1>16, <1>17, <1>18, <1>19,
       <1>20, <1>21 DEF Next

\* A request of the owner reads the configuration, if it is to write one; what
\* it will write differs by a new secret, by none, or as the owner sent it.
LEMMA OwnerReads ==
  ASSUME TypeInv, NEW o \in Owners,
         \/ issue_connector_secret(o) \/ revoke_connector_secret(o) \/ update_connector(o)
  PROVE  /\ \/ owner'[o].at = "saved" /\ owner'[o].retires = {} /\ issued' = issued
            \/ /\ owner'[o].at = "write" /\ owner'[o].old = connector.config
               /\ SameNonces(connector.config.nonces, owner'[o].new.nonces,
                             owner'[o].lost.forgotten)
               /\ CountKept(owner'[o])
               /\ \/ /\ owner'[o].new.secret_hash \in
                            {connector.config.secret_hash, NoSecret} \cup history.retired
                     /\ owner'[o].new.secret_hash \in Patchable(owner'[o])
                     /\ owner'[o].retires = {} /\ issued' = issued
                  \/ /\ owner'[o].new.secret_hash = NoSecret /\ issued' = issued
                     /\ owner'[o].retires = {connector.config.secret_hash}
                  \/ /\ owner'[o].new.secret_hash = issued + 1 /\ issued' = issued + 1
                     /\ owner'[o].retires = {connector.config.secret_hash}
         /\ \A p \in Owners : p # o => owner'[p] = owner[p]
         /\ connector'.config = connector.config /\ connector'.effects = connector.effects
         /\ connector'.passed = connector.passed
         /\ history'.forgotten = history.forgotten /\ history'.restored = history.restored
         /\ history'.miscounted = history.miscounted /\ history'.retired = history.retired
         /\ history.highest <= history'.highest
         /\ UNCHANGED <<disk, now, sent, webhook>>
  <1> DEFINE c == connector.config
             Renewed(s) == [c EXCEPT !.secret_hash = s]
             Read(new, lost, retires) ==
                [at |-> "write", old |-> c, new |-> new, lost |-> lost, retires |-> retires]
  <1>1. /\ c \in Configs /\ connector \in Connectors /\ owner = [p \in Owners |-> owner[p]]
        /\ history \in Losses
    BY DEF TypeInv, ConnectorOK, Connectors
  <1>2. \A s : /\ Renewed(s).nonces = c.nonces /\ Renewed(s).secret_hash = s
              /\ Renewed(s).started = c.started /\ Renewed(s).count = c.count
    BY <1>1 DEF Configs
  <1>3. UNCHANGED <<disk, now, sent, webhook>>
    BY DEF issue_connector_secret, revoke_connector_secret, update_connector
  <1>4. /\ connector'.config = c /\ connector'.effects = connector.effects
        /\ connector'.passed = connector.passed
    BY <1>1 DEF issue_connector_secret, revoke_connector_secret, update_connector, Connectors
  <1>5. /\ history'.forgotten = history.forgotten /\ history'.restored = history.restored
        /\ history'.miscounted = history.miscounted /\ history'.retired = history.retired
        /\ history.highest <= history'.highest
    <2>1. history.highest \in 1 .. MaxLimit
      BY <1>1 DEF Losses, Limits
    <2>2. \/ history' = history
          \/ \E limit \in 1 .. MaxLimit :
                history' = [history EXCEPT !.highest = IF limit > @ THEN limit ELSE @]
      BY DEF issue_connector_secret, revoke_connector_secret, update_connector
    <2>3. CASE history' = history
      BY <2>1, <2>3, Numbers
    <2>4. CASE \E limit \in 1 .. MaxLimit :
                 history' = [history EXCEPT !.highest = IF limit > @ THEN limit ELSE @]
      <3>1. PICK limit \in 1 .. MaxLimit :
              history' = [history EXCEPT !.highest = IF limit > @ THEN limit ELSE @]
        BY <2>4
      <3>2. history'.highest = IF limit > history.highest THEN limit ELSE history.highest
        BY <1>1, <3>1 DEF Losses
      <3>3. history.highest <= history'.highest
        BY <2>1, <3>2, Numbers
      <3> QED
        BY <1>1, <3>1, <3>3 DEF Losses
    <2> QED
      BY <2>2, <2>3, <2>4
  <1>6. \/ owner' = [owner EXCEPT ![o] = [at |-> "saved", retires |-> {}]] /\ issued' = issued
        \/ /\ \E new \in Merged(c) :
                 owner' = [owner EXCEPT ![o] = Read(new, Patched(c, new), {})]
           /\ issued' = issued
        \/ owner' = [owner EXCEPT ![o] = Read(Renewed(NoSecret), NoLoss, {c.secret_hash})]
           /\ issued' = issued
        \/ owner' = [owner EXCEPT ![o] = Read(Renewed(issued + 1), NoLoss, {c.secret_hash})]
           /\ issued' = issued + 1
    BY DEF issue_connector_secret, revoke_connector_secret, update_connector
  <1>7. \A new \in Merged(c) : new.secret_hash \in {c.secret_hash, NoSecret} \cup history.retired
    BY MergedType
  <1>8. SameNonces(c.nonces, c.nonces, {})
    BY DEF SameNonces
  <1> HIDE DEF Renewed, c
  <1>9. \A p \in Owners : p # o => owner'[p] = owner[p]
    BY <1>1, <1>6
  <1> DEFINE Rest ==
        /\ \A p \in Owners : p # o => owner'[p] = owner[p]
        /\ connector'.config = c /\ connector'.effects = connector.effects
        /\ connector'.passed = connector.passed
        /\ history'.forgotten = history.forgotten /\ history'.restored = history.restored
        /\ history'.miscounted = history.miscounted /\ history'.retired = history.retired
        /\ history.highest <= history'.highest
        /\ UNCHANGED <<disk, now, sent, webhook>>
  <1>10. Rest
    BY <1>3, <1>4, <1>5, <1>9
  <1>11. CASE /\ owner' = [owner EXCEPT ![o] = [at |-> "saved", retires |-> {}]]
              /\ issued' = issued
    <2>1. owner'[o].at = "saved" /\ owner'[o].retires = {}
      BY <1>1, <1>11
    <2> QED
      BY <1>10, <1>11, <2>1 DEF c
  <1>12. ASSUME NEW new \in Merged(c),
                owner' = [owner EXCEPT ![o] = Read(new, Patched(c, new), {})], issued' = issued
         PROVE  /\ owner'[o].at = "write" /\ owner'[o].old = c
                /\ SameNonces(c.nonces, owner'[o].new.nonces, owner'[o].lost.forgotten)
                /\ CountKept(owner'[o])
                /\ owner'[o].new.secret_hash \in {c.secret_hash, NoSecret} \cup history.retired
                /\ owner'[o].new.secret_hash \in Patchable(owner'[o])
                /\ owner'[o].retires = {}
    <2> DEFINE lost == Patched(c, new)
    <2>1. /\ SameNonces(c.nonces, new.nonces, lost.forgotten)
          /\ new.secret_hash = c.secret_hash \/ new.secret_hash \in lost.restored
          /\ ~lost.miscounted => new.started = c.started /\ new.count = c.count
      BY PatchedLoses
    <2> HIDE DEF lost
    <2>2. owner'[o] = Read(new, lost, {})
      BY <1>1, <1>12 DEF lost
    <2>3. /\ owner'[o].at = "write" /\ owner'[o].old = c /\ owner'[o].new = new
          /\ owner'[o].lost = lost /\ owner'[o].retires = {}
      BY <2>2
    <2> QED
      BY <1>7, <2>1, <2>3 DEF CountKept, Patchable
  <1>13. ASSUME NEW s, owner' = [owner EXCEPT ![o] = Read(Renewed(s), NoLoss, {c.secret_hash})]
         PROVE  /\ owner'[o].at = "write" /\ owner'[o].old = c
                /\ SameNonces(c.nonces, owner'[o].new.nonces, owner'[o].lost.forgotten)
                /\ CountKept(owner'[o]) /\ owner'[o].new.secret_hash = s
                /\ owner'[o].retires = {c.secret_hash}
    <2>1. owner'[o] = Read(Renewed(s), NoLoss, {c.secret_hash})
      BY <1>1, <1>13
    <2>2. /\ owner'[o].at = "write" /\ owner'[o].old = c /\ owner'[o].new = Renewed(s)
          /\ owner'[o].lost = NoLoss /\ owner'[o].retires = {c.secret_hash}
      BY <2>1
    <2> QED
      BY <1>2, <1>8, <2>2, LostType DEF CountKept
  <1> QED
    BY <1>6, <1>10, <1>11, <1>12, <1>13 DEF c

\* Every variable has its type, whatever overlaps or restarts.
THEOREM WebhookTypeInvariance == Spec => []TypeInv
  <1>1. Init => TypeInv
    BY TypeStart
  <1>2. TypeInv /\ [Next]_vars => TypeInv'
    BY TypeStep
  <1> QED
    BY <1>1, <1>2, PTL DEF Spec

\* The history of nonces stays within its limit and one more, and no window of
\* the rate limit begins in the future, unless the owner sent them so, for any
\* limits.
THEOREM WebhookTypeCorrect == Spec => []TypeOK
  <1>1. TypeInv => TypeOK
    <2> SUFFICES ASSUME TypeInv PROVE TypeOK
      OBVIOUS
    <2>1. ASSUME NEW c, ConnectorOK(c, now)
          PROVE  /\ c.enabled \in BOOLEAN /\ c.secret_ref \in BOOLEAN
                 /\ c.config.secret_hash \in Secrets \cup {NoSecret}
                 /\ DOMAIN c.config.nonces \subseteq Messages
                 /\ \/ Cardinality(DOMAIN c.config.nonces) <= MaxTracked + 1
                    \/ c.config.nonces \in PatchedNonces
                 /\ \A m \in DOMAIN c.config.nonces : c.config.nonces[m] \in Times
                 /\ c.config.started \in -1 .. now \cup PatchedStarts
                 /\ c.config.count \in 0 .. MaxLimit
                 /\ c.effects \in [Messages -> 0 .. 2]
      <3>1. c \in Connectors /\ ConfigOK(c.config, now)
        BY <2>1 DEF ConnectorOK
      <3>2. c.config \in Configs /\ c.config.nonces \in Histories
        BY <3>1 DEF Connectors, Configs
      <3>3. /\ DOMAIN c.config.nonces \subseteq Messages
            /\ \A m \in DOMAIN c.config.nonces : c.config.nonces[m] \in Times
        BY <3>2, HistoryType
      <3>4. /\ \/ Cardinality(DOMAIN c.config.nonces) <= MaxTracked + 1
               \/ c.config.nonces \in PatchedNonces
            /\ c.config.started <= now \/ c.config.started \in PatchedStarts
        BY <3>1 DEF ConfigOK
      <3>5. c.config.started \in Int /\ c.config.started >= -1 /\ now \in Int
        BY <3>2, TimeNumbers DEF Configs, TypeInv
      <3>6. c.config.started \in -1 .. now \cup PatchedStarts
        BY <3>4, <3>5
      <3> QED
        BY <3>1, <3>2, <3>3, <3>4, <3>6 DEF Connectors, Configs, Hashes
    <2>2. ConnectorOK(connector, now) /\ ConnectorOK(disk, now)
      BY DEF TypeInv
    <2>6. ASSUME NEW c, ConnectorOK(c, now), c.limit <= history.highest
          PROVE  c.limit \in 1 .. history.highest
      <3>1. c.limit \in 1 .. MaxLimit /\ history.highest \in 1 .. MaxLimit
        BY <2>6 DEF ConnectorOK, Connectors, TypeInv, Losses, Limits
      <3> QED
        BY <2>6, <3>1, Numbers
    <2>7. connector.limit \in 1 .. history.highest /\ disk.limit \in 1 .. history.highest
      BY <2>2, <2>6 DEF TypeInv
    <2>3. issued \in Secrets
      BY Numbers DEF TypeInv, Secrets
    <2>4. /\ now \in Times
          /\ \A m \in DOMAIN sent : sent[m].timestamp \in Int /\ sent[m].secret \in Secrets
      BY DEF TypeInv, SentOK
    <2>5. /\ webhook.at \in {"idle", "nonce", "checked", "rate", "payload"}
          /\ \A o \in Owners : owner[o].at \in {"idle", "write", "saved"}
      BY WebhookPlace, OwnerPlace
    <2> QED
      BY <2>1, <2>2, <2>3, <2>4, <2>5, <2>7 DEF TypeOK
  <1> QED
    BY <1>1, WebhookTypeInvariance, PTL

-----------------------------------------------------------------------------
(* Replays.                                                                *)

(* No accepted message is forgotten or changed.                            *)
Extends(msgs, more) == \A m \in DOMAIN msgs : m \in DOMAIN more /\ more[m] = msgs[m]

\* What is said of effects and nonces stays true as time passes.
LEMMA EffectsLater ==
  ASSUME NEW c, NEW msgs, NEW more, SentOK(msgs), Extends(msgs, more),
         NEW s \in Nat, NEW t \in Nat, s <= t, NEW f, NEW g, f \subseteq g,
         EffectsOK(c, msgs, s, f)
  PROVE  EffectsOK(c, more, t, g)
  <1>1. \A m \in DOMAIN msgs : more[m] = msgs[m] /\ m \in DOMAIN more /\ msgs[m].timestamp \in Int
    BY DEF Extends, SentOK
  <1>2. Tolerance \in Nat
    BY Numbers
  <1>3. ASSUME NEW m \in Messages
        PROVE  /\ c.effects[m] > 0 =>
                    m \in DOMAIN more /\ Refusable(c.config.nonces, m, more, t, g)
               /\ c.effects[m] > 1 => m \in g
    <2>1. /\ c.effects[m] > 0 =>
                m \in DOMAIN msgs /\ Refusable(c.config.nonces, m, msgs, s, f)
          /\ c.effects[m] > 1 => m \in f
      BY DEF EffectsOK
    <2>2. ASSUME m \in DOMAIN msgs, s > msgs[m].timestamp + Tolerance
          PROVE  t > more[m].timestamp + Tolerance
      BY <1>1, <1>2, <2>2
    <2> QED
      BY <1>1, <2>1, <2>2 DEF Refusable
  <1> QED
    BY <1>3 DEF EffectsOK

\* A write keeps what is refusable, if it drops only nonces whose time is over.
LEMMA OverwriteKeeps ==
  ASSUME TypeInv, NonceInv, NEW old \in Configs, NEW new \in Configs, NEW lost \in Lost,
         Overwrite(old, new, lost),
         SeenInTime(new.nonces, sent, history.forgotten \cup lost.forgotten),
         \A m \in DOMAIN old.nonces :
            \/ m \in DOMAIN new.nonces
            \/ m \in lost.forgotten \/ m \in history.forgotten
            \/ m \in DOMAIN sent /\ now > sent[m].timestamp + Tolerance
  PROVE  /\ SeenInTime(connector'.config.nonces, sent, history'.forgotten)
         /\ EffectsOK(connector', sent, now, history'.forgotten)
         /\ \A m \in DOMAIN sent :
              Refusable(connector.config.nonces, m, sent, now, history.forgotten) =>
              Refusable(connector'.config.nonces, m, sent, now, history'.forgotten)
         /\ connector'.effects = connector.effects
         /\ history.forgotten \subseteq history'.forgotten
         /\ lost.forgotten \subseteq history'.forgotten
         /\ connector'.config.nonces = new.nonces
  <1>1. /\ connector'.config = new /\ connector'.effects = connector.effects
        /\ history'.forgotten = history.forgotten \cup lost.forgotten \cup
              {m \in DOMAIN connector.config.nonces :
                  m \notin DOMAIN old.nonces \/ old.nonces[m] # connector.config.nonces[m]}
    BY OverwriteStep
  <1>2. ASSUME NEW m \in DOMAIN sent,
               Refusable(connector.config.nonces, m, sent, now, history.forgotten)
        PROVE  Refusable(connector'.config.nonces, m, sent, now, history'.forgotten)
    <2>1. CASE m \in DOMAIN connector.config.nonces
      <3>1. m \in DOMAIN old.nonces \/ m \in history'.forgotten
        BY <1>1, <2>1
      <3> QED
        BY <1>1, <3>1 DEF Refusable
    <2>2. CASE m \notin DOMAIN connector.config.nonces
      BY <1>1, <1>2, <2>2 DEF Refusable
    <2> QED
      BY <2>1, <2>2
  <1>3. EffectsOK(connector, sent, now, history.forgotten)
    BY DEF NonceInv
  <1>4. EffectsOK(connector', sent, now, history'.forgotten)
    BY <1>1, <1>2, <1>3 DEF EffectsOK
  <1>5. SeenInTime(connector'.config.nonces, sent, history'.forgotten)
    BY <1>1 DEF SeenInTime
  <1> QED
    BY <1>1, <1>2, <1>4, <1>5

\* What is said of histories stays true when messages are accepted and nonces
\* forgotten.
LEMMA SeenLater ==
  ASSUME NEW h, NEW msgs, NEW more, Extends(msgs, more), NEW f, NEW g, f \subseteq g,
         SeenInTime(h, msgs, f)
  PROVE  SeenInTime(h, more, g)
  BY DEF SeenInTime, Extends

\* The same of the writes of the owner.
LEMMA WritesLater ==
  ASSUME NonceInv, Extends(sent, sent'), history.forgotten \subseteq history'.forgotten,
         NEW o \in Owners, owner[o].at = "write"
  PROVE  WriteOK(owner[o], sent', history'.forgotten)
  BY SeenLater DEF NonceInv, WriteOK

\* A request of the owner that leaves the effects and the nonces alone.
LEMMA OwnerNonces ==
  ASSUME TypeInv, NonceInv, connector'.config.nonces = connector.config.nonces,
         connector'.effects = connector.effects, disk' = disk \/ disk' = connector',
         UNCHANGED <<now, sent, webhook>>, history'.forgotten = history.forgotten,
         \A o \in Owners : owner'[o].at = "write" =>
            \/ owner'[o] = owner[o]
            \/ /\ SameNonces(connector.config.nonces, owner'[o].new.nonces,
                             owner'[o].lost.forgotten)
               /\ owner'[o].old.nonces = connector.config.nonces
  PROVE  NonceInv'
  <1>1. EffectsOK(connector', sent', now', history'.forgotten)
    BY DEF NonceInv, EffectsOK
  <1>2. EffectsOK(disk', sent', now', history'.forgotten)
    BY <1>1 DEF NonceInv
  <1>3. /\ SeenInTime(connector'.config.nonces, sent', history'.forgotten)
        /\ SeenInTime(disk'.config.nonces, sent', history'.forgotten)
    BY DEF NonceInv
  <1>4. \A o \in Owners : owner'[o].at = "write" =>
          WriteOK(owner'[o], sent', history'.forgotten)
    BY DEF NonceInv, WriteOK
  <1> QED
    BY <1>1, <1>2, <1>3, <1>4 DEF NonceInv

\* Every step keeps what makes a replay impossible.
LEMMA NonceInvStep ==
  ASSUME TypeInv, NonceInv, [Next]_vars
  PROVE  NonceInv'
  <1>1. /\ SentOK(sent) /\ now \in Times /\ now \in Nat /\ Extends(sent, sent)
        /\ connector \in Connectors /\ connector.config \in Configs /\ history \in Losses
        /\ SeenInTime(connector.config.nonces, sent, history.forgotten)
        /\ SeenInTime(disk.config.nonces, sent, history.forgotten)
        /\ EffectsOK(connector, sent, now, history.forgotten)
        /\ EffectsOK(disk, sent, now, history.forgotten)
        /\ owner = [o \in Owners |-> owner[o]]
    BY TimeNumbers DEF TypeInv, ConnectorOK, Connectors, NonceInv, Extends
  <1>2. \A m \in DOMAIN sent : m \in Messages /\ sent[m].timestamp \in Int
    BY <1>1 DEF SentOK
  <1>3. Tolerance \in Nat /\ NonceTTL = 2 * Tolerance
    BY Numbers
  <1>4. CASE Tick
    <2>1. /\ now' = now + 1 /\ UNCHANGED <<connector, disk, sent, webhook, owner, history>>
      BY <1>4 DEF Tick
    <2>2. now' \in Nat /\ now <= now'
      BY <1>1, <2>1
    <2>3. /\ EffectsOK(connector, sent, now', history.forgotten)
          /\ EffectsOK(disk, sent, now', history.forgotten)
      BY <1>1, <2>2, EffectsLater
    <2>4. ASSUME NEW m \in DOMAIN sent,
                 Refusable(connector.config.nonces, m, sent, now, history.forgotten)
          PROVE  Refusable(connector.config.nonces, m, sent, now', history.forgotten)
      <3>1. now > sent[m].timestamp + Tolerance => now' > sent[m].timestamp + Tolerance
        BY <1>1, <1>2, <1>3, <2>2
      <3> QED
        BY <2>4, <3>1 DEF Refusable
    <2> QED
      BY <2>1, <2>3, <2>4 DEF NonceInv
  <1>5. CASE restart
    <2>1. /\ connector' = disk /\ webhook' = IdleWebhook /\ owner' = [o \in Owners |-> IdleOwner]
          /\ UNCHANGED <<disk, now, sent, history>>
      BY <1>5 DEF restart
    <2>2. webhook'.at = "idle" /\ \A o \in Owners : owner'[o].at = "idle"
      BY <2>1 DEF IdleWebhook, IdleOwner
    <2> QED
      BY <1>1, <2>1, <2>2 DEF NonceInv
  <1>6. ASSUME NEW m \in Messages, receive(m) PROVE NonceInv'
    <2>1. PICK signed \in Signed(m) : _authenticate_connector(signed) /\ sent' = With(sent, m, signed)
      BY <1>6 DEF receive
    <2>2. /\ webhook' = [at |-> "nonce", message |-> m, config |-> connector.config, seen |-> now]
          /\ UNCHANGED <<connector, disk, now, owner, history>>
      BY <1>6 DEF receive
    <2>3. m \in DOMAIN sent => signed = sent[m]
      BY <2>1 DEF Signed
    <2>4. Extends(sent, sent') /\ m \in DOMAIN sent' /\ sent'[m] = signed
      BY <2>1, <2>3 DEF Extends, With
    <2>5. signed.timestamp - now \in -Tolerance .. Tolerance
      BY <2>1 DEF _authenticate_connector, _authenticate_hmac_v1
    <2>6. signed.timestamp \in Int
      <3>1. CASE m \in DOMAIN sent
        BY <1>2, <2>3, <3>1
      <3>2. CASE m \notin DOMAIN sent
        <4>1. PICK skew \in Skews : signed.timestamp = now + skew
          BY <2>1, <3>2 DEF Signed
        <4>2. skew \in Int
          BY <1>3, WebhookAssumption
        <4> QED
          BY <1>1, <4>1, <4>2
      <3> QED
        BY <3>1, <3>2
    <2>7. /\ EffectsOK(connector, sent', now, history.forgotten)
          /\ EffectsOK(disk, sent', now, history.forgotten)
      BY <1>1, <2>4, EffectsLater
    <2>8. \A h : SeenInTime(h, sent, history.forgotten)
                   => SeenInTime(h, sent', history.forgotten)
      BY <2>4, SeenLater
    <2>9. now - signed.timestamp \in -Tolerance .. Tolerance /\ ~(now > signed.timestamp + Tolerance)
      BY <1>1, <1>3, <2>5, <2>6
    <2>10. connector.effects[m] > 0 =>
             m \in history.forgotten \/ m \in DOMAIN connector.config.nonces
      BY <2>4, <2>7, <2>9 DEF EffectsOK, Refusable
    <2>11. /\ webhook'.at = "nonce" /\ webhook'.message = m /\ webhook'.config = connector.config
           /\ webhook'.seen = now
      BY <2>2
    <2>12. \A o \in Owners : owner'[o].at = "write" =>
             WriteOK(owner'[o], sent', history'.forgotten)
      BY <2>2, <2>4, WritesLater
    <2>13. /\ SeenInTime(connector.config.nonces, sent', history.forgotten)
           /\ SeenInTime(disk.config.nonces, sent', history.forgotten)
      BY <1>1, <2>8
    <2> QED
      BY <2>2, <2>4, <2>7, <2>9, <2>10, <2>11, <2>12, <2>13 DEF NonceInv
  <1>7. ASSUME NEW m \in Messages, refuse(m) PROVE NonceInv'
    <2>1. /\ UNCHANGED <<connector, now, sent, webhook, owner, history>> /\ disk' = connector'
      BY <1>7 DEF refuse, persist
    <2> QED
      BY <2>1, OwnerNonces
  <1>8. CASE _assert_hmac_v1_not_replayed
    <2> DEFINE m == webhook.message
               old == webhook.config
               t == webhook.seen
    <2>1. PICK cleaned \in _clean_hmac_nonce_history(old, t), new \in Configs, lost \in Lost :
            /\ lost.forgotten = Kept(old, t) \ DOMAIN cleaned
            /\ new.nonces = IF m \in DOMAIN cleaned THEN cleaned ELSE With(cleaned, m, t)
            /\ Overwrite(old, new, lost)
            /\ \/ m \in DOMAIN cleaned /\ webhook' = IdleWebhook /\ disk' = connector'
               \/ /\ m \notin DOMAIN cleaned /\ webhook' = [at |-> "checked", message |-> m]
                  /\ disk' = disk
      BY <1>8, NonceStep
    <2>2. /\ webhook.at = "nonce" /\ UNCHANGED <<now, sent, owner>>
      BY <1>8 DEF _assert_hmac_v1_not_replayed
    <2>3. /\ m \in Messages /\ old \in Configs /\ t \in Times /\ t <= now /\ ConfigOK(old, t)
      BY <2>2, WebhookPlace
    <2>4. /\ cleaned \in Histories /\ DOMAIN cleaned \subseteq Kept(old, t)
          /\ Kept(old, t) \subseteq DOMAIN old.nonces
          /\ \A k \in DOMAIN cleaned : cleaned[k] = old.nonces[k]
      BY <2>1, <2>3, CleanedType
    <2>5. /\ old.nonces \in Histories /\ DOMAIN old.nonces \subseteq Messages
          /\ \A k \in DOMAIN old.nonces : old.nonces[k] \in Nat
      BY <2>3, HistoryType, TimeNumbers DEF Configs
    <2>6. SeenInTime(old.nonces, sent, history.forgotten) /\ m \in DOMAIN sent
          /\ t - sent[m].timestamp \in -Tolerance .. Tolerance
          /\ (connector.effects[m] > 0 => m \in history.forgotten \/ m \in DOMAIN old.nonces)
      BY <2>2 DEF NonceInv
    <2>7. t \in Nat /\ sent[m].timestamp \in Int
      BY <1>2, <2>3, <2>6, TimeNumbers
    <2>8. t >= sent[m].timestamp - Tolerance /\ t <= sent[m].timestamp + Tolerance
      BY <1>3, <2>6, <2>7
    <2>9. ASSUME NEW k \in DOMAIN old.nonces, k \notin Kept(old, t), k \notin history.forgotten
          PROVE  k \in DOMAIN sent /\ t > sent[k].timestamp + Tolerance
      <3>1. k \in DOMAIN sent /\ old.nonces[k] >= sent[k].timestamp - Tolerance
        BY <2>6, <2>9 DEF SeenInTime
      <3>2. ~(t - old.nonces[k] <= NonceTTL)
        BY <2>9 DEF Kept
      <3>3. sent[k].timestamp \in Int /\ old.nonces[k] \in Nat
        BY <1>2, <2>5, <3>1
      <3> HIDE DEF old, t
      <3> QED
        BY <1>3, <2>7, <3>1, <3>2, <3>3
    <2>10. /\ DOMAIN new.nonces = DOMAIN cleaned \cup {m}
           /\ \A k \in DOMAIN cleaned : new.nonces[k] = cleaned[k]
           /\ m \notin DOMAIN cleaned => new.nonces[m] = t
      <3>1. CASE m \in DOMAIN cleaned
        BY <2>1, <3>1
      <3>2. CASE m \notin DOMAIN cleaned
        BY <2>1, <3>2 DEF With
      <3> QED
        BY <3>1, <3>2
    <2>11. SeenInTime(new.nonces, sent, history.forgotten)
      <3>1. ASSUME NEW k \in DOMAIN new.nonces, k \notin history.forgotten
            PROVE  k \in DOMAIN sent /\ new.nonces[k] >= sent[k].timestamp - Tolerance
        <4>1. CASE k \in DOMAIN cleaned
          <5>1. new.nonces[k] = old.nonces[k] /\ k \in DOMAIN old.nonces
            BY <2>4, <2>10, <4>1
          <5> QED
            BY <2>6, <3>1, <5>1 DEF SeenInTime
        <4>2. CASE k \notin DOMAIN cleaned
          <5>1. k = m /\ new.nonces[k] = t
            BY <2>10, <3>1, <4>2
          <5> QED
            BY <2>6, <2>8, <5>1
        <4> QED
          BY <4>1, <4>2
      <3> QED
        BY <3>1 DEF SeenInTime
    <2>12. SeenInTime(new.nonces, sent, history.forgotten \cup lost.forgotten)
      BY <1>1, <2>11, SeenLater
    <2>13. ASSUME NEW k \in DOMAIN old.nonces
           PROVE  \/ k \in DOMAIN new.nonces
                  \/ k \in lost.forgotten \/ k \in history.forgotten
                  \/ k \in DOMAIN sent /\ now > sent[k].timestamp + Tolerance
      <3>1. CASE k \in Kept(old, t)
        BY <2>1, <2>10, <3>1
      <3>2. CASE k \notin Kept(old, t) /\ k \notin history.forgotten
        <4>1. k \in DOMAIN sent /\ t > sent[k].timestamp + Tolerance
          BY <2>9, <3>2
        <4>2. sent[k].timestamp \in Int
          BY <1>2, <4>1
        <4> HIDE DEF t
        <4>3. now > sent[k].timestamp + Tolerance
          BY <1>1, <1>3, <2>3, <2>7, <4>1, <4>2
        <4> QED
          BY <4>1, <4>3
      <3> QED
        BY <3>1, <3>2
    <2>14. /\ SeenInTime(connector'.config.nonces, sent, history'.forgotten)
           /\ EffectsOK(connector', sent, now, history'.forgotten)
           /\ connector'.effects = connector.effects
           /\ history.forgotten \subseteq history'.forgotten
           /\ lost.forgotten \subseteq history'.forgotten
           /\ connector'.config.nonces = new.nonces
      BY <2>1, <2>3, <2>12, <2>13, OverwriteKeeps
    <2>15. /\ EffectsOK(disk, sent, now, history'.forgotten)
           /\ SeenInTime(disk.config.nonces, sent, history'.forgotten)
      BY <1>1, <2>14, EffectsLater, SeenLater
    <2>16. m \notin DOMAIN cleaned /\ connector.effects[m] > 0 => m \in history'.forgotten
      <3> SUFFICES ASSUME m \notin DOMAIN cleaned, m \in DOMAIN old.nonces,
                          m \notin history.forgotten
                   PROVE  m \in history'.forgotten
        BY <2>6, <2>14
      <3>1. m \in Kept(old, t)
        <4> SUFFICES ASSUME m \notin Kept(old, t) PROVE FALSE
          OBVIOUS
        <4>1. t > sent[m].timestamp + Tolerance
          BY <2>9
        <4> HIDE DEF t
        <4> QED
          BY <1>3, <2>7, <2>8, <4>1
      <3> QED
        BY <2>1, <2>14, <3>1
    <2>17. Refusable(connector'.config.nonces, m, sent, now, history'.forgotten)
      BY <2>10, <2>14 DEF Refusable
    <2>18. \/ webhook'.at = "idle" /\ disk' = connector'
           \/ /\ webhook'.at = "checked" /\ webhook'.message = m /\ m \notin DOMAIN cleaned
              /\ disk' = disk
      BY <2>1 DEF IdleWebhook
    <2>19. \A o \in Owners : owner'[o].at = "write" =>
             WriteOK(owner'[o], sent', history'.forgotten)
      BY <1>1, <2>2, <2>14, WritesLater
    <2>20. CASE webhook'.at = "idle" /\ disk' = connector'
      BY <1>1, <2>2, <2>14, <2>19, <2>20 DEF NonceInv
    <2>21. CASE /\ webhook'.at = "checked" /\ webhook'.message = m /\ m \notin DOMAIN cleaned
                /\ disk' = disk
      <3> HIDE DEF m
      <3> QED
        BY <1>1, <2>2, <2>6, <2>14, <2>15, <2>16, <2>17, <2>19, <2>21 DEF NonceInv
    <2> QED
      BY <2>18, <2>20, <2>21
  <1>9. CASE read_rate
    <2>1. /\ webhook.at = "checked"
          /\ webhook' = [at |-> "rate", message |-> webhook.message, config |-> connector.config,
                         seen |-> now]
          /\ UNCHANGED <<connector, disk, now, sent, owner, history>>
      BY <1>9 DEF read_rate
    <2>2. /\ webhook'.at = "rate" /\ webhook'.message = webhook.message
          /\ webhook'.config = connector.config
      BY <2>1
    <2> QED
      BY <2>1, <2>2 DEF NonceInv
  <1>10. CASE _enforce_connector_rate_limit
    <2> DEFINE m == webhook.message
    <2>1. PICK new \in Configs :
            /\ new.nonces = webhook.config.nonces /\ Overwrite(webhook.config, new, NoLoss)
            /\ \/ webhook' = IdleWebhook /\ disk' = connector'
               \/ /\ webhook' = [at |-> "payload", message |-> m, seen |-> webhook.seen]
                  /\ disk' = disk
      BY <1>10, RateStep
    <2>2. webhook.at = "rate" /\ UNCHANGED <<now, sent, owner>>
      BY <1>10 DEF _enforce_connector_rate_limit
    <2>3. webhook.config \in Configs
      BY <2>2, WebhookPlace
    <2>4. SeenInTime(new.nonces, sent, history.forgotten) /\ m \in DOMAIN sent
          /\ (connector.effects[m] > 0 => m \in history.forgotten)
          /\ Refusable(connector.config.nonces, m, sent, now, history.forgotten)
      BY <2>1, <2>2 DEF NonceInv
    <2>9. SeenInTime(new.nonces, sent, history.forgotten \cup NoLoss.forgotten)
      BY <1>1, <2>4, SeenLater
    <2>5. /\ SeenInTime(connector'.config.nonces, sent, history'.forgotten)
          /\ EffectsOK(connector', sent, now, history'.forgotten)
          /\ Refusable(connector'.config.nonces, m, sent, now, history'.forgotten)
          /\ connector'.effects = connector.effects
          /\ history.forgotten \subseteq history'.forgotten
      BY <2>1, <2>3, <2>4, <2>9, LostType, OverwriteKeeps
    <2>6. /\ EffectsOK(disk, sent, now, history'.forgotten)
          /\ SeenInTime(disk.config.nonces, sent, history'.forgotten)
      BY <1>1, <2>5, EffectsLater, SeenLater
    <2>7. \/ webhook'.at = "idle" /\ disk' = connector'
          \/ webhook'.at = "payload" /\ webhook'.message = m /\ disk' = disk
      BY <2>1 DEF IdleWebhook
    <2>8. \A o \in Owners : owner'[o].at = "write" =>
             WriteOK(owner'[o], sent', history'.forgotten)
      BY <1>1, <2>2, <2>5, WritesLater
    <2> HIDE DEF m
    <2> QED
      BY <1>1, <2>2, <2>4, <2>5, <2>6, <2>7, <2>8 DEF NonceInv
  <1>11. CASE handle_connector_webhook
    <2> DEFINE m == webhook.message
    <2>1. /\ connector'.config = connector.config
          /\ \A k \in Messages : \/ connector'.effects[k] = connector.effects[k]
                                 \/ k = m /\ connector'.effects[k] = connector.effects[k] + 1
          /\ webhook' = IdleWebhook /\ disk' = connector' /\ UNCHANGED <<now, sent, owner, history>>
      BY <1>11, HandleStep
    <2>2. webhook.at = "payload"
      BY <1>11 DEF handle_connector_webhook
    <2>3. /\ m \in DOMAIN sent /\ (connector.effects[m] > 0 => m \in history.forgotten)
          /\ Refusable(connector.config.nonces, m, sent, now, history.forgotten)
      BY <2>2 DEF NonceInv
    <2>4. \A k \in Messages : connector.effects[k] \in Nat
      BY <1>1 DEF Connectors
    <2>5. ASSUME NEW k \in Messages
          PROVE  /\ connector'.effects[k] > 0 => /\ k \in DOMAIN sent
                        /\ Refusable(connector'.config.nonces, k, sent, now, history.forgotten)
                 /\ connector'.effects[k] > 1 => k \in history.forgotten
      <3>1. CASE connector'.effects[k] = connector.effects[k]
        BY <1>1, <2>1, <3>1 DEF EffectsOK
      <3>2. CASE k = m /\ connector'.effects[k] = connector.effects[k] + 1
        <4>1. connector'.effects[k] > 1 => connector.effects[k] > 0
          BY <2>4, <3>2
        <4> QED
          BY <2>1, <2>3, <3>2, <4>1
      <3> QED
        BY <2>1, <3>1, <3>2
    <2>6. EffectsOK(connector', sent, now, history.forgotten)
      BY <2>5 DEF EffectsOK
    <2>7. webhook'.at = "idle"
      BY <2>1 DEF IdleWebhook
    <2>8. \A o \in Owners : owner'[o].at = "write" =>
             WriteOK(owner'[o], sent', history'.forgotten)
      BY <2>1 DEF NonceInv
    <2> QED
      BY <1>1, <2>1, <2>6, <2>7, <2>8 DEF NonceInv
  <1>12. ASSUME NEW o \in Owners,
                \/ issue_connector_secret(o) \/ revoke_connector_secret(o) \/ update_connector(o)
         PROVE  NonceInv'
    <2>1. /\ owner'[o].at = "write" =>
                /\ SameNonces(connector.config.nonces, owner'[o].new.nonces,
                              owner'[o].lost.forgotten)
                /\ owner'[o].old.nonces = connector.config.nonces
          /\ \A p \in Owners : p # o => owner'[p] = owner[p]
          /\ connector'.config = connector.config /\ connector'.effects = connector.effects
          /\ history'.forgotten = history.forgotten
          /\ UNCHANGED <<disk, now, sent, webhook>>
      BY <1>12, OwnerReads
    <2> QED
      BY <2>1, OwnerNonces
  <1>13. ASSUME NEW o \in Owners, write_config(o) PROVE NonceInv'
    <2>1. /\ owner[o].at = "write" /\ Overwrite(owner[o].old, owner[o].new, owner[o].lost)
          /\ owner' = [owner EXCEPT ![o] = [at |-> "saved", retires |-> owner[o].retires]]
          /\ UNCHANGED <<disk, now, sent, webhook>>
      BY <1>13 DEF write_config
    <2> DEFINE old == owner[o].old
               new == owner[o].new
               lost == owner[o].lost
    <2>2. old \in Configs /\ new \in Configs /\ lost \in Lost
      BY <2>1, OwnerPlace
    <2>3. /\ SameNonces(old.nonces, new.nonces, lost.forgotten)
          /\ SeenInTime(old.nonces, sent, history.forgotten)
      BY <2>1 DEF NonceInv, WriteOK
    <2>8. /\ SeenInTime(new.nonces, sent, history.forgotten \cup lost.forgotten)
          /\ \A m \in DOMAIN old.nonces : m \in DOMAIN new.nonces \/ m \in lost.forgotten
      <3> HIDE DEF old, new, lost
      <3> QED
        BY <2>3 DEF SameNonces, SeenInTime
    <2>4. /\ SeenInTime(connector'.config.nonces, sent, history'.forgotten)
          /\ EffectsOK(connector', sent, now, history'.forgotten)
          /\ \A m \in DOMAIN sent :
               Refusable(connector.config.nonces, m, sent, now, history.forgotten) =>
               Refusable(connector'.config.nonces, m, sent, now, history'.forgotten)
          /\ connector'.effects = connector.effects
          /\ history.forgotten \subseteq history'.forgotten
      BY <2>1, <2>2, <2>8, OverwriteKeeps
    <2>5. /\ EffectsOK(disk, sent, now, history'.forgotten)
          /\ SeenInTime(disk.config.nonces, sent, history'.forgotten)
      BY <1>1, <2>4, EffectsLater, SeenLater
    <2>6. owner'[o].at = "saved" /\ \A p \in Owners : p # o => owner'[p] = owner[p]
      BY <1>1, <2>1
    <2>7. \A p \in Owners : owner'[p].at = "write" =>
             WriteOK(owner'[p], sent', history'.forgotten)
      BY <1>1, <2>1, <2>4, <2>6, WritesLater
    <2>9. webhook.at \in {"nonce", "rate"} =>
             SeenInTime(webhook.config.nonces, sent, history'.forgotten)
      BY <1>1, <2>4, SeenLater DEF NonceInv
    <2> QED
      BY <1>1, <2>1, <2>4, <2>5, <2>7, <2>9 DEF NonceInv
  <1>14. ASSUME NEW o \in Owners, answer(o) PROVE NonceInv'
    <2>1. /\ owner' = [owner EXCEPT ![o] = IdleOwner]
          /\ history' = [history EXCEPT !.retired = @ \cup owner[o].retires]
          /\ UNCHANGED <<connector, now, sent, webhook>> /\ disk' = connector'
      BY <1>14 DEF answer, persist
    <2>2. history'.forgotten = history.forgotten
      BY <1>1, <2>1 DEF Losses
    <2>3. owner'[o].at = "idle" /\ \A p \in Owners : p # o => owner'[p] = owner[p]
      BY <1>1, <2>1 DEF IdleOwner
    <2> QED
      BY <2>1, <2>2, <2>3, OwnerNonces
  <1>15. ASSUME NEW o \in Owners, disable_connector(o) \/ enable_connector(o) PROVE NonceInv'
    <2>1. /\ disk' = connector'
          /\ \/ connector' = [connector EXCEPT !.enabled = FALSE]
             \/ connector' = [connector EXCEPT !.enabled = TRUE]
          /\ UNCHANGED <<now, sent, webhook, owner, history>>
      BY <1>15 DEF disable_connector, enable_connector, persist
    <2>2. connector'.config = connector.config /\ connector'.effects = connector.effects
      BY <1>1, <2>1 DEF Connectors
    <2> QED
      BY <2>1, <2>2, OwnerNonces
  <1>16. CASE UNCHANGED vars
    <2>1. UNCHANGED <<connector, disk, now, sent, webhook, owner, history>>
      BY <1>16 DEF vars
    <2> QED
      BY <2>1, OwnerNonces
  <1> QED
    BY <1>4, <1>5, <1>6, <1>7, <1>8, <1>9, <1>10, <1>11, <1>12, <1>13, <1>14, <1>15, <1>16
    DEF Next

\* No nonce, no effect and no message at first.
LEMMA NonceStart ==
  ASSUME Init
  PROVE  NonceInv
  <1>1. DOMAIN connector.config.nonces = {} /\ connector.effects = [m \in Messages |-> 0]
    BY DEF Init, create_connector, NewConfig
  <1>2. SeenInTime(connector.config.nonces, sent, history.forgotten)
    BY <1>1 DEF SeenInTime
  <1>3. EffectsOK(connector, sent, now, history.forgotten)
    BY <1>1 DEF EffectsOK
  <1>4. disk = connector /\ webhook.at = "idle" /\ \A o \in Owners : owner[o].at = "idle"
    BY DEF Init, IdleWebhook, IdleOwner
  <1> QED
    BY <1>2, <1>3, <1>4 DEF NonceInv

\* A message has two effects only if its nonce was truncated or overwritten
\* within its time, or contradicted by a history the owner sent, however
\* deliveries, requests of the owner, restarts and the clock interleave, for any
\* tolerance, any limit on the history and anything the owner may send.
THEOREM EffectsOnce == Spec => []EffectOnce
  <1>1. Init => NonceInv
    BY NonceStart
  <1>2. TypeInv /\ NonceInv /\ [Next]_vars => NonceInv'
    BY NonceInvStep
  <1>3. NonceInv => EffectOnce
    BY DEF NonceInv, EffectsOK, EffectOnce
  <1> QED
    BY <1>1, <1>2, <1>3, WebhookTypeInvariance, PTL DEF Spec

-----------------------------------------------------------------------------
(* Secrets.                                                                *)

\* A step in which the configuration keeps its secret, and no request of the
\* owner goes on.
LEMMA SecretKept ==
  ASSUME SecretInv, connector'.config.secret_hash = connector.config.secret_hash,
         disk'.config.secret_hash
            \in {disk.config.secret_hash, connector.config.secret_hash},
         webhook'.at \in {"nonce", "rate"} =>
            \/ webhook' = webhook
            \/ webhook'.config.secret_hash = connector.config.secret_hash,
         UNCHANGED <<owner, issued>>,
         history'.retired = history.retired, history'.restored = history.restored
  PROVE  SecretInv'
  <1>1. ASSUME NEW o \in Owners, NEW s, Unseen(o, s)
        PROVE  Unseen(o, s)'
    BY <1>1 DEF Unseen
  <1>2. IssuedSecrets' = IssuedSecrets
    BY DEF IssuedSecrets
  <1>3. {connector.config.secret_hash, disk.config.secret_hash} \subseteq IssuedSecrets
    BY DEF SecretInv
  <1>4. /\ {connector'.config.secret_hash, disk'.config.secret_hash} \subseteq IssuedSecrets'
        /\ history'.retired \subseteq IssuedSecrets'
        /\ webhook'.at \in {"nonce", "rate"} => webhook'.config.secret_hash \in IssuedSecrets'
    BY <1>2, <1>3 DEF SecretInv
  <1>5. ASSUME NEW o \in Owners
        PROVE  /\ owner'[o].at \in {"write", "saved"} => owner'[o].retires \subseteq IssuedSecrets'
               /\ owner'[o].at = "write" =>
                    /\ owner'[o].old.secret_hash \in IssuedSecrets'
                    /\ owner'[o].new.secret_hash \in IssuedSecrets'
                    /\ owner'[o].new.secret_hash \notin owner'[o].retires \ {NoSecret}
                    /\ \/ owner'[o].new.secret_hash \in Patchable(owner'[o])
                       \/ Unseen(o, owner[o].new.secret_hash)'
               /\ owner'[o].at = "saved"
                  /\ connector'.config.secret_hash \in owner'[o].retires \ {NoSecret}
                     => connector'.config.secret_hash \in history'.restored
    BY <1>1, <1>2 DEF SecretInv, Unseen
  <1>6. \A c \in {connector', disk'} : c.config.secret_hash \in history'.retired \ {NoSecret} =>
             c.config.secret_hash \in history'.restored
    BY DEF SecretInv
  <1> QED
    BY <1>4, <1>5, <1>6 DEF SecretInv

\* A webhook writes back the secret it has read.
LEMMA SecretRestored ==
  ASSUME SecretInv, webhook.at \in {"nonce", "rate"}, webhook'.at \notin {"nonce", "rate"},
         connector'.config.secret_hash = webhook.config.secret_hash,
         disk' = disk \/ disk' = connector', UNCHANGED <<owner, issued>>,
         history'.retired = history.retired,
         history'.restored = history.restored \cup
            (IF webhook.config.secret_hash # connector.config.secret_hash
             THEN {webhook.config.secret_hash} ELSE {})
  PROVE  SecretInv'
  <1> DEFINE s == webhook.config.secret_hash
  <1>1. ASSUME NEW o \in Owners, NEW k, Unseen(o, k)
        PROVE  Unseen(o, k)'
    BY <1>1 DEF Unseen
  <1>2. IssuedSecrets' = IssuedSecrets
    BY DEF IssuedSecrets
  <1>3. /\ s \in IssuedSecrets /\ disk.config.secret_hash \in IssuedSecrets
        /\ history.retired \subseteq IssuedSecrets
    BY DEF SecretInv
  <1>4. s = connector.config.secret_hash \/ s \in history'.restored
    OBVIOUS
  <1>5. history.restored \subseteq history'.restored
    OBVIOUS
  <1> HIDE DEF s
  <1>6. connector'.config.secret_hash = s
    BY DEF s
  <1>7. ASSUME NEW o \in Owners
        PROVE  /\ owner'[o].at \in {"write", "saved"} => owner'[o].retires \subseteq IssuedSecrets'
               /\ owner'[o].at = "write" =>
                    /\ owner'[o].old.secret_hash \in IssuedSecrets'
                    /\ owner'[o].new.secret_hash \in IssuedSecrets'
                    /\ owner'[o].new.secret_hash \notin owner'[o].retires \ {NoSecret}
                    /\ \/ owner'[o].new.secret_hash \in Patchable(owner'[o])
                       \/ Unseen(o, owner[o].new.secret_hash)'
               /\ owner'[o].at = "saved"
                  /\ connector'.config.secret_hash \in owner'[o].retires \ {NoSecret}
                     => connector'.config.secret_hash \in history'.restored
    <2>1. /\ owner[o].at \in {"write", "saved"} => owner[o].retires \subseteq IssuedSecrets
          /\ owner[o].at = "write" =>
               /\ owner[o].old.secret_hash \in IssuedSecrets
               /\ owner[o].new.secret_hash \in IssuedSecrets
               /\ owner[o].new.secret_hash \notin owner[o].retires \ {NoSecret}
               /\ \/ owner[o].new.secret_hash \in Patchable(owner[o])
                  \/ Unseen(o, owner[o].new.secret_hash)
          /\ owner[o].at = "saved"
             /\ connector.config.secret_hash \in owner[o].retires \ {NoSecret}
                => connector.config.secret_hash \in history.restored
      BY DEF SecretInv
    <2>2. owner'[o].at = "saved" /\ s \in owner'[o].retires \ {NoSecret} => s \in history'.restored
      BY <1>4, <1>5, <2>1
    <2> QED
      BY <1>2, <1>6, <2>1, <2>2 DEF Unseen, s
  <1>8. \A c \in {connector, disk} : c.config.secret_hash \in history.retired \ {NoSecret} =>
             c.config.secret_hash \in history.restored
    BY DEF SecretInv
  <1>9. \A c \in {connector', disk'} : c.config.secret_hash \in history'.retired \ {NoSecret} =>
             c.config.secret_hash \in history'.restored
    BY <1>4, <1>5, <1>6, <1>8
  <1> QED
    BY <1>2, <1>3, <1>6, <1>7, <1>9 DEF SecretInv

\* A request of the owner reads the configuration; a new secret is unseen.
LEMMA SecretRead ==
  ASSUME TypeInv, SecretInv, NEW o \in Owners,
         \/ issue_connector_secret(o) \/ revoke_connector_secret(o) \/ update_connector(o)
  PROVE  SecretInv'
  <1> DEFINE c == connector.config.secret_hash
             new == owner'[o].new.secret_hash
  <1>1. /\ \/ owner'[o].at = "saved" /\ owner'[o].retires = {} /\ issued' = issued
           \/ /\ owner'[o].at = "write" /\ owner'[o].old = connector.config
              /\ \/ /\ new \in {c, NoSecret} \cup history.retired /\ new \in Patchable(owner'[o])
                    /\ owner'[o].retires = {} /\ issued' = issued
                 \/ new = NoSecret /\ issued' = issued /\ owner'[o].retires = {c}
                 \/ new = issued + 1 /\ issued' = issued + 1 /\ owner'[o].retires = {c}
        /\ \A p \in Owners : p # o => owner'[p] = owner[p]
        /\ connector'.config = connector.config
        /\ history'.retired = history.retired /\ history'.restored = history.restored
        /\ UNCHANGED <<disk, webhook>>
    BY OwnerReads
  <1>2. issued \in Nat /\ NoSecret \notin Nat
    BY WebhookAssumption DEF TypeInv
  <1>3. /\ IssuedSecrets \subseteq IssuedSecrets' /\ issued + 1 \notin IssuedSecrets
        /\ NoSecret \in IssuedSecrets'
        /\ issued' = issued + 1 => issued + 1 \in IssuedSecrets'
    BY <1>1, <1>2 DEF IssuedSecrets
  <1>4. /\ {c, disk.config.secret_hash} \subseteq IssuedSecrets
        /\ webhook.at \in {"nonce", "rate"} => webhook.config.secret_hash \in IssuedSecrets
        /\ history.retired \subseteq IssuedSecrets
        /\ \A p \in Owners :
             /\ owner[p].at \in {"write", "saved"} => owner[p].retires \subseteq IssuedSecrets
             /\ owner[p].at = "write" => /\ owner[p].old.secret_hash \in IssuedSecrets
                                         /\ owner[p].new.secret_hash \in IssuedSecrets
    BY DEF SecretInv
  <1> HIDE DEF c, new
  <1>5. ASSUME new = issued + 1, owner'[o].at = "write"
        PROVE  Unseen(o, owner[o].new.secret_hash)'
    <2>1. new \notin IssuedSecrets
      BY <1>3, <1>5
    <2>2. connector'.config.secret_hash = c /\ owner'[o].old.secret_hash = c
      BY <1>1, <1>5 DEF c
    <2>3. ASSUME NEW p \in Owners
          PROVE  /\ owner'[p].at \in {"write", "saved"} => new \notin owner'[p].retires
                 /\ owner'[p].at = "write" =>
                       /\ new # owner'[p].old.secret_hash
                       /\ p # o => new # owner'[p].new.secret_hash
      <3>1. CASE p = o
        BY <1>1, <1>4, <1>5, <2>1, <2>2, <3>1
      <3>2. CASE p # o
        BY <1>1, <1>4, <2>1, <3>2
      <3> QED
        BY <3>1, <3>2
    <2> QED
      BY <1>1, <1>4, <2>1, <2>2, <2>3 DEF Unseen, new
  <1>6. ASSUME NEW p \in Owners
        PROVE  /\ owner'[p].at \in {"write", "saved"} => owner'[p].retires \subseteq IssuedSecrets'
               /\ owner'[p].at = "write" =>
                    /\ owner'[p].old.secret_hash \in IssuedSecrets'
                    /\ owner'[p].new.secret_hash \in IssuedSecrets'
                    /\ owner'[p].new.secret_hash \notin owner'[p].retires \ {NoSecret}
                    /\ \/ owner'[p].new.secret_hash \in Patchable(owner'[p])
                       \/ Unseen(p, owner[p].new.secret_hash)'
               /\ owner'[p].at = "saved"
                  /\ connector'.config.secret_hash \in owner'[p].retires \ {NoSecret}
                     => connector'.config.secret_hash \in history'.restored
    <2>3. CASE p = o /\ owner'[o].at = "saved"
      BY <1>1, <2>3
    <2>1. CASE p = o /\ owner'[o].at = "write"
      <3>1. new \in IssuedSecrets' /\ new \notin owner'[o].retires \ {NoSecret}
        BY <1>1, <1>3, <1>4, <2>1
      <3>2. new \in Patchable(owner'[o]) \/ Unseen(o, owner[o].new.secret_hash)'
        BY <1>1, <1>5, <2>1 DEF Patchable
      <3>3. owner'[o].old.secret_hash = c /\ owner'[o].new.secret_hash = new
        BY <1>1, <2>1 DEF c, new
      <3>4. owner'[o].retires \subseteq IssuedSecrets'
        BY <1>1, <1>3, <1>4, <2>1
      <3>5. c \in IssuedSecrets'
        BY <1>3, <1>4
      <3> QED
        BY <1>1, <2>1, <3>1, <3>2, <3>3, <3>4, <3>5
    <2>2. CASE p # o
      <3>1. owner'[p] = owner[p]
        BY <1>1, <2>2
      <3>2. /\ owner[p].at \in {"write", "saved"} => owner[p].retires \subseteq IssuedSecrets
            /\ owner[p].at = "write" =>
                 /\ owner[p].old.secret_hash \in IssuedSecrets
                 /\ owner[p].new.secret_hash \in IssuedSecrets
                 /\ owner[p].new.secret_hash \notin owner[p].retires \ {NoSecret}
                 /\ \/ owner[p].new.secret_hash \in Patchable(owner[p])
                    \/ Unseen(p, owner[p].new.secret_hash)
            /\ owner[p].at = "saved"
               /\ connector.config.secret_hash \in owner[p].retires \ {NoSecret}
                  => connector.config.secret_hash \in history.restored
        BY DEF SecretInv
      <3> DEFINE n == owner[p].new.secret_hash
      <3>3. ASSUME owner[p].at = "write", n # NoSecret, Unseen(p, n)
            PROVE  Unseen(p, owner[p].new.secret_hash)'
        <4>1. n \in IssuedSecrets
          BY <3>2, <3>3
        <4>2. n # c /\ (owner'[o].at = "write" => n # new)
          <5>1. n # c /\ n \notin history.retired
            BY <3>3 DEF Unseen, c
          <5> HIDE DEF n
          <5> QED
            BY <1>1, <1>3, <3>3, <4>1, <5>1
        <4>3. owner'[p].new.secret_hash = n
          BY <3>1
        <4>4. ASSUME NEW q \in Owners
              PROVE  /\ owner'[q].at \in {"write", "saved"} => n \notin owner'[q].retires
                     /\ owner'[q].at = "write" =>
                          /\ n # owner'[q].old.secret_hash
                          /\ q # p => n # owner'[q].new.secret_hash
          <5> HIDE DEF n
          <5>1. CASE q = o
            BY <1>1, <4>2, <5>1 DEF c, new
          <5>2. CASE q # o
            BY <1>1, <3>3, <5>2 DEF Unseen
          <5> QED
            BY <5>1, <5>2
        <4> HIDE DEF n
        <4> QED
          BY <1>1, <3>3, <4>2, <4>3, <4>4 DEF Unseen, c
      <3>4. Patchable(owner'[p]) = Patchable(owner[p])
        BY <3>1
      <3>5. NoSecret \in Patchable(owner[p])
        BY DEF Patchable
      <3> QED
        BY <1>1, <1>3, <3>1, <3>2, <3>3, <3>4, <3>5
    <2> QED
      BY <1>1, <2>1, <2>2, <2>3
  <1>7. \A d \in {connector', disk'} : d.config.secret_hash \in history'.retired \ {NoSecret} =>
             d.config.secret_hash \in history'.restored
    BY <1>1 DEF SecretInv
  <1>8. /\ {connector'.config.secret_hash, disk'.config.secret_hash} \subseteq IssuedSecrets'
        /\ webhook'.at \in {"nonce", "rate"} => webhook'.config.secret_hash \in IssuedSecrets'
        /\ history'.retired \subseteq IssuedSecrets'
    BY <1>1, <1>3, <1>4 DEF c
  <1> QED
    BY <1>6, <1>7, <1>8 DEF SecretInv

\* A request of the owner writes its configuration: a new secret is retired
\* nowhere, and an old one comes back only over a newer one.
LEMMA SecretWritten ==
  ASSUME TypeInv, SecretInv, NEW o \in Owners, write_config(o)
  PROVE  SecretInv'
  <1> DEFINE s == owner[o].new.secret_hash
             old == owner[o].old.secret_hash
             c == connector.config.secret_hash
  <1>1. /\ owner[o].at = "write" /\ Overwrite(owner[o].old, owner[o].new, owner[o].lost)
        /\ owner' = [owner EXCEPT ![o] = [at |-> "saved", retires |-> owner[o].retires]]
        /\ UNCHANGED <<disk, webhook, issued>>
    BY DEF write_config
  <1>2. owner[o].old \in Configs /\ owner[o].new \in Configs /\ owner[o].lost \in Lost
    BY <1>1, OwnerPlace
  <1>3. /\ connector'.config = owner[o].new /\ history'.retired = history.retired
        /\ history'.restored = history.restored \cup owner[o].lost.restored \cup
              (IF old # c THEN {s} ELSE {})
    BY <1>1, <1>2, OverwriteStep
  <1>4. /\ owner'[o].at = "saved" /\ owner'[o].retires = owner[o].retires
        /\ \A p \in Owners : p # o => owner'[p] = owner[p]
    BY <1>1 DEF TypeInv
  <1>5. /\ s \in IssuedSecrets /\ s \notin owner[o].retires \ {NoSecret}
        /\ owner[o].retires \subseteq IssuedSecrets
        /\ s \in {old, NoSecret} \cup owner[o].lost.restored \/ Unseen(o, s)
    BY <1>1 DEF SecretInv, Patchable
  <1>6. IssuedSecrets' = IssuedSecrets
    BY <1>1 DEF IssuedSecrets
  <1>7. \/ s = NoSecret \/ s \in history'.restored \/ s = c \/ Unseen(o, s)
    BY <1>3, <1>5
  <1>8. history.restored \subseteq history'.restored /\ connector'.config.secret_hash = s
    BY <1>3
  <1> HIDE DEF s, old, c
  <1>9. ASSUME NEW p \in Owners
        PROVE  /\ owner'[p].at \in {"write", "saved"} => owner'[p].retires \subseteq IssuedSecrets'
               /\ owner'[p].at = "write" =>
                    /\ owner'[p].old.secret_hash \in IssuedSecrets'
                    /\ owner'[p].new.secret_hash \in IssuedSecrets'
                    /\ owner'[p].new.secret_hash \notin owner'[p].retires \ {NoSecret}
                    /\ \/ owner'[p].new.secret_hash \in Patchable(owner'[p])
                       \/ Unseen(p, owner[p].new.secret_hash)'
               /\ owner'[p].at = "saved"
                  /\ connector'.config.secret_hash \in owner'[p].retires \ {NoSecret}
                     => connector'.config.secret_hash \in history'.restored
    <2>1. CASE p = o
      BY <1>4, <1>5, <1>6, <1>8, <2>1
    <2>2. CASE p # o
      <3>1. owner'[p] = owner[p]
        BY <1>4, <2>2
      <3>2. /\ owner[p].at \in {"write", "saved"} => owner[p].retires \subseteq IssuedSecrets
            /\ owner[p].at = "write" =>
                 /\ owner[p].old.secret_hash \in IssuedSecrets
                 /\ owner[p].new.secret_hash \in IssuedSecrets
                 /\ owner[p].new.secret_hash \notin owner[p].retires \ {NoSecret}
                 /\ \/ owner[p].new.secret_hash \in Patchable(owner[p])
                    \/ Unseen(p, owner[p].new.secret_hash)
            /\ owner[p].at = "saved"
               /\ connector.config.secret_hash \in owner[p].retires \ {NoSecret}
                  => connector.config.secret_hash \in history.restored
        BY DEF SecretInv
      <3> DEFINE n == owner[p].new.secret_hash
      <3>3. ASSUME owner[p].at = "write", Unseen(p, n)
            PROVE  Unseen(p, owner[p].new.secret_hash)'
        <4>1. n # s
          BY <1>1, <2>2, <3>3 DEF Unseen, s
        <4>2. owner'[p].new.secret_hash = n
          BY <3>1
        <4>3. \A q \in Owners :
                /\ owner'[q].at \in {"write", "saved"} => n \notin owner'[q].retires
                /\ owner'[q].at = "write" =>
                      /\ n # owner'[q].old.secret_hash
                      /\ q # p => n # owner'[q].new.secret_hash
          BY <1>1, <1>4, <3>3 DEF Unseen
        <4>4. /\ n # disk'.config.secret_hash /\ n \notin history'.retired
              /\ webhook'.at \in {"nonce", "rate"} => n # webhook'.config.secret_hash
          BY <1>1, <1>3, <3>3 DEF Unseen
        <4> HIDE DEF n
        <4> QED
          BY <1>8, <4>1, <4>2, <4>3, <4>4 DEF Unseen
      <3>4. owner[p].at = "saved" /\ s \in owner[p].retires \ {NoSecret} => s \in history'.restored
        <4>1. Unseen(o, s) /\ owner[p].at = "saved" => s \notin owner[p].retires
          BY DEF Unseen
        <4> QED
          BY <1>7, <1>8, <3>2, <4>1 DEF c
      <3> QED
        BY <1>6, <1>8, <3>1, <3>2, <3>3, <3>4
    <2> QED
      BY <2>1, <2>2
  <1>10. \A d \in {connector, disk} : d.config.secret_hash \in history.retired \ {NoSecret} =>
             d.config.secret_hash \in history.restored
    BY DEF SecretInv
  <1>11. s \in history.retired \ {NoSecret} => s \in history'.restored
    <2>1. Unseen(o, s) => s \notin history.retired
      BY DEF Unseen
    <2> QED
      BY <1>7, <1>8, <1>10, <2>1 DEF c
  <1>12. \A d \in {connector', disk'} : d.config.secret_hash \in history'.retired \ {NoSecret} =>
             d.config.secret_hash \in history'.restored
    BY <1>1, <1>3, <1>8, <1>10, <1>11
  <1>13. /\ {connector'.config.secret_hash, disk'.config.secret_hash} \subseteq IssuedSecrets'
         /\ webhook'.at \in {"nonce", "rate"} => webhook'.config.secret_hash \in IssuedSecrets'
         /\ history'.retired \subseteq IssuedSecrets'
    BY <1>1, <1>3, <1>5, <1>6, <1>8 DEF SecretInv
  <1> QED
    BY <1>9, <1>12, <1>13 DEF SecretInv

\* The owner is answered, and takes the secret that was replaced for retired.
LEMMA SecretAnswered ==
  ASSUME TypeInv, SecretInv, NEW o \in Owners, answer(o)
  PROVE  SecretInv'
  <1>1. /\ owner[o].at = "saved" /\ owner' = [owner EXCEPT ![o] = IdleOwner]
        /\ history' = [history EXCEPT !.retired = @ \cup owner[o].retires]
        /\ UNCHANGED <<connector, webhook, issued>> /\ disk' = connector
    BY DEF answer, persist
  <1>2. owner'[o].at = "idle" /\ \A p \in Owners : p # o => owner'[p] = owner[p]
    BY <1>1 DEF TypeInv, IdleOwner
  <1>3. /\ history'.retired = history.retired \cup owner[o].retires
        /\ history'.restored = history.restored
    BY <1>1 DEF TypeInv, Losses
  <1>4. IssuedSecrets' = IssuedSecrets
    BY <1>1 DEF IssuedSecrets
  <1>5. /\ connector.config.secret_hash \in IssuedSecrets /\ history'.retired \subseteq IssuedSecrets
        /\ webhook.at \in {"nonce", "rate"} => webhook.config.secret_hash \in IssuedSecrets
    BY <1>1, <1>3 DEF SecretInv
  <1>6. connector.config.secret_hash \in history'.retired \ {NoSecret}
          => connector.config.secret_hash \in history'.restored
    BY <1>1, <1>3 DEF SecretInv
  <1>7. ASSUME NEW p \in Owners
        PROVE  /\ owner'[p].at \in {"write", "saved"} => owner'[p].retires \subseteq IssuedSecrets'
               /\ owner'[p].at = "write" =>
                    /\ owner'[p].old.secret_hash \in IssuedSecrets'
                    /\ owner'[p].new.secret_hash \in IssuedSecrets'
                    /\ owner'[p].new.secret_hash \notin owner'[p].retires \ {NoSecret}
                    /\ \/ owner'[p].new.secret_hash \in Patchable(owner'[p])
                       \/ Unseen(p, owner[p].new.secret_hash)'
               /\ owner'[p].at = "saved"
                  /\ connector'.config.secret_hash \in owner'[p].retires \ {NoSecret}
                     => connector'.config.secret_hash \in history'.restored
    <2>1. CASE p = o
      BY <1>2, <2>1
    <2>2. CASE p # o
      <3>1. owner'[p] = owner[p]
        BY <1>2, <2>2
      <3>2. /\ owner[p].at \in {"write", "saved"} => owner[p].retires \subseteq IssuedSecrets
            /\ owner[p].at = "write" =>
                 /\ owner[p].old.secret_hash \in IssuedSecrets
                 /\ owner[p].new.secret_hash \in IssuedSecrets
                 /\ owner[p].new.secret_hash \notin owner[p].retires \ {NoSecret}
                 /\ \/ owner[p].new.secret_hash \in Patchable(owner[p])
                    \/ Unseen(p, owner[p].new.secret_hash)
            /\ owner[p].at = "saved"
               /\ connector.config.secret_hash \in owner[p].retires \ {NoSecret}
                  => connector.config.secret_hash \in history.restored
        BY DEF SecretInv
      <3> DEFINE n == owner[p].new.secret_hash
      <3>3. ASSUME owner[p].at = "write", Unseen(p, n)
            PROVE  Unseen(p, owner[p].new.secret_hash)'
        <4>1. owner'[p].new.secret_hash = n
          BY <3>1
        <4>2. n \notin history'.retired /\ n # connector.config.secret_hash
          BY <1>1, <1>3, <3>3 DEF Unseen
        <4>3. \A q \in Owners :
                /\ owner'[q].at \in {"write", "saved"} => n \notin owner'[q].retires
                /\ owner'[q].at = "write" =>
                      /\ n # owner'[q].old.secret_hash
                      /\ q # p => n # owner'[q].new.secret_hash
          BY <1>2, <3>3 DEF Unseen
        <4>4. webhook.at \in {"nonce", "rate"} => n # webhook.config.secret_hash
          BY <3>3 DEF Unseen
        <4> HIDE DEF n
        <4> QED
          BY <1>1, <4>1, <4>2, <4>3, <4>4 DEF Unseen
      <3> QED
        BY <1>1, <1>3, <1>4, <3>1, <3>2, <3>3
    <2> QED
      BY <2>1, <2>2
  <1> QED
    BY <1>1, <1>4, <1>5, <1>6, <1>7 DEF SecretInv

\* Every step keeps what makes a retired secret useless.
LEMMA SecretInvStep ==
  ASSUME TypeInv, SecretInv, [Next]_vars
  PROVE  SecretInv'
  <1>1. CASE Tick \/ UNCHANGED vars
    BY <1>1, SecretKept DEF Tick, vars
  <1>2. CASE restart
    <2>1. /\ connector' = disk /\ webhook' = IdleWebhook /\ owner' = [o \in Owners |-> IdleOwner]
          /\ UNCHANGED <<disk, issued, history>>
      BY <1>2 DEF restart
    <2>2. webhook'.at = "idle" /\ \A o \in Owners : owner'[o].at = "idle"
      BY <2>1 DEF IdleWebhook, IdleOwner
    <2>3. IssuedSecrets' = IssuedSecrets
      BY <2>1 DEF IssuedSecrets
    <2> QED
      BY <2>1, <2>2, <2>3 DEF SecretInv
  <1>3. ASSUME NEW m \in Messages, receive(m) PROVE SecretInv'
    <2>1. /\ webhook'.config = connector.config
          /\ UNCHANGED <<connector, disk, owner, issued, history>>
      BY <1>3 DEF receive
    <2> QED
      BY <2>1, SecretKept
  <1>4. ASSUME NEW m \in Messages, refuse(m) PROVE SecretInv'
    BY <1>4, SecretKept DEF refuse, persist
  <1>5. CASE _assert_hmac_v1_not_replayed
    <2>1. PICK cleaned \in _clean_hmac_nonce_history(webhook.config, webhook.seen),
               new \in Configs, lost \in Lost :
            /\ lost.restored = {} /\ new.secret_hash = webhook.config.secret_hash
            /\ Overwrite(webhook.config, new, lost)
            /\ \/ webhook' = IdleWebhook /\ disk' = connector'
               \/ webhook' = [at |-> "checked", message |-> webhook.message] /\ disk' = disk
      BY <1>5, NonceStep
    <2>2. webhook.at = "nonce" /\ UNCHANGED <<owner, issued>>
      BY <1>5 DEF _assert_hmac_v1_not_replayed
    <2>3. webhook.config \in Configs
      BY <2>2, WebhookPlace
    <2>5. /\ connector'.config = new /\ history'.retired = history.retired
          /\ history'.restored = history.restored \cup
               (IF webhook.config.secret_hash # connector.config.secret_hash
                THEN {new.secret_hash} ELSE {})
      BY <2>1, <2>3, OverwriteStep
    <2>6. webhook'.at \notin {"nonce", "rate"} /\ (disk' = disk \/ disk' = connector')
      BY <2>1 DEF IdleWebhook
    <2> QED
      BY <2>1, <2>2, <2>5, <2>6, SecretRestored
  <1>6. CASE read_rate
    <2>1. /\ webhook'.config = connector.config
          /\ UNCHANGED <<connector, disk, owner, issued, history>>
      BY <1>6 DEF read_rate
    <2> QED
      BY <2>1, SecretKept
  <1>7. CASE _enforce_connector_rate_limit
    <2>1. PICK new \in Configs :
            /\ new.secret_hash = webhook.config.secret_hash
            /\ Overwrite(webhook.config, new, NoLoss)
            /\ \/ webhook' = IdleWebhook /\ disk' = connector'
               \/ /\ webhook' = [at |-> "payload", message |-> webhook.message,
                                 seen |-> webhook.seen]
                  /\ disk' = disk
      BY <1>7, RateStep
    <2>2. webhook.at = "rate" /\ UNCHANGED <<owner, issued>>
      BY <1>7 DEF _enforce_connector_rate_limit
    <2>3. webhook.config \in Configs
      BY <2>2, WebhookPlace
    <2>4. /\ connector'.config = new /\ history'.retired = history.retired
          /\ history'.restored = history.restored \cup
               (IF webhook.config.secret_hash # connector.config.secret_hash
                THEN {new.secret_hash} ELSE {})
      BY <2>1, <2>3, LostType, OverwriteStep
    <2>5. webhook'.at \notin {"nonce", "rate"} /\ (disk' = disk \/ disk' = connector')
      BY <2>1 DEF IdleWebhook
    <2> QED
      BY <2>1, <2>2, <2>4, <2>5, SecretRestored
  <1>8. CASE handle_connector_webhook
    <2>1. /\ connector'.config = connector.config /\ webhook' = IdleWebhook
          /\ disk' = connector' /\ UNCHANGED <<owner, issued, history>>
      BY <1>8, HandleStep
    <2>2. webhook'.at = "idle"
      BY <2>1 DEF IdleWebhook
    <2> QED
      BY <2>1, <2>2, SecretKept
  <1>9. ASSUME NEW o \in Owners, disable_connector(o) \/ enable_connector(o) PROVE SecretInv'
    <2>1. /\ disk' = connector'
          /\ \/ connector' = [connector EXCEPT !.enabled = FALSE]
             \/ connector' = [connector EXCEPT !.enabled = TRUE]
          /\ UNCHANGED <<webhook, owner, issued, history>>
      BY <1>9 DEF disable_connector, enable_connector, persist
    <2>2. connector'.config = connector.config
      BY <2>1 DEF TypeInv, ConnectorOK, Connectors
    <2> QED
      BY <2>1, <2>2, SecretKept
  <1> QED
    BY <1>1, <1>2, <1>3, <1>4, <1>5, <1>6, <1>7, <1>8, <1>9, SecretRead, SecretWritten,
       SecretAnswered DEF Next

\* The first secret is the only one at first.
LEMMA SecretStart ==
  ASSUME Init
  PROVE  SecretInv
  <1>1. /\ connector.config.secret_hash = 1 /\ disk = connector /\ issued = 1
        /\ webhook.at = "idle" /\ history.retired = {}
        /\ \A o \in Owners : owner[o].at = "idle"
    BY DEF Init, create_connector, NewConfig, IdleWebhook, IdleOwner
  <1>2. 1 \in IssuedSecrets
    BY <1>1 DEF IssuedSecrets
  <1> QED
    BY <1>1, <1>2 DEF SecretInv

\* Once a rotation or a revocation is answered, the secret it replaced lets a
\* message in only if a writer that had not seen the new one brought it back, or
\* the owner sent it, for any number of overlapping requests of the owner.
THEOREM RetiredRefused == Spec => RetiredSecretRefused
  <1> DEFINE Refused ==
        (webhook.at = "idle" /\ webhook'.at = "nonce")
           => LET s == sent'[webhook'.message].secret
              IN  s \in history.retired => s \in history.restored
  <1>1. Init => SecretInv
    BY SecretStart
  <1>2. TypeInv /\ SecretInv /\ [Next]_vars => SecretInv'
    BY SecretInvStep
  <1>3. TypeInv /\ SecretInv /\ [Next]_vars => [Refused]_vars
    <2> SUFFICES ASSUME TypeInv, SecretInv, [Next]_vars, webhook.at = "idle", webhook'.at = "nonce",
                        sent'[webhook'.message].secret \in history.retired
                 PROVE  sent'[webhook'.message].secret \in history.restored
      OBVIOUS
    <2>1. PICK m \in Messages : receive(m)
      <3>1. ASSUME webhook' = webhook PROVE FALSE
        BY <3>1
      <3>2. ~(Tick \/ UNCHANGED vars) /\ \A m \in Messages : ~refuse(m)
        BY <3>1 DEF Tick, vars, refuse
      <3>3. ~(restart \/ handle_connector_webhook)
        BY DEF restart, handle_connector_webhook, IdleWebhook
      <3>4. ~(_assert_hmac_v1_not_replayed \/ read_rate \/ _enforce_connector_rate_limit)
        BY DEF _assert_hmac_v1_not_replayed, read_rate, _enforce_connector_rate_limit
      <3>5. ASSUME NEW o \in Owners
            PROVE  ~(\/ issue_connector_secret(o) \/ revoke_connector_secret(o)
                     \/ update_connector(o) \/ write_config(o) \/ answer(o)
                     \/ disable_connector(o) \/ enable_connector(o))
        BY <3>1 DEF issue_connector_secret, revoke_connector_secret, update_connector,
                    write_config, answer, disable_connector, enable_connector
      <3> QED
        BY <3>2, <3>3, <3>4, <3>5 DEF Next
    <2>2. PICK signed : _authenticate_connector(signed) /\ sent' = With(sent, m, signed)
      BY <2>1 DEF receive
    <2>3. webhook'.message = m
      BY <2>1 DEF receive
    <2>4. sent'[m] = signed
      BY <2>2 DEF With
    <2>5. signed.secret = connector.config.secret_hash /\ signed.secret # NoSecret
      BY <2>2 DEF _authenticate_connector, _authenticate_hmac_v1
    <2> QED
      BY <2>3, <2>4, <2>5 DEF SecretInv
  <1> QED
    BY <1>1, <1>2, <1>3, WebhookTypeInvariance, PTL DEF Spec, RetiredSecretRefused

-----------------------------------------------------------------------------
(* The rate limit.                                                         *)

\* The times are finitely many, and so are the parts of them.
LEMMA TimeParts ==
  /\ IsFiniteSet(Times)
  /\ \A s : From(s) \in SUBSET Times /\ ShortlyBefore(s) \in SUBSET Times
  /\ \A s, t : StretchBefore(s, t) \in SUBSET Times
  <1>1. IsFiniteSet(0 .. MaxTime)
    BY Numbers, FS_Interval
  <1> QED
    BY <1>1 DEF Times, From, ShortlyBefore, StretchBefore

\* RateOK looks at the counter and at what has passed.
LEMMA RateSame ==
  ASSUME NEW c, NEW d, NEW p, NEW highest, d.passed = c.passed,
         d.config.started = c.config.started, d.config.count = c.config.count,
         RateOK(c, p, highest)
  PROVE  RateOK(d, p, highest)
  BY DEF RateOK

\* A pending request less, a larger count, and a higher limit.
LEMMA RateLess ==
  ASSUME NEW c, NEW d, NEW p \in {0, 1}, NEW q \in {0, 1}, q <= p,
         NEW low \in Nat, NEW high \in Nat, low <= high,
         c.passed \in [Times -> Nat], c.config.count \in Nat, d.config.count \in Nat,
         d.passed = c.passed, d.config.started = c.config.started,
         d.config.count >= c.config.count, RateOK(c, p, low)
  PROVE  RateOK(d, q, high)
  <1> DEFINE s == c.config.started
             g == c.passed
  <1>1. \A T \in SUBSET Times : SumFunctionOnSet(g, T) \in Nat
    BY TimeParts, SumSteps
  <1>2. /\ \A u \in Times : g[u] > 0 => s # -1 /\ u < s + Window
        /\ SumFunctionOnSet(g, From(s)) + p <= c.config.count
        /\ SumFunctionOnSet(g, From(s)) + p <= low
        /\ SumFunctionOnSet(g, ShortlyBefore(s)) <= low
        /\ \A t \in Times : SumFunctionOnSet(g, StretchBefore(s, t)) <= 2 * low
    BY DEF RateOK
  <1>3. d.passed = g /\ d.config.started = s
    OBVIOUS
  <1> HIDE DEF s, g
  <1>4. /\ SumFunctionOnSet(g, From(s)) + q <= d.config.count
        /\ SumFunctionOnSet(g, From(s)) + q <= high
    BY <1>1, <1>2, TimeParts
  <1>5. SumFunctionOnSet(g, ShortlyBefore(s)) <= high
    BY <1>1, <1>2, TimeParts
  <1>6. \A t \in Times : SumFunctionOnSet(g, StretchBefore(s, t)) <= 2 * high
    BY <1>1, <1>2, TimeParts
  <1> QED
    BY <1>2, <1>3, <1>4, <1>5, <1>6 DEF RateOK

\* The pending request is carried out.
LEMMA RateHandled ==
  ASSUME NEW c, NEW d, NEW x \in Times, NEW highest \in Nat, c.passed \in [Times -> Nat], c.config.count \in Nat,
         c.config.started \in Times, c.config.started <= x, x < c.config.started + Window,
         RateOK(c, 1, highest), d.config = c.config,
         d.passed = [c.passed EXCEPT ![x] = @ + 1]
  PROVE  RateOK(d, 0, highest)
  <1> DEFINE s == c.config.started
             g == c.passed
             h == [g EXCEPT ![x] = @ + 1]
  <1>1. s \in Nat /\ x \in Nat /\ s # -1
    BY TimeNumbers
  <1>2. /\ \A u \in Times : g[u] > 0 => s # -1 /\ u < s + Window
        /\ SumFunctionOnSet(g, From(s)) + 1 <= c.config.count
        /\ SumFunctionOnSet(g, From(s)) + 1 <= highest
        /\ SumFunctionOnSet(g, ShortlyBefore(s)) <= highest
        /\ \A t \in Times : SumFunctionOnSet(g, StretchBefore(s, t)) <= 2 * highest
    BY DEF RateOK
  <1>3. ASSUME NEW T \in SUBSET Times
        PROVE  /\ SumFunctionOnSet(g, T) \in Nat
               /\ SumFunctionOnSet(h, T) = SumFunctionOnSet(g, T) + (IF x \in T THEN 1 ELSE 0)
    BY TimeParts, SumSteps, SumOneMore
  <1>4. \A u \in Times : h[u] > 0 => u < s + Window
    BY <1>1, <1>2
  <1> HIDE DEF g, h, s
  <1>5. /\ x \in From(s) /\ x \notin ShortlyBefore(s)
        /\ \A t : x \notin StretchBefore(s, t)
    BY <1>1 DEF From, ShortlyBefore, StretchBefore, s
  <1>6. /\ SumFunctionOnSet(h, From(s)) + 0 <= c.config.count
        /\ SumFunctionOnSet(h, From(s)) + 0 <= highest
    BY <1>2, <1>3, <1>5, TimeParts
  <1>7. SumFunctionOnSet(h, ShortlyBefore(s)) <= highest
    BY <1>2, <1>3, <1>5, TimeParts
  <1>8. \A t \in Times : SumFunctionOnSet(h, StretchBefore(s, t)) <= 2 * highest
    BY <1>2, <1>3, <1>5, TimeParts
  <1>9. d.passed = h /\ d.config = c.config
    BY DEF h, g
  <1> QED
    BY <1>1, <1>4, <1>6, <1>7, <1>8, <1>9 DEF RateOK, s

\* A stretch as long as a window meets at most two windows.
LEMMA StretchLimited ==
  ASSUME NEW c, c.passed \in [Times -> Nat], c.config.started \in Times \cup {-1},
         NEW highest \in Nat, RateOK(c, 0, highest), NEW t \in Times
  PROVE  LET stretch == {u \in Times : u >= t /\ u < t + Window}
         IN  /\ SumFunctionOnSet(c.passed, stretch) \in Nat
             /\ SumFunctionOnSet(c.passed, stretch) <= 2 * highest
  <1> DEFINE s == c.config.started
             g == c.passed
             stretch == {u \in Times : u >= t /\ u < t + Window}
             from == From(s)
             before == ShortlyBefore(s)
             far == StretchBefore(s, t)
  <1>1. /\ s \in Int /\ t \in Nat /\ Window \in Nat
        /\ \A u \in Times : u \in Nat
    BY TimeNumbers, Numbers
  <1>2. /\ SumFunctionOnSet(g, from) + 0 <= highest
        /\ SumFunctionOnSet(g, before) <= highest
        /\ SumFunctionOnSet(g, far) <= 2 * highest
    BY DEF RateOK
  <1>3. stretch \in SUBSET Times /\ from \in SUBSET Times /\ before \in SUBSET Times
        /\ far \in SUBSET Times
    BY TimeParts
  <1>4. stretch \subseteq far \/ stretch \subseteq before \cup from
    <2>1. CASE t + Window <= s
      <3>1. ASSUME NEW u \in stretch PROVE u \in far
        <4>1. u \in Times /\ u \in Nat /\ u >= t /\ u < t + Window
          BY <1>1, <3>1
        <4>2. u < s
          BY <1>1, <2>1, <4>1
        <4> QED
          BY <4>1, <4>2 DEF StretchBefore
      <3> QED
        BY <3>1
    <2>2. CASE ~(t + Window <= s)
      <3>1. ASSUME NEW u \in stretch PROVE u \in before \cup from
        <4>1. u \in Times /\ u \in Nat /\ u >= t
          BY <1>1, <3>1
        <4>2. u > s - Window
          BY <1>1, <2>2, <4>1
        <4> QED
          BY <1>1, <4>1, <4>2 DEF From, ShortlyBefore
      <3> QED
        BY <3>1
    <2> QED
      BY <2>1, <2>2
  <1> HIDE DEF stretch, from, before, far, g
  <1>5. IsFiniteSet(Times) /\ g \in [Times -> Nat]
    BY TimeParts DEF g
  <1>6. /\ SumFunctionOnSet(g, stretch) \in Nat /\ SumFunctionOnSet(g, from) \in Nat
        /\ SumFunctionOnSet(g, before) \in Nat /\ SumFunctionOnSet(g, far) \in Nat
    BY <1>3, <1>5, SumSteps
  <1>7. CASE stretch \subseteq far
    <2>1. SumFunctionOnSet(g, stretch) <= SumFunctionOnSet(g, far)
      BY <1>3, <1>5, <1>7, SumGrows
    <2> QED
      BY <1>1, <1>2, <1>6, <2>1 DEF stretch, g
  <1>8. CASE stretch \subseteq before \cup from
    <2>1. /\ before \cup from \in SUBSET Times
          /\ SumFunctionOnSet(g, stretch) <= SumFunctionOnSet(g, before \cup from)
      BY <1>3, <1>5, <1>8, SumGrows
    <2>2. SumFunctionOnSet(g, before \cup from)
            <= SumFunctionOnSet(g, before) + SumFunctionOnSet(g, from)
      BY <1>3, <1>5, SumTogether
    <2>3. SumFunctionOnSet(g, before \cup from) \in Nat
      BY <1>5, <2>1, SumSteps
    <2> QED
      BY <1>1, <1>2, <1>6, <2>1, <2>2, <2>3 DEF stretch, g
  <1> QED
    BY <1>4, <1>7, <1>8

\* A window that follows one that is over: nothing has passed in it yet, and
\* what passed less than a window ago was counted by the last one.
LEMMA RateNewWindow ==
  ASSUME NEW c, NEW d, NEW T \in Times, c.passed \in [Times -> Nat],
         c.config.started \in Times \cup {-1}, NEW highest \in Nat, highest > 0,
         RateOK(c, 0, highest), window_over(c.config, T), d.passed = c.passed, d.config.started = T, d.config.count = 1
  PROVE  RateOK(d, 1, highest)
  <1> DEFINE s == c.config.started
             g == c.passed
  <1>1. /\ s \in Int /\ s >= -1 /\ T \in Nat /\ Window \in Nat /\ Window > 0
        /\ \A u \in Times : u \in Nat
    BY TimeNumbers, Numbers
  <1>2. s = -1 \/ s + Window <= T
    BY DEF window_over
  <1>3. /\ \A u \in Times : g[u] > 0 => s # -1 /\ u < s + Window
        /\ SumFunctionOnSet(g, From(s)) + 0 <= highest
    BY DEF RateOK
  <1>4. \A u \in Times : g[u] \in Nat
    OBVIOUS
  <1>5. ASSUME NEW t \in Times
        PROVE  SumFunctionOnSet(g, StretchBefore(T, t)) <= 2 * highest
    <2> DEFINE stretch == {u \in Times : u >= t /\ u < t + Window}
    <2>1. StretchBefore(T, t) \subseteq stretch /\ stretch \in SUBSET Times
      BY DEF StretchBefore
    <2>2. SumFunctionOnSet(g, stretch) \in Nat /\ SumFunctionOnSet(g, stretch) <= 2 * highest
      BY StretchLimited
    <2> HIDE DEF stretch, g
    <2>3. IsFiniteSet(Times) /\ g \in [Times -> Nat]
      BY TimeParts DEF g
    <2>4. /\ SumFunctionOnSet(g, StretchBefore(T, t)) <= SumFunctionOnSet(g, stretch)
          /\ SumFunctionOnSet(g, StretchBefore(T, t)) \in Nat
      BY <2>1, <2>3, SumGrows, SumSteps
    <2> QED
      BY <1>1, <2>2, <2>4
  <1> HIDE DEF s, g
  <1>6. ASSUME NEW u \in Times, g[u] > 0
        PROVE  u < T /\ u < T + Window
    BY <1>1, <1>2, <1>3, <1>6
  <1>7. \A u \in From(T) : g[u] = 0
    <2>1. ASSUME NEW u \in From(T) PROVE g[u] = 0
      <3>1. u \in Times /\ u >= T /\ u \in Nat /\ g[u] \in Nat
        BY <1>1, <1>4, <2>1 DEF From
      <3>2. ~(g[u] > 0)
        BY <1>1, <1>6, <3>1
      <3> QED
        BY <3>1, <3>2
    <2> QED
      BY <2>1
  <1>8. IsFiniteSet(Times) /\ g \in [Times -> Nat]
    BY TimeParts DEF g
  <1>9. SumFunctionOnSet(g, From(T)) = 0
    BY <1>7, <1>8, TimeParts, SumOfZeros
  <1>10. ShortlyBefore(T) \subseteq From(s)
    <2>1. ASSUME NEW u \in ShortlyBefore(T) PROVE u \in From(s)
      <3>1. u \in Times /\ u \in Nat /\ u > T - Window
        BY <1>1, <2>1 DEF ShortlyBefore
      <3>2. u >= s
        BY <1>1, <1>2, <3>1
      <3> QED
        BY <3>1, <3>2 DEF From
    <2> QED
      BY <2>1
  <1>11. /\ SumFunctionOnSet(g, ShortlyBefore(T)) <= SumFunctionOnSet(g, From(s))
         /\ SumFunctionOnSet(g, ShortlyBefore(T)) \in Nat /\ SumFunctionOnSet(g, From(s)) \in Nat
    BY <1>8, <1>10, TimeParts, SumGrows, SumSteps
  <1>12. SumFunctionOnSet(g, ShortlyBefore(T)) <= highest
    BY <1>1, <1>3, <1>11
  <1>13. d.passed = g /\ T # -1 /\ 0 + 1 <= 1 /\ 0 + 1 <= highest
    BY <1>1 DEF g
  <1> QED
    BY <1>5, <1>6, <1>9, <1>12, <1>13 DEF RateOK

\* Another request of the same window is counted, below the limit.
LEMMA RateCounted ==
  ASSUME NEW c, NEW d, c.passed \in [Times -> Nat], c.config.count \in Nat,
         NEW highest \in Nat, c.config.count < highest, RateOK(c, 0, highest),
         d.passed = c.passed, d.config.started = c.config.started,
         d.config.count = c.config.count + 1
  PROVE  RateOK(d, 1, highest)
  <1>1. SumFunctionOnSet(c.passed, From(c.config.started)) \in Nat
    BY TimeParts, SumSteps
  <1>2. /\ SumFunctionOnSet(c.passed, From(c.config.started)) + 1 <= c.config.count + 1
        /\ SumFunctionOnSet(c.passed, From(c.config.started)) + 1 <= highest
    BY <1>1 DEF RateOK
  <1> QED
    BY <1>2 DEF RateOK

\* What RateInv speaks of, typed.
LEMMA RateTypes ==
  ASSUME TypeInv
  PROVE  /\ \A c \in {connector, disk} :
              /\ c.passed \in [Times -> Nat] /\ c.config.count \in Nat
              /\ c.config.started \in Times \cup {-1} /\ c.config.started \in Int
         /\ history.highest \in Nat /\ history.highest > 0 /\ now \in Nat
         /\ connector.limit \in Nat /\ connector.limit <= history.highest
         /\ history.miscounted \in BOOLEAN
  <1>1. ASSUME NEW c, ConnectorOK(c, now)
        PROVE  /\ c.passed \in [Times -> Nat] /\ c.config.count \in Nat
               /\ c.config.started \in Times \cup {-1} /\ c.config.started \in Int
    <2>1. /\ c.passed \in [Times -> Nat] /\ c.config.count \in 0 .. MaxLimit
          /\ c.config.started \in Times \cup {-1}
      BY <1>1 DEF ConnectorOK, Connectors, Configs
    <2> QED
      BY <2>1, TimeNumbers
  <1>2. history.highest \in 1 .. MaxLimit /\ connector.limit \in 1 .. MaxLimit
    BY DEF TypeInv, Losses, Limits, ConnectorOK, Connectors
  <1>3. history.miscounted \in BOOLEAN /\ now \in Nat
    BY TimeNumbers DEF TypeInv, Losses
  <1> QED
    BY <1>1, <1>2, <1>3, Numbers DEF TypeInv

\* A write that does not change the counter, or loses a count.
LEMMA RateWritten ==
  ASSUME TypeInv, RateInv, NEW old \in Configs, NEW new \in Configs, NEW lost \in Lost,
         Overwrite(old, new, lost), ~history'.miscounted,
         lost.miscounted \/ (new.started = old.started /\ new.count = old.count)
  PROVE  /\ ~history.miscounted /\ history'.highest = history.highest
         /\ connector'.config.started = connector.config.started
         /\ connector'.config.count = connector.config.count
         /\ connector'.passed = connector.passed
  <1>1. /\ connector'.config = new /\ connector'.passed = connector.passed
        /\ history'.highest = history.highest
        /\ history'.miscounted = (history.miscounted \/ lost.miscounted \/
              <<old.started, old.count>> # <<connector.config.started, connector.config.count>>)
    BY OverwriteStep
  <1>2. ~history.miscounted /\ ~lost.miscounted
    BY <1>1, RateTypes DEF Lost
  <1>3. old.started = connector.config.started /\ old.count = connector.config.count
    BY <1>1
  <1> QED
    BY <1>1, <1>2, <1>3

\* The connector saved is as good as the one in memory.
LEMMA RateSaved ==
  ASSUME TypeInv, RateInv, ~history.miscounted
  PROVE  RateOK(connector, 0, history.highest)
  <1>1. /\ connector.passed \in [Times -> Nat] /\ connector.config.count \in Nat
        /\ history.highest \in Nat
    BY RateTypes
  <1>2. RateOK(connector, Pending(webhook), history.highest)
    BY DEF RateInv
  <1>3. Pending(webhook) \in {0, 1} /\ 0 <= Pending(webhook)
    BY DEF Pending
  <1>4. history.highest <= history.highest /\ connector.config.count >= connector.config.count
    BY <1>1
  <1> QED
    BY <1>1, <1>2, <1>3, <1>4, RateLess

\* A step that leaves the counter, and what has passed, alone.
LEMMA RateKept ==
  ASSUME TypeInv, RateInv, connector'.passed = connector.passed,
         connector'.config.started = connector.config.started,
         connector'.config.count = connector.config.count,
         disk' = disk \/ disk' = connector', ~history'.miscounted => ~history.miscounted,
         history.highest <= history'.highest, history'.highest \in Nat,
         now' \in Nat, now <= now',
         webhook' = webhook
           \/ (webhook.at # "payload" /\ webhook'.at # "payload"
               /\ (webhook'.at = "rate" => /\ webhook'.config.started = connector.config.started
                                           /\ webhook'.seen = now)),
         \A o \in Owners : owner'[o] = owner[o] \/ CountKept(owner'[o])
  PROVE  RateInv'
  <1> DEFINE high == history'.highest
  <1> SUFFICES ASSUME ~history'.miscounted
               PROVE  /\ RateOK(connector', Pending(webhook'), high)
                      /\ RateOK(disk', 0, high)
                      /\ connector'.config.started <= now' /\ disk'.config.started <= now'
                      /\ WindowOK(webhook', connector')
                      /\ \A o \in Owners : CountKept(owner'[o])
    BY DEF RateInv, WindowOK, CountKept, Pending
  <1>1. /\ RateOK(connector, Pending(webhook), history.highest)
        /\ RateOK(disk, 0, history.highest)
        /\ connector.config.started <= now /\ disk.config.started <= now
        /\ WindowOK(webhook, connector)
        /\ \A o \in Owners : CountKept(owner[o])
    BY DEF RateInv
  <1>2. /\ history.highest \in Nat /\ now \in Nat
        /\ connector.passed \in [Times -> Nat] /\ connector.config.count \in Nat
        /\ disk.passed \in [Times -> Nat] /\ disk.config.count \in Nat
        /\ connector.config.started \in Int /\ disk.config.started \in Int
    BY RateTypes
  <1>3. /\ Pending(webhook) \in {0, 1} /\ Pending(webhook') \in {0, 1}
        /\ Pending(webhook') <= Pending(webhook) /\ 0 <= Pending(webhook)
    BY DEF Pending
  <1>4. /\ connector'.config.count >= connector.config.count
        /\ disk.config.count >= disk.config.count
    BY <1>2
  <1>5. RateOK(connector', Pending(webhook'), high) /\ RateOK(connector', 0, high)
    <2>1. connector'.config.count \in Nat /\ 0 \in {0, 1}
      BY <1>2
    <2> QED
      BY <1>1, <1>2, <1>3, <1>4, <2>1, RateLess
  <1>6. RateOK(disk, 0, high)
    <2>1. 0 \in {0, 1} /\ 0 <= 0
      OBVIOUS
    <2> QED
      BY <1>1, <1>2, <1>4, <2>1, RateLess
  <1>7. connector'.config.started <= now' /\ disk'.config.started <= now'
    <2>1. connector.config.started <= now' /\ disk.config.started <= now'
      BY <1>1, <1>2
    <2> QED
      BY <2>1
  <1>8. WindowOK(webhook', connector')
    BY <1>1 DEF WindowOK
  <1> QED
    BY <1>1, <1>5, <1>6, <1>7, <1>8

\* A request is counted in its window, in a new one, or refused.
LEMMA RateChecked ==
  ASSUME TypeInv, RateInv, _enforce_connector_rate_limit
  PROVE  RateInv'
  <1> DEFINE old == webhook.config
             T == webhook.seen
             high == history.highest
  <1>1. PICK new \in Configs :
          /\ Overwrite(old, new, NoLoss)
          /\ \/ /\ new.started = old.started /\ new.count >= old.count
                /\ webhook' = IdleWebhook /\ disk' = connector'
             \/ /\ webhook' = [at |-> "payload", message |-> webhook.message, seen |-> T]
                /\ disk' = disk
                /\ \/ window_over(old, T) /\ new.started = T /\ new.count = 1
                   \/ /\ ~window_over(old, T) /\ new.started = old.started
                      /\ old.count < connector.limit /\ new.count = old.count + 1
    BY RateStep
  <1>2. webhook.at = "rate" /\ UNCHANGED <<owner, now>>
    BY DEF _enforce_connector_rate_limit
  <1>3. old \in Configs /\ T \in Times /\ T <= now
    BY <1>2, WebhookPlace
  <1>4. /\ connector'.config = new /\ connector'.passed = connector.passed
        /\ history'.highest = high
        /\ history'.miscounted = (history.miscounted \/ NoLoss.miscounted \/
              <<old.started, old.count>> # <<connector.config.started, connector.config.count>>)
    BY <1>1, <1>3, LostType, OverwriteStep
  <1> SUFFICES ASSUME ~history'.miscounted
               PROVE  /\ RateOK(connector', Pending(webhook'), high)
                      /\ RateOK(disk', 0, high)
                      /\ connector'.config.started <= now /\ disk'.config.started <= now
                      /\ WindowOK(webhook', connector')
                      /\ \A o \in Owners : CountKept(owner'[o])
    BY <1>2, <1>4 DEF RateInv, WindowOK, CountKept, Pending
  <1>5. ~history.miscounted
    BY <1>4, LostType, RateTypes
  <1>6. old.started = connector.config.started /\ old.count = connector.config.count
    BY <1>4
  <1>7. /\ RateOK(connector, 0, high) /\ RateOK(disk, 0, high)
        /\ connector.config.started <= now /\ disk.config.started <= now
        /\ old.started <= T /\ \A o \in Owners : CountKept(owner'[o])
    BY <1>2, <1>5 DEF RateInv, Pending, WindowOK
  <1>8. /\ connector.passed \in [Times -> Nat] /\ connector.config.count \in Nat
        /\ connector.config.started \in Times \cup {-1} /\ connector.config.started \in Int
        /\ high \in Nat /\ high > 0 /\ connector.limit \in Nat /\ connector.limit <= high
        /\ now \in Nat
    BY RateTypes
  <1>10. /\ T \in Nat /\ Window \in Nat /\ Window > 0 /\ T # -1
    <2>1. T \in Nat
      BY <1>3, TimeNumbers
    <2> HIDE DEF T
    <2> QED
      BY <2>1, Numbers
  <1>14. new.count \in Nat
    <2>1. new.count \in 0 .. MaxLimit
      BY DEF Configs
    <2> QED
      BY <2>1, Numbers
  <1> HIDE DEF high
  <1>11. CASE /\ new.started = old.started /\ new.count >= old.count
              /\ webhook' = IdleWebhook /\ disk' = connector'
    <2>1. RateOK(connector', 0, high)
      <3>1. /\ 0 \in {0, 1} /\ 0 <= 0 /\ high <= high
            /\ connector'.config.count \in Nat /\ connector'.config.started = connector.config.started
            /\ connector'.config.count >= connector.config.count
        BY <1>4, <1>6, <1>8, <1>11, <1>14
      <3> QED
        BY <1>4, <1>7, <1>8, <3>1, RateLess
    <2>2. webhook'.at = "idle"
      BY <1>11 DEF IdleWebhook
    <2>3. WindowOK(webhook', connector') /\ Pending(webhook') = 0
      BY <2>2 DEF WindowOK, Pending
    <2>4. connector'.config.started <= now
      BY <1>4, <1>6, <1>7, <1>11
    <2> QED
      BY <1>7, <1>11, <2>1, <2>3, <2>4
  <1>12. CASE /\ webhook' = [at |-> "payload", message |-> webhook.message, seen |-> T]
              /\ disk' = disk /\ window_over(old, T) /\ new.started = T /\ new.count = 1
    <2>1. window_over(connector.config, T)
      BY <1>6, <1>12 DEF window_over
    <2> HIDE DEF T
    <2>2. RateOK(connector', 1, high)
      BY <1>3, <1>4, <1>7, <1>8, <1>12, <2>1, RateNewWindow
    <2>3. /\ webhook'.at = "payload" /\ webhook'.seen = T /\ connector'.config.started = T
      BY <1>4, <1>12
    <2>4. T >= T /\ T < T + Window
      BY <1>10
    <2>5. WindowOK(webhook', connector') /\ Pending(webhook') = 1
      BY <1>10, <2>3, <2>4 DEF WindowOK, Pending
    <2> QED
      BY <1>3, <1>7, <1>12, <2>2, <2>3, <2>5
  <1>13. CASE /\ webhook' = [at |-> "payload", message |-> webhook.message, seen |-> T]
              /\ disk' = disk /\ ~window_over(old, T) /\ new.started = old.started
              /\ old.count < connector.limit /\ new.count = old.count + 1
    <2>1. connector.config.count < high
      BY <1>6, <1>8, <1>13
    <2>2. RateOK(connector', 1, high)
      BY <1>4, <1>6, <1>7, <1>8, <1>13, <2>1, RateCounted
    <2>3. old.started # -1 /\ ~(old.started + Window <= T) /\ old.started <= T
      BY <1>7, <1>13 DEF window_over
    <2>4. old.started \in Int
      BY <1>6, <1>8
    <2>5. /\ webhook'.at = "payload" /\ webhook'.seen = T
          /\ connector'.config.started = old.started
      BY <1>4, <1>13
    <2> HIDE DEF T, old
    <2>6. T >= old.started /\ T < old.started + Window
      BY <1>10, <2>3, <2>4
    <2>7. WindowOK(webhook', connector') /\ Pending(webhook') = 1
      BY <2>3, <2>5, <2>6 DEF WindowOK, Pending
    <2>8. connector'.config.started <= now
      BY <1>6, <1>7, <2>5
    <2> QED
      BY <1>7, <1>13, <2>2, <2>7, <2>8
  <1> QED
    BY <1>1, <1>11, <1>12, <1>13

\* Every step keeps what bounds the requests that pass.
LEMMA RateInvStep ==
  ASSUME TypeInv, RateInv, [Next]_vars
  PROVE  RateInv'
  <1>0. /\ now \in Nat /\ now <= now /\ history.highest \in Nat
        /\ history.highest <= history.highest
    BY RateTypes
  <1>1. CASE Tick
    <2>1. now' = now + 1 /\ UNCHANGED <<connector, disk, webhook, owner, history>>
      BY <1>1 DEF Tick
    <2>2. now' \in Nat /\ now <= now'
      BY <1>0, <2>1
    <2> QED
      BY <1>0, <2>1, <2>2, RateKept
  <1>12. CASE UNCHANGED vars
    <2>1. UNCHANGED <<connector, disk, now, webhook, owner, history>>
      BY <1>12 DEF vars
    <2> QED
      BY <1>0, <2>1, RateKept
  <1>2. CASE restart
    <2>1. /\ connector' = disk /\ webhook' = IdleWebhook /\ owner' = [o \in Owners |-> IdleOwner]
          /\ UNCHANGED <<disk, now, history>>
      BY <1>2 DEF restart
    <2>2. webhook'.at = "idle" /\ \A o \in Owners : owner'[o].at = "idle"
      BY <2>1 DEF IdleWebhook, IdleOwner
    <2>3. /\ WindowOK(webhook', connector') /\ Pending(webhook') = 0
          /\ \A o \in Owners : CountKept(owner'[o])
      BY <2>2 DEF WindowOK, Pending, CountKept
    <2> SUFFICES ASSUME ~history.miscounted PROVE RateInv'
      BY <2>1 DEF RateInv
    <2>4. RateOK(disk, 0, history.highest) /\ disk.config.started <= now
      BY DEF RateInv
    <2>5. /\ RateOK(connector', Pending(webhook'), history'.highest)
          /\ RateOK(disk', 0, history'.highest)
          /\ connector'.config.started <= now' /\ disk'.config.started <= now'
      BY <2>1, <2>3, <2>4
    <2> QED
      BY <2>3, <2>5 DEF RateInv, WindowOK, Pending, CountKept
  <1>3. ASSUME NEW m \in Messages, receive(m) PROVE RateInv'
    <2>1. /\ webhook.at = "idle" /\ webhook'.at = "nonce"
          /\ UNCHANGED <<connector, disk, now, owner, history>>
      BY <1>3 DEF receive
    <2> QED
      BY <1>0, <2>1, RateKept
  <1>4. ASSUME NEW m \in Messages, refuse(m) PROVE RateInv'
    <2>1. disk' = connector' /\ UNCHANGED <<connector, now, webhook, owner, history>>
      BY <1>4 DEF refuse, persist
    <2> QED
      BY <1>0, <2>1, RateKept
  <1>5. CASE _assert_hmac_v1_not_replayed
    <2>1. PICK cleaned \in _clean_hmac_nonce_history(webhook.config, webhook.seen),
               new \in Configs, lost \in Lost :
            /\ new.started = webhook.config.started /\ new.count = webhook.config.count
            /\ Overwrite(webhook.config, new, lost)
            /\ \/ webhook' = IdleWebhook /\ disk' = connector'
               \/ webhook' = [at |-> "checked", message |-> webhook.message] /\ disk' = disk
      BY <1>5, NonceStep
    <2>2. webhook.at = "nonce" /\ UNCHANGED <<owner, now>>
      BY <1>5 DEF _assert_hmac_v1_not_replayed
    <2>3. webhook.config \in Configs
      BY <2>2, WebhookPlace
    <2>5. webhook'.at \in {"idle", "checked"} /\ (disk' = disk \/ disk' = connector')
      BY <2>1 DEF IdleWebhook
    <2> SUFFICES ASSUME ~history'.miscounted PROVE RateInv'
      BY DEF RateInv
    <2>6. /\ ~history.miscounted /\ history'.highest = history.highest
          /\ connector'.config.started = connector.config.started
          /\ connector'.config.count = connector.config.count
          /\ connector'.passed = connector.passed
      BY <2>1, <2>3, RateWritten
    <2> QED
      BY <1>0, <2>2, <2>5, <2>6, RateKept
  <1>6. CASE read_rate
    <2>1. /\ webhook.at = "checked" /\ webhook'.at = "rate"
          /\ webhook'.config = connector.config /\ webhook'.seen = now
          /\ UNCHANGED <<connector, disk, now, owner, history>>
      BY <1>6 DEF read_rate
    <2> QED
      BY <1>0, <2>1, RateKept
  <1>7. CASE handle_connector_webhook
    <2>1. /\ connector'.config = connector.config
          /\ connector'.passed = [connector.passed EXCEPT ![webhook.seen] = @ + 1]
          /\ webhook' = IdleWebhook /\ disk' = connector' /\ UNCHANGED <<now, owner, history>>
      BY <1>7, HandleStep
    <2>2. webhook.at = "payload" /\ webhook.seen \in Times
      BY <1>7, WebhookPlace DEF handle_connector_webhook
    <2>3. webhook'.at = "idle"
      BY <2>1 DEF IdleWebhook
    <2> SUFFICES ASSUME ~history.miscounted PROVE RateInv'
      BY <2>1 DEF RateInv
    <2>4. /\ RateOK(connector, 1, history.highest) /\ connector.config.started # -1
          /\ webhook.seen >= connector.config.started
          /\ webhook.seen < connector.config.started + Window
          /\ connector.config.started <= now /\ \A o \in Owners : CountKept(owner[o])
      BY <2>2 DEF RateInv, Pending, WindowOK
    <2>5. /\ connector.passed \in [Times -> Nat] /\ connector.config.count \in Nat
          /\ connector.config.started \in Times
      BY <2>4, RateTypes
    <2>6. connector.config.started <= webhook.seen
      BY <2>2, <2>4, <2>5, TimeNumbers
    <2>7. RateOK(connector', 0, history.highest)
      BY <1>0, <2>1, <2>2, <2>4, <2>5, <2>6, RateHandled
    <2>8. WindowOK(webhook', connector') /\ Pending(webhook') = 0
      BY <2>3 DEF WindowOK, Pending
    <2>9. /\ RateOK(connector', Pending(webhook'), history'.highest)
          /\ RateOK(disk', 0, history'.highest)
          /\ connector'.config.started <= now' /\ disk'.config.started <= now'
          /\ \A o \in Owners : CountKept(owner'[o])
      BY <2>1, <2>4, <2>7, <2>8
    <2> QED
      BY <2>8, <2>9 DEF RateInv, WindowOK, Pending, CountKept
  <1>8. ASSUME NEW o \in Owners,
               \/ issue_connector_secret(o) \/ revoke_connector_secret(o) \/ update_connector(o)
        PROVE  RateInv'
    <2>1. /\ CountKept(owner'[o])
          /\ \A p \in Owners : p # o => owner'[p] = owner[p]
          /\ connector'.config = connector.config /\ connector'.passed = connector.passed
          /\ history'.miscounted = history.miscounted /\ history.highest <= history'.highest
          /\ UNCHANGED <<disk, now, webhook>>
      BY <1>8, OwnerReads DEF CountKept
    <2>2. history'.highest \in Nat
      <3>1. TypeInv'
        BY TypeStep
      <3>2. history' \in Losses
        BY <3>1 DEF TypeInv
      <3> QED
        BY <3>2, Numbers DEF Losses
    <2> QED
      BY <1>0, <2>1, <2>2, RateKept
  <1>9. ASSUME NEW o \in Owners, write_config(o) PROVE RateInv'
    <2>1. /\ owner[o].at = "write" /\ Overwrite(owner[o].old, owner[o].new, owner[o].lost)
          /\ owner' = [owner EXCEPT ![o] = [at |-> "saved", retires |-> owner[o].retires]]
          /\ UNCHANGED <<disk, now, webhook>>
      BY <1>9 DEF write_config
    <2>2. owner[o].old \in Configs /\ owner[o].new \in Configs /\ owner[o].lost \in Lost
      BY <2>1, OwnerPlace
    <2>3. history'.miscounted = (history.miscounted \/ owner[o].lost.miscounted
             \/ <<owner[o].old.started, owner[o].old.count>>
                  # <<connector.config.started, connector.config.count>>)
      BY <2>1, <2>2, OverwriteStep
    <2> SUFFICES ASSUME ~history'.miscounted PROVE RateInv'
      BY DEF RateInv
    <2>4. ~history.miscounted
      BY <2>3, RateTypes
    <2>5. \/ owner[o].lost.miscounted
          \/ owner[o].new.started = owner[o].old.started /\ owner[o].new.count = owner[o].old.count
      BY <2>1, <2>4 DEF RateInv, CountKept
    <2>6. /\ history'.highest = history.highest
          /\ connector'.config.started = connector.config.started
          /\ connector'.config.count = connector.config.count
          /\ connector'.passed = connector.passed
      BY <2>1, <2>2, <2>5, RateWritten
    <2>7. owner'[o].at = "saved" /\ \A p \in Owners : p # o => owner'[p] = owner[p]
      BY <2>1 DEF TypeInv
    <2>8. \A p \in Owners : owner'[p] = owner[p] \/ CountKept(owner'[p])
      BY <2>7 DEF CountKept
    <2> QED
      BY <1>0, <2>1, <2>4, <2>6, <2>8, RateKept
  <1>10. ASSUME NEW o \in Owners, answer(o) PROVE RateInv'
    <2>1. /\ owner' = [owner EXCEPT ![o] = IdleOwner]
          /\ history' = [history EXCEPT !.retired = @ \cup owner[o].retires]
          /\ UNCHANGED <<connector, now, webhook>> /\ disk' = connector'
      BY <1>10 DEF answer, persist
    <2>2. history'.miscounted = history.miscounted /\ history'.highest = history.highest
      BY <2>1 DEF TypeInv, Losses
    <2>3. owner'[o].at = "idle" /\ \A p \in Owners : p # o => owner'[p] = owner[p]
      BY <2>1 DEF TypeInv, IdleOwner
    <2>4. \A p \in Owners : owner'[p] = owner[p] \/ CountKept(owner'[p])
      BY <2>3 DEF CountKept
    <2> QED
      BY <1>0, <2>1, <2>2, <2>4, RateKept
  <1>11. ASSUME NEW o \in Owners, disable_connector(o) \/ enable_connector(o) PROVE RateInv'
    <2>1. /\ disk' = connector'
          /\ \/ connector' = [connector EXCEPT !.enabled = FALSE]
             \/ connector' = [connector EXCEPT !.enabled = TRUE]
          /\ UNCHANGED <<now, webhook, owner, history>>
      BY <1>11 DEF disable_connector, enable_connector, persist
    <2>2. connector'.config = connector.config /\ connector'.passed = connector.passed
      BY <2>1 DEF TypeInv, ConnectorOK, Connectors
    <2> QED
      BY <1>0, <2>1, <2>2, RateKept
  <1> QED
    BY <1>1, <1>2, <1>3, <1>4, <1>5, <1>6, <1>7, <1>8, <1>9, <1>10, <1>11, <1>12, RateChecked
    DEF Next

\* Nothing has passed at first.
LEMMA RateStart ==
  ASSUME Init
  PROVE  RateInv
  <1>1. /\ connector.passed = [t \in Times |-> 0] /\ connector.config.started = -1
        /\ connector.config.count = 0 /\ disk = connector /\ webhook.at = "idle" /\ now = 0
        /\ history.highest = FirstLimit /\ \A o \in Owners : owner[o].at = "idle"
    BY DEF Init, create_connector, NewConfig, IdleWebhook, IdleOwner
  <1>2. connector.passed \in [Times -> Nat] /\ \A t \in Times : connector.passed[t] = 0
    BY <1>1
  <1>3. \A T \in SUBSET Times : SumFunctionOnSet(connector.passed, T) = 0
    BY <1>2, TimeParts, SumOfZeros
  <1>4. RateOK(connector, 0, FirstLimit)
    <2> DEFINE g == connector.passed
    <2>1. /\ SumFunctionOnSet(g, From(-1)) = 0 /\ SumFunctionOnSet(g, ShortlyBefore(-1)) = 0
          /\ \A t \in Times : SumFunctionOnSet(g, StretchBefore(-1, t)) = 0
      BY <1>3, TimeParts
    <2>2. ~(0 > 0) /\ 0 + 0 <= 0 /\ 0 + 0 <= FirstLimit /\ 0 <= FirstLimit /\ 0 <= 2 * FirstLimit
      <3>1. FirstLimit \in Nat
        BY Numbers
      <3> QED
        BY <3>1
    <2>3. \A t \in Times : ~(g[t] > 0)
      BY <1>2
    <2> HIDE DEF g
    <2>4. g = connector.passed
      BY DEF g
    <2> QED
      BY <1>1, <2>1, <2>2, <2>3, <2>4 DEF RateOK
  <1>5. /\ Pending(webhook) = 0 /\ WindowOK(webhook, connector)
        /\ \A o \in Owners : CountKept(owner[o])
    BY <1>1 DEF Pending, WindowOK, CountKept
  <1>6. -1 <= 0
    OBVIOUS
  <1> QED
    BY <1>1, <1>4, <1>5, <1>6 DEF RateInv

\* No stretch as long as a window lets more than twice the highest limit pass,
\* however the owner changes the limit, unless an overlapping write lost a count
\* or the owner sent one, for any window, any limits and any clock.
THEOREM RateLimited == Spec => []RateLimitHolds
  <1>1. Init => RateInv
    BY RateStart
  <1>2. TypeInv /\ RateInv /\ [Next]_vars => RateInv'
    BY RateInvStep
  <1>3. TypeInv /\ RateInv => RateLimitHolds
    <2> SUFFICES ASSUME TypeInv, RateInv, ~history.miscounted, NEW t \in Times
                 PROVE  Passed(t) <= 2 * history.highest
      BY DEF RateLimitHolds
    <2>1. /\ connector.passed \in [Times -> Nat]
          /\ connector.config.started \in Times \cup {-1} /\ history.highest \in Nat
      BY RateTypes
    <2>2. RateOK(connector, 0, history.highest)
      BY RateSaved
    <2> QED
      BY <2>1, <2>2, StretchLimited DEF Passed
  <1> QED
    BY <1>1, <1>2, <1>3, WebhookTypeInvariance, PTL DEF Spec
=============================================================================
