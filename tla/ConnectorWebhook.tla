-------------------------- MODULE ConnectorWebhook --------------------------
(***************************************************************************)
(* The signed webhook of one HMAC connector (backend/app/                  *)
(* connector_webhook.py) and the owner's routes that change the connector  *)
(* (connector_routes.py, connector_credentials.py).                        *)
(*                                                                         *)
(* The secret's hash, the nonces already used and the counter of the rate  *)
(* limit all live in connector.config, and every change of one of them is  *)
(* connector.config = {**connector.config, ...}: read the whole            *)
(* dictionary, write a whole new one.  A webhook runs on the event loop    *)
(* and awaits nothing once its body is there, so webhooks do not overlap;  *)
(* the owner's routes run in the thread pool, so they do, with each other  *)
(* and with a webhook.  Reading and writing are therefore separate steps.  *)
(*                                                                         *)
(* Messages reach the server late, twice or never.  A message is its own   *)
(* nonce.  The owner may send any key of config with a PATCH, the history  *)
(* of nonces and the counter of the rate limit among them.  A value that   *)
(* cannot be parsed counts as none.  Health, failed_auth_count and the     *)
(* audit events, which no decision of the handlers reads, are left out.    *)
(***************************************************************************)
EXTENDS Integers, FiniteSetsExt

CONSTANTS
    Messages,    \* the messages of the sender
    Appending,   \* those that append an event to a task; the others create one
    Owners,      \* threads with a request of the owner
    NoSecret,    \* config has no secret_hash
    Tolerance,   \* HMAC_TIMESTAMP_TOLERANCE_SECONDS
    Skews,       \* seconds the time signed by the sender may be ahead by
    NonceTTL,    \* HMAC_NONCE_TTL_SECONDS
    MaxTracked,  \* HMAC_MAX_TRACKED_NONCES
    Window,      \* CONNECTOR_RATE_LIMIT_WINDOW
    FirstLimit,  \* rate_limit_per_minute when the connector is created,
    MaxLimit,    \* and the largest one
    PatchedNonces,  \* values of hmac_nonce_history the owner may send,
    PatchedStarts,  \* of rate_limit_window_started_at,
    PatchedCounts,  \* and of rate_limit_request_count
    MaxEvents,   \* bound: requests of the owner and restarts of the server,
    MaxActivity, \* and these with the messages accepted
    MaxTime      \* bound: the clock

ASSUME WebhookAssumption ==
    /\ Appending \subseteq Messages
    /\ NoSecret \notin Nat
    /\ {Tolerance, MaxTracked, Window, MaxLimit} \subseteq Nat \ {0}
    /\ Skews \subseteq -Tolerance .. Tolerance
    /\ FirstLimit \in 1 .. MaxLimit
    /\ {MaxEvents, MaxActivity, MaxTime} \subseteq Nat
    /\ NonceTTL = 2 * Tolerance
    /\ \A h \in PatchedNonces :
          /\ h = [m \in DOMAIN h |-> h[m]] /\ IsFiniteSet(DOMAIN h)
          /\ DOMAIN h \subseteq Messages /\ \A m \in DOMAIN h : h[m] \in 0 .. MaxTime
    /\ PatchedStarts \subseteq (0 .. MaxTime) \cup {-1}
    /\ PatchedCounts \subseteq 0 .. MaxLimit

VARIABLES
    connector,  \* the AgentConnector in memory, with what it has done
    disk,       \* the same in the database
    now,        \* time.time()
    sent,       \* the messages whose signature was accepted, as signed
    webhook,    \* the webhook being handled
    owner,      \* where each thread of the owner is
    issued,     \* secrets given out
    events,     \* requests of the owner and restarts so far, for their bound
    history     \* what was overwritten, sent or retired, for the properties

vars == <<connector, disk, now, sent, webhook, owner, issued, events, history>>

Times == 0 .. MaxTime
Secrets == 1 .. MaxEvents + 1
(* A dictionary f with the value v for the key k.                          *)
With(f, k, v) == [x \in DOMAIN f \cup {k} |-> IF x = k THEN v ELSE f[x]]
(* nonces is hmac_nonce_history: the time at which each nonce was seen.    *)
NewConfig == [secret_hash |-> 1, nonces |-> << >>, started |-> -1, count |-> 0]

(* create_connector, and a first secret issued.  The tasks and events a    *)
(* message has led to, and the times at which the rate limit let one pass, *)
(* are kept with the connector because they are saved and lost with it.    *)
create_connector ==
    [enabled |-> TRUE, limit |-> FirstLimit, secret_ref |-> TRUE, config |-> NewConfig,
     effects |-> [m \in Messages |-> 0], passed |-> [t \in Times |-> 0]]

IdleWebhook == [at |-> "idle"]
IdleOwner == [at |-> "idle"]

Init ==
    /\ connector = create_connector
    /\ disk = create_connector
    /\ history = [forgotten |-> {}, restored |-> {}, miscounted |-> FALSE,
                  retired |-> {}, highest |-> FirstLimit]
    /\ now = 0
    /\ sent = << >>
    /\ webhook = IdleWebhook
    /\ owner = [o \in Owners |-> IdleOwner]
    /\ issued = 1
    /\ events = 0

-----------------------------------------------------------------------------
(* The configuration and the database                                      *)

persist == disk' = connector'

NoLoss == [forgotten |-> {}, restored |-> {}, miscounted |-> FALSE]

(* A write of new, made from what its writer had read as old: what it      *)
(* loses by itself, and what is lost because the configuration is no       *)
(* longer the one that was read: nonces, a newer secret, the counter.      *)
Overwrite(old, new, lost) ==
    /\ connector' = [connector EXCEPT !.config = new]
    /\ LET current == connector.config
       IN  history' = [history EXCEPT
             !.forgotten = @ \cup lost.forgotten \cup
                 {m \in DOMAIN current.nonces :
                    m \notin DOMAIN old.nonces \/ old.nonces[m] # current.nonces[m]},
             !.restored = @ \cup lost.restored \cup
                 (IF old.secret_hash # current.secret_hash THEN {new.secret_hash} ELSE {}),
             !.miscounted = @ \/ lost.miscounted
                              \/ <<old.started, old.count>>
                                   # <<current.started, current.count>>]

-----------------------------------------------------------------------------
(* The sender                                                              *)

(* The signed messages that may arrive: one that has been accepted before, *)
(* again, or one for the first time, signed with any secret ever issued by *)
(* a clock that may be ahead of the server's, or signed a while ago; one   *)
(* signed too early or too late for Tolerance is not accepted now.         *)
Signed(m) ==
    IF m \in DOMAIN sent THEN {sent[m]}
    ELSE [timestamp : {now + skew : skew \in Skews}, secret : 1 .. issued]

(* The bound on what senders and owner do, taken together.                 *)
Spare == events + Cardinality(DOMAIN sent) < MaxActivity

Tick ==
    /\ now < MaxTime
    /\ now' = now + 1
    /\ UNCHANGED <<connector, disk, sent, webhook, owner, issued, events, history>>

-----------------------------------------------------------------------------
(* The webhook                                                             *)

_authenticate_hmac_v1(signed) ==
    /\ signed.timestamp - now \in -Tolerance .. Tolerance
    /\ signed.secret = connector.config.secret_hash

(* The checks of _authenticate_connector before the nonce is looked up.    *)
_authenticate_connector(signed) ==
    /\ connector.enabled
    /\ connector.secret_ref /\ connector.config.secret_hash # NoSecret
    /\ _authenticate_hmac_v1(signed)

receive(m) ==
    /\ webhook.at = "idle" /\ (m \in DOMAIN sent \/ Spare)
    /\ \E signed \in Signed(m) :
          /\ _authenticate_connector(signed)
          /\ sent' = With(sent, m, signed)
    /\ webhook' = [at |-> "nonce", message |-> m, config |-> connector.config, seen |-> now]
    /\ UNCHANGED <<connector, disk, now, owner, issued, events, history>>

(* A refusal saves the store too (record_connector_auth_failure, persist). *)
refuse(m) ==
    /\ webhook.at = "idle"
    /\ \E signed \in Signed(m) : ~ _authenticate_connector(signed)
    /\ UNCHANGED <<connector, now, sent, webhook, owner, issued, events, history>>
    /\ persist

(* What _clean_hmac_nonce_history keeps: the nonces of the last NonceTTL   *)
(* seconds, and of these the MaxTracked seen last.  Which of those seen in *)
(* the same second stay depends on the order of the dictionary, and is     *)
(* left open.                                                              *)
KeptBelowTTL(config, time) ==
    {m \in DOMAIN config.nonces : time - config.nonces[m] < NonceTTL}
Kept(config, time) ==
    {m \in DOMAIN config.nonces : time - config.nonces[m] <= NonceTTL}
_clean_hmac_nonce_history(config, time) ==
    LET kept == Kept(config, time)
        seenLast == {T \in kSubset(MaxTracked, kept) :
                       \A m \in T, n \in kept \ T : config.nonces[n] <= config.nonces[m]}
    IN  {Restrict(config.nonces, T) :
            T \in IF Cardinality(kept) > MaxTracked THEN seenLast ELSE {kept}}

(* The nonce is recorded before the rate limit and the payload are looked  *)
(* at; a replay writes the cleaned history back and is refused.            *)
_assert_hmac_v1_not_replayed ==
    /\ webhook.at = "nonce"
    /\ \E cleaned \in _clean_hmac_nonce_history(webhook.config, webhook.seen) :
          LET replayed == webhook.message \in DOMAIN cleaned
              nonces == IF replayed THEN cleaned
                        ELSE With(cleaned, webhook.message, webhook.seen)
          IN  /\ Overwrite(webhook.config, [webhook.config EXCEPT !.nonces = nonces],
                           [NoLoss EXCEPT !.forgotten =
                              Kept(webhook.config, webhook.seen) \ DOMAIN cleaned])
              /\ IF replayed
                 THEN webhook' = IdleWebhook /\ persist
                 ELSE webhook' = [at |-> "checked", message |-> webhook.message]
                      /\ UNCHANGED disk
    /\ UNCHANGED <<now, sent, owner, issued, events>>

read_rate ==
    /\ webhook.at = "checked"
    /\ webhook' = [at |-> "rate", message |-> webhook.message,
                   config |-> connector.config, seen |-> now]
    /\ UNCHANGED <<connector, disk, now, sent, owner, issued, events, history>>

(* A new window starts with the first request after the last one is over.  *)
WindowAlwaysOver(config, time) == config.started <= time
window_over(config, time) == config.started = -1 \/ config.started + Window <= time
NewWindowEnd(config, time) == [config EXCEPT !.started = time + Window, !.count = 1]
NewWindow(config, time) == [config EXCEPT !.started = time, !.count = 1]

_enforce_connector_rate_limit ==
    /\ webhook.at = "rate"
    /\ LET over == window_over(webhook.config, webhook.seen)
           limited == ~ over /\ webhook.config.count >= connector.limit
           \* above the largest limit, one count is as good as another
           counted == IF webhook.config.count < MaxLimit
                      THEN webhook.config.count + 1 ELSE MaxLimit
       IN  /\ Overwrite(webhook.config,
                        IF over THEN NewWindow(webhook.config, webhook.seen)
                        ELSE [webhook.config EXCEPT !.count = counted], NoLoss)
           /\ IF limited
              THEN webhook' = IdleWebhook /\ persist
              ELSE webhook' = [at |-> "payload", message |-> webhook.message, seen |-> webhook.seen]
                   /\ UNCHANGED disk
    /\ UNCHANGED <<now, sent, owner, issued, events>>

_create_task_from_connector(m) == m \notin Appending
_append_task_event_from_connector(m) ==
    m \in Appending /\ \E c \in Messages \ Appending : connector.effects[c] > 0

(* The payload is carried out or refused (it is invalid, out of the        *)
(* connector's scope, names no task); either way the store is saved.       *)
Effect(m) == _create_task_from_connector(m) \/ _append_task_event_from_connector(m)
handle_connector_webhook ==
    /\ webhook.at = "payload"
    /\ LET m == webhook.message
           passed == [connector EXCEPT !.passed[webhook.seen] = @ + 1]
       IN  \/ /\ Effect(m)
              /\ connector' = [passed EXCEPT !.effects[m] = IF @ < 2 THEN @ + 1 ELSE @]
           \/ connector' = passed
    /\ webhook' = IdleWebhook
    /\ persist
    /\ UNCHANGED <<now, sent, owner, issued, events, history>>

-----------------------------------------------------------------------------
(* The owner                                                               *)

(* A request of the owner reaches a thread.                                *)
Request(o) ==
    /\ owner[o].at = "idle" /\ events < MaxEvents /\ Spare
    /\ events' = events + 1

issue_connector_secret(o) ==
    /\ Request(o)
    /\ issued' = issued + 1
    /\ connector' = [connector EXCEPT !.secret_ref = TRUE]
    /\ owner' = [owner EXCEPT ![o] =
                    [at |-> "write", old |-> connector.config,
                     new |-> [connector.config EXCEPT !.secret_hash = issued + 1],
                     lost |-> NoLoss, retires |-> {connector.config.secret_hash}]]
    /\ UNCHANGED <<disk, now, sent, webhook, history>>

revoke_connector_secret(o) ==
    /\ Request(o)
    /\ connector' = [connector EXCEPT !.secret_ref = FALSE]
    /\ owner' = [owner EXCEPT ![o] =
                    [at |-> "write", old |-> connector.config,
                     new |-> [connector.config EXCEPT !.secret_hash = NoSecret],
                     lost |-> NoLoss, retires |-> {connector.config.secret_hash}]]
    /\ UNCHANGED <<disk, now, sent, webhook, issued, history>>

(* {**connector.config, **value}: any key may be sent, with a value that   *)
(* GET once showed or another one.  The hash of a secret that was retired  *)
(* may come back this way, or none; a key of the owner's own making would  *)
(* be one more secret, and is left out.                                    *)
Merged(config) ==
    [secret_hash : {config.secret_hash, NoSecret} \cup history.retired,
     nonces : {config.nonces} \cup PatchedNonces,
     started : {config.started} \cup PatchedStarts,
     count : {config.count} \cup PatchedCounts]

(* What is lost when the owner replaces old by new.                        *)
Patched(old, new) ==
    [forgotten |-> {m \in DOMAIN old.nonces \cup DOMAIN new.nonces :
                      \/ m \notin DOMAIN old.nonces \/ m \notin DOMAIN new.nonces
                      \/ old.nonces[m] # new.nonces[m]},
     restored |-> IF old.secret_hash # new.secret_hash THEN {new.secret_hash} ELSE {},
     miscounted |-> <<old.started, old.count>> # <<new.started, new.count>>]

(* The limit and the status are set at once; config is read, merged and    *)
(* written if the owner sent it.  set_connector_schema_mapper merges a key *)
(* the webhook does not read.                                              *)
update_connector(o) ==
    /\ Request(o)
    /\ \E limit \in 1 .. MaxLimit, enabled \in BOOLEAN :
          /\ connector' = [connector EXCEPT !.limit = limit, !.enabled = enabled]
          /\ history' = [history EXCEPT !.highest = IF limit > @ THEN limit ELSE @]
    /\ \/ owner' = [owner EXCEPT ![o] = [at |-> "saved", retires |-> {}]]
       \/ \E new \in Merged(connector.config) :
             owner' = [owner EXCEPT ![o] =
                          [at |-> "write", old |-> connector.config, new |-> new,
                           lost |-> Patched(connector.config, new), retires |-> {}]]
    /\ UNCHANGED <<disk, now, sent, webhook, issued>>

write_config(o) ==
    /\ owner[o].at = "write"
    /\ Overwrite(owner[o].old, owner[o].new, owner[o].lost)
    /\ owner' = [owner EXCEPT ![o] = [at |-> "saved", retires |-> owner[o].retires]]
    /\ UNCHANGED <<disk, now, sent, webhook, issued, events>>

(* The route saves the store and answers: from here on the owner takes the *)
(* secret that was replaced for retired.                                   *)
AnswerUnsaved(o) ==
    /\ owner[o].at = "saved"
    /\ owner' = [owner EXCEPT ![o] = IdleOwner]
    /\ history' = [history EXCEPT !.retired = @ \cup owner[o].retires]
    /\ UNCHANGED <<connector, disk, now, sent, webhook, issued, events>>
answer(o) ==
    /\ owner[o].at = "saved"
    /\ owner' = [owner EXCEPT ![o] = IdleOwner]
    /\ history' = [history EXCEPT !.retired = @ \cup owner[o].retires]
    /\ UNCHANGED <<connector, now, sent, webhook, issued, events>>
    /\ persist

disable_connector(o) ==
    /\ Request(o)
    /\ connector' = [connector EXCEPT !.enabled = FALSE]
    /\ UNCHANGED <<now, sent, webhook, owner, issued, history>>
    /\ persist

enable_connector(o) ==
    /\ Request(o)
    /\ connector' = [connector EXCEPT !.enabled = TRUE]
    /\ UNCHANGED <<now, sent, webhook, owner, issued, history>>
    /\ persist

-----------------------------------------------------------------------------
(* The server stops and is started again on what the database holds.       *)
restart ==
    /\ events < MaxEvents /\ Spare
    /\ events' = events + 1
    /\ connector' = disk
    /\ webhook' = IdleWebhook
    /\ owner' = [o \in Owners |-> IdleOwner]
    /\ UNCHANGED <<disk, now, sent, issued, history>>

Next ==
    \/ Tick
    \/ restart
    \/ \E m \in Messages : receive(m) \/ refuse(m)
    \/ _assert_hmac_v1_not_replayed
    \/ read_rate
    \/ _enforce_connector_rate_limit
    \/ handle_connector_webhook
    \/ \E o \in Owners :
          \/ issue_connector_secret(o)
          \/ revoke_connector_secret(o)
          \/ update_connector(o)
          \/ write_config(o)
          \/ answer(o)
          \/ disable_connector(o)
          \/ enable_connector(o)

Spec == Init /\ [][Next]_vars

-----------------------------------------------------------------------------
(* Properties                                                              *)

(* Types; whatever overlaps, the history of nonces holds more than the     *)
(* limit and the one just added only as long as it is one the owner sent   *)
(* (_clean_hmac_nonce_history truncates before a nonce is added), and the  *)
(* window of the rate limit does not start in the future unless so sent.   *)
TypeOK ==
    /\ \A c \in {connector, disk} :
          /\ c.enabled \in BOOLEAN /\ c.secret_ref \in BOOLEAN
          /\ c.limit \in 1 .. history.highest
          /\ c.config.secret_hash \in Secrets \cup {NoSecret}
          /\ DOMAIN c.config.nonces \subseteq Messages
          /\ \/ Cardinality(DOMAIN c.config.nonces) <= MaxTracked + 1
             \/ c.config.nonces \in PatchedNonces
          /\ \A m \in DOMAIN c.config.nonces : c.config.nonces[m] \in Times
          /\ c.config.started \in -1 .. now \cup PatchedStarts
          /\ c.config.count \in 0 .. MaxLimit
          /\ c.effects \in [Messages -> 0 .. 2]
    /\ now \in Times
    /\ \A m \in DOMAIN sent : sent[m].timestamp \in Int /\ sent[m].secret \in Secrets
    /\ webhook.at \in {"idle", "nonce", "checked", "rate", "payload"}
    /\ \A o \in Owners : owner[o].at \in {"idle", "write", "saved"}
    /\ issued \in Secrets

(* A message delivered twice takes effect twice only if its nonce was      *)
(* dropped from the history before its time: truncated away by newer ones, *)
(* overwritten by a request that had read the configuration before the     *)
(* nonce was in it, or contradicted by a history the owner sent.  Neither  *)
(* the end of NonceTTL, nor a rotation, nor a restart between any two      *)
(* steps makes a replay possible (_assert_hmac_v1_not_replayed; README.md: *)
(* no HMAC callback replay within the nonce window).                       *)
EffectOnce ==
    \A m \in Messages : connector.effects[m] > 1 => m \in history.forgotten

(* "No HMAC callback replay within the nonce window" (README.md): no       *)
(* message takes effect twice (_clean_hmac_nonce_history forgets nonces of *)
(* the window beyond HMAC_MAX_TRACKED_NONCES).                             *)
NoReplay == \A m \in Messages : connector.effects[m] <= 1

(* Once a rotation or a revocation has been answered, a message signed     *)
(* with an older secret is let in only if a request that had not seen the  *)
(* new secret wrote its own configuration over it, or the owner sent the   *)
(* older hash.                                                             *)
RetiredSecretRefused ==
    [][(webhook.at = "idle" /\ webhook'.at = "nonce")
         => LET s == sent'[webhook'.message].secret
            IN  s \in history.retired => s \in history.restored]_vars

(* However the windows fall and the limit is changed, no stretch as long   *)
(* as a window lets more pass than twice the highest limit there was,      *)
(* unless an overlapping write lost a count or the owner sent one          *)
(* (_enforce_connector_rate_limit).                                        *)
Passed(t) ==
    SumFunctionOnSet(connector.passed, {u \in Times : u >= t /\ u < t + Window})
RateLimitHolds ==
    history.miscounted \/ \A t \in Times : Passed(t) <= 2 * history.highest
=============================================================================
