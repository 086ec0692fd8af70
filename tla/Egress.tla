------------------------------- MODULE Egress -------------------------------
(***************************************************************************)
(* egress.go: the dispatcher that hands a summary to the local JSON target  *)
(* and then to the webhook, with the webhook's retries and its receiver.    *)
(*                                                                         *)
(* A dispatch runs under a context that its caller's cancellation or a time *)
(* limit ends.  The receiver is external: a request that was sent may reach *)
(* it at any later time, also when the client has given up on the answer,  *)
(* or never; it processes an idempotency key once.                         *)
(***************************************************************************)
EXTENDS Integers, Sequences

CONSTANTS
    WithWebhook,  \* --webhook-url is set
    maxRetries    \* of the webhook

ASSUME EgressAssumption == WithWebhook \in BOOLEAN /\ maxRetries \in Nat

VARIABLES
    dispatch,   \* what Dispatch is about to do; "none" when it is not running
    summary,    \* the summary being dispatched, by the number of its window
    attempt,    \* of the webhook
    key,        \* its idempotency key
    ctxDone,    \* the dispatch's context is done
    lastKey,    \* the key generated last: keys are random, hence all different
    sent,       \* the requests that were sent; nothing takes one back
    seen,       \* receiver: keys of the requests it has accepted
    processed   \* receiver: windows it has processed, in order

pushVars == <<dispatch, summary, attempt, key, ctxDone, lastKey, sent>>
receiverVars == <<seen, processed>>
egressVars == <<pushVars, receiverVars>>

EgressTypeOK ==
    /\ dispatch \in {"none", "local", "webhook", "post", "backoff"}
    /\ summary \in Nat /\ attempt \in 0..maxRetries
    /\ key \in Nat /\ lastKey \in Nat /\ key <= lastKey
    /\ ctxDone \in BOOLEAN
    /\ sent \subseteq [key : 1..lastKey, window : Nat]
    /\ seen \subseteq 1..lastKey
    /\ processed \in Seq(Nat)

EgressInit ==
    /\ dispatch = "none" /\ summary = 0 /\ attempt = 0 /\ key = 0
    /\ ctxDone = FALSE
    /\ lastKey = 0 /\ sent = {} /\ seen = {} /\ processed = <<>>

\* Dispatch(ctx, summary of window w); the context may be done already.
StartDispatch(w, done) ==
    /\ dispatch = "none"
    /\ dispatch' = "local"
    /\ summary' = w
    /\ ctxDone' = done
    /\ UNCHANGED <<attempt, key, lastKey, sent, receiverVars>>

\* The time limit of the dispatch, or its caller's cancellation.  The limit is
\* 30 s, too long for it to end before the local target is tried.
EndContext == ctxDone' = TRUE
Timeout ==
    /\ dispatch \notin {"none", "local"} /\ ~ctxDone
    /\ EndContext
    /\ UNCHANGED <<dispatch, summary, attempt, key, lastKey, sent, receiverVars>>

EndDispatch == dispatch' = "none"

\* ctx.Err() before a target: the targets that are left get nothing.
BreakOff ==
    /\ dispatch \in {"local", "webhook"}
    /\ ctxDone
    /\ EndDispatch
    /\ UNCHANGED <<summary, attempt, key, ctxDone, lastKey, sent, receiverVars>>

\* LocalJSONTarget.Push, which does not look at the context; whether it writes
\* the file or fails, the next target is tried.
PushLocal ==
    /\ dispatch = "local"
    /\ ~ctxDone
    /\ dispatch' = IF WithWebhook THEN "webhook" ELSE "none"
    /\ UNCHANGED <<summary, attempt, key, ctxDone, lastKey, sent, receiverVars>>

\* client.Do: the request is on its way, and stays so whatever becomes of Do.
Send(k) == sent' = sent \cup {[key |-> k, window |-> summary]}

\* WebhookTarget.Push draws one key for all its attempts.
PushWebhook ==
    /\ dispatch = "webhook"
    /\ ~ctxDone
    /\ lastKey' = lastKey + 1
    /\ key' = lastKey'
    /\ attempt' = 0
    /\ dispatch' = "post"
    /\ Send(key')
    /\ UNCHANGED <<summary, ctxDone, receiverVars>>

\* The receiver gets a request at any time after it was sent, be it answered,
\* retried or given up by then, and processes it unless it knows its key.
Receive ==
    /\ \E r \in sent :
         /\ r.key \notin seen
         /\ seen' = seen \cup {r.key}
         /\ processed' = Append(processed, r.window)
    /\ UNCHANGED pushVars

\* Mutant of SameKey: a key for each attempt.
KeyPerAttempt == lastKey' = lastKey + 1 /\ key' = lastKey'

SameKey == UNCHANGED <<key, lastKey>>

\* Mutant of Retry: one attempt too many.
RetryOnceMore ==
    /\ dispatch' = IF attempt <= maxRetries THEN "backoff" ELSE "none"
    /\ attempt' = IF attempt <= maxRetries THEN attempt + 1 ELSE attempt

\* After a server error or a failed exchange: once more, after the backoff.
Retry ==
    /\ dispatch' = IF attempt < maxRetries THEN "backoff" ELSE "none"
    /\ attempt' = IF attempt < maxRetries THEN attempt + 1 ELSE attempt

\* An answer, 2xx or 4xx, that ends the push.
PostAnswered ==
    /\ dispatch = "post"
    /\ EndDispatch
    /\ UNCHANGED <<summary, attempt, key, ctxDone, lastKey, sent, receiverVars>>

\* A 5xx answer, or none in time: the receiver may have the request or get it
\* yet.  Without an answer and with its context done, the push ends.
PostFails ==
    /\ dispatch = "post"
    /\ Retry \/ (ctxDone /\ EndDispatch /\ UNCHANGED attempt)
    /\ SameKey
    /\ UNCHANGED <<summary, ctxDone, sent, receiverVars>>

BackoffOver ==
    /\ dispatch = "backoff"
    /\ dispatch' = "post"
    /\ Send(key)
    /\ UNCHANGED <<summary, attempt, key, ctxDone, lastKey, receiverVars>>
BackoffCancelled ==
    /\ dispatch = "backoff"
    /\ ctxDone
    /\ EndDispatch
    /\ UNCHANGED <<summary, attempt, key, ctxDone, lastKey, sent, receiverVars>>

DispatchStep ==
    \/ BreakOff \/ PushLocal \/ PushWebhook
    \/ PostAnswered \/ PostFails \/ BackoffOver \/ BackoffCancelled
=============================================================================
