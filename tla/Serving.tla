------------------------------ MODULE Serving ------------------------------
(***************************************************************************)
(* The calls to the image upstream that a running server makes while its   *)
(* settings change: FluxAdapter (src/internal/generation/flux.go) or       *)
(* StubAdapter, wrapped in StoringAdapter                                  *)
(* (src/internal/generation/storing.go), as GenerationsHandler.Create      *)
(* obtains them from the snapshot of the moment.                           *)
(*                                                                         *)
(* A call lasts as long as the upstream takes, up to its deadline. Every   *)
(* HTTP exchange of it is a step of its own, between which requests of     *)
(* Settings replace the snapshot. The upstream is external: it may answer  *)
(* anything its protocol allows, in any number of polls.                   *)
(***************************************************************************)
EXTENDS Settings

CONSTANT Gens      \* generations, each making one call

VARIABLE call      \* [Gens -> the call of the generation]

servingVars == <<vars, call>>

\* client: the snapshot the adapters were built from.
\* by, to: the configuration that the image came from, and was stored with.
NoCall == [pc |-> "none", client |-> NULL, image |-> "none", by |-> NULL, to |-> NULL]

InProgress(g) == call[g].pc \in {"stub", "submit", "poll", "wait", "transfer"}

ServingInit == Init /\ call = [g \in Gens |-> NoCall]

-----------------------------------------------------------------------------
\* h.Adapters() is read once per request; the adapters stay what they were
\* built as when the snapshot is replaced.
Begin(g) ==
    /\ server = "up"
    /\ call[g].pc = "none"
    /\ call' = [call EXCEPT ![g].pc = IF FluxEnabled(snap) THEN "submit" ELSE "stub",
                            ![g].client = snap]

\* The stub's placeholder is not a URL to download: it is not transferred.
StubAnswers(g) ==
    /\ call[g].pc = "stub"
    /\ \/ call' = [call EXCEPT ![g].pc = "done", ![g].image = "placeholder"]
       \/ call' = [call EXCEPT ![g].pc = "failed"]

\* The upstream delivered an image at a temporary address.
Delivered(g) ==
    [call EXCEPT ![g].pc = "transfer", ![g].image = "temporary", ![g].by = call[g].client]

\* submit: ready at once, queued under an id, or no usable answer (transport,
\* status, JSON, an envelope without id and image, a row without a model).
Submit(g) ==
    /\ call[g].pc = "submit"
    /\ \/ call' = Delivered(g)
       \/ call' = [call EXCEPT ![g].pc = "poll"]
       \/ call' = [call EXCEPT ![g].pc = "failed"]

\* One round of getResult: ready with an image; an answer that will not
\* change (ready without one, a terminal failure, an HTTP or JSON error); or
\* pending, as which a status nobody knows is taken, too.
Poll(g) ==
    /\ call[g].pc = "poll"
    /\ \/ call' = Delivered(g)
       \/ call' = [call EXCEPT ![g].pc = "failed"]
       \/ call' = [call EXCEPT ![g].pc = "wait"]

PollAgain(g) ==
    /\ call[g].pc = "wait"
    /\ call' = [call EXCEPT ![g].pc = "poll"]

\* Bug: only the submission is given the deadline.
ExpireSubmission(g) ==
    /\ call[g].pc = "submit"
    /\ call' = [call EXCEPT ![g].pc = "failed"]

\* upstreamTimeout ends the exchange in progress, or the wait between two.
Expire(g) ==
    /\ call[g].pc \in {"stub", "submit", "poll", "wait"}
    /\ call' = [call EXCEPT ![g].pc = "failed"]

\* Bug: the storage of the moment instead of the adapter's own.
TransferToRunning(g) ==
    /\ call[g].pc = "transfer"
    /\ StorageEnabled(snap)
    /\ call' = [call EXCEPT ![g].pc = "done", ![g].image = "permanent", ![g].to = snap]

\* transfer: downloaded, an allowed image type within the limit, and Put.
Transfer(g) ==
    /\ call[g].pc = "transfer"
    /\ StorageEnabled(call[g].client)
    /\ call' = [call EXCEPT ![g].pc = "done", ![g].image = "permanent",
                            ![g].to = call[g].client]

\* Bug: an image that cannot be stored fails the generation.
TransferErrors(g) ==
    /\ call[g].pc = "transfer"
    /\ call' = [call EXCEPT ![g].pc = "failed"]

\* Whatever fails, transferTimeout and NoopStorage included, leaves the
\* temporary address.
TransferFails(g) ==
    /\ call[g].pc = "transfer"
    /\ call' = [call EXCEPT ![g].pc = "done"]

Advance(g) ==
    StubAnswers(g) \/ Submit(g) \/ Poll(g) \/ PollAgain(g) \/ Transfer(g) \/ TransferFails(g)

CrashServing ==
    /\ Crash
    /\ call' = [g \in Gens |-> IF InProgress(g) THEN [NoCall EXCEPT !.pc = "lost"] ELSE call[g]]

ServingNext ==
    \/ Step /\ UNCHANGED call
    \/ CrashServing
    \/ \E g \in Gens : (Begin(g) \/ Advance(g) \/ Expire(g)) /\ UNCHANGED vars

\* A goroutine whose exchange has ended goes on, and the timers of the two
\* deadlines go off. Nothing is assumed of the upstream: it may stay pending.
ServingFairness ==
    \A g \in Gens : WF_call(Advance(g)) /\ WF_call(Expire(g))

ServingSpec == ServingInit /\ [][ServingNext]_servingVars /\ ServingFairness

-----------------------------------------------------------------------------
\* An image the upstream has delivered is never given up: no failure to store
\* it, no settings change and no deadline turns the call into an error, which
\* would be refunded although the upstream was paid (storing.go:64-95).
DeliveredImageIsKept ==
    \A g \in Gens :
        /\ call[g].by # NULL => call[g].pc \in {"transfer", "done"}
        /\ call[g].pc = "done" => call[g].image # "none"

\* A settings change half-way through a call reaches no part of it: the image
\* is stored, if at all, in the complete storage configured beside the
\* upstream account it was paid from (runtime.go:99-124, generations.go:82).
OneConfigurationPerCall ==
    \A g \in Gens :
        call[g].image = "permanent" =>
            /\ call[g].to = call[g].by
            /\ FluxEnabled(call[g].by)
            /\ StorageEnabled(call[g].to)

\* Every call comes to an end, however long the upstream reports Pending,
\* because the deadline covers the polling (flux.go:204-260).
CallsEnd == \A g \in Gens : InProgress(g) ~> ~InProgress(g)
=============================================================================
