----------------------------- MODULE Transport -----------------------------
(***************************************************************************)
(* What becomes of a message on its way from PublishingEngine.Publish,     *)
(* through the middlewares, MessagePublisher.Publish, the marshaller of    *)
(* the publisher and the broker, to the handler of a subscriber: its       *)
(* metadata, its payload, its ID and its context, with the conversions of  *)
(* the AMQP, Redis and Google modules.                                     *)
(*                                                                         *)
(* A caller may publish the same message again, after an error or not; an  *)
(* error does not tell whether the broker has the message.                 *)
(*                                                                         *)
(* A metadata key is a sequence of parts, the first of which may be the    *)
(* prefix "p".  A value is its type and the text that "%v" gives it.  A    *)
(* payload is a base and the number of JSON encodings around it.           *)
(***************************************************************************)
EXTENDS Naturals, Sequences, FiniteSets, Functions

CONSTANT MaxAttempts   \* bound: how often the caller publishes the message

ASSUME AttemptsAssumption == MaxAttempts \in Nat \ {0}

VARIABLES
    broker,      \* "amqp", "redis" or "google"
    provider,    \* how metadata is sent: "all", "prefixed", "exclude" or "only" it;
                 \* "payload" is Redis with the payload under a prefixed key
    extract,     \* how an AMQP handler reads headers: "raw", "all" or "merge"
    parse,       \* WithParseAttributes of the Google subscriber
    ordering,    \* WithOrderingKeyProvider of the Google publisher
    generator,   \* the IDs come from WithIDGenerator, or from WithMessageModifier
    json,        \* the JSON middlewares of AMQP and Google are used
    trace,       \* the publisher has ContextKeyToMetadata for the key Plain
    timeout,     \* the publisher has ContextTimeout
    mapKey,      \* the key of the payload in the values of a Redis message
    published,   \* the message as the caller made it
    msg,         \* the caller's message now, with what Publish has done to it
    attempts,    \* how often it was published
    pending,     \* what the Google client still sends after Publish gave up
    paused,      \* the client refuses the ordering key of the message
    wire,        \* what the broker holds
    taken,       \* what the consumer got of it
    received,    \* the message the handler gets
    phase        \* "ready", "failed", "sent", "handled" or "rejected"

config == <<broker, provider, extract, parse, ordering, generator, json, trace, timeout,
            mapKey, published>>
client == <<pending, paused>>
vars   == <<config, msg, attempts, client, wire, taken, received, phase>>

Plain    == <<"type">>
Prefixed == <<"p", "type">>
Keys     == {Plain, Prefixed}

\* Strings that look like another type, values of each type, and a plain string.
Values == {<<"string", "007">>, <<"string", "t">>, <<"string", "abc">>,
           <<"int", "7">>, <<"bool", "true">>, <<"float", "1.5">>}

TraceID == <<"string", "abc">>

Metadata == UNION {[ks -> Values] : ks \in SUBSET Keys}

None == [metadata |-> <<>>, payload |-> "none", id |-> ""]

When(condition) == IF condition THEN BOOLEAN ELSE {FALSE}

Init ==
    /\ broker \in {"amqp", "redis", "google"}
    /\ provider \in IF broker = "amqp" THEN {"all", "prefixed", "exclude", "only"}
                    ELSE IF broker = "redis" THEN {"all", "prefixed", "payload"}
                    ELSE {"all"}
    /\ extract \in IF broker = "amqp" /\ provider # "prefixed" THEN {"raw", "all", "merge"}
                   ELSE {"raw"}
    /\ parse \in When(broker = "google")
    /\ ordering \in When(broker = "google")
    /\ generator \in When(broker # "google")
    /\ json \in When(broker # "redis")
    /\ trace \in BOOLEAN
    /\ timeout \in BOOLEAN
    /\ mapKey \in IF broker = "redis" THEN {<<"data">>, Plain} ELSE {<<"data">>}
    /\ \E m \in Metadata, b \in {"value", "bytes", "unserializable"}, id \in {"", "own"} :
          published = [metadata |-> m, payload |-> [base |-> b, layers |-> 0], id |-> id,
                       ctxDone |-> FALSE]
    /\ msg = published
    /\ attempts = 0
    /\ pending = {}
    /\ paused = FALSE
    /\ wire = {}
    /\ taken = None
    /\ received = None
    /\ phase = "ready"

----------------------------------------------------------------------------
\* Metadata.

HasPrefix(k) == Head(k) = "p"

AddPrefix(md) == [k \in {<<"p">> \o j : j \in DOMAIN md} |-> md[Tail(k)]]
TrimPrefix(md) ==
    [k \in {Tail(j) : j \in {i \in DOMAIN md : HasPrefix(i)}} |-> md[<<"p">> \o k]]
KeepPrefix(md) == Restrict(md, {k \in DOMAIN md : HasPrefix(k)})
DropPrefix(md) == Restrict(md, {k \in DOMAIN md : ~HasPrefix(k)})

\* The entries of a map are put into another; a map with one entry.
Put(f, g) == [k \in DOMAIN f \cup DOMAIN g |-> IF k \in DOMAIN f THEN f[k] ELSE g[k]]
Entry(k, v) == [j \in {k} |-> v]

AsString(v) == <<"string", v[2]>>
Formatted(md) == [k \in DOMAIN md |-> AsString(md[k])]

\* HeadersAsMetadata; MergeHeadersToMetadata.
HeadersAsMetadata(headers) == Formatted(headers)
MergeHeadersToMetadata(md, headers) == Put(Formatted(headers), md)

\* ContextKeyToMetadata, for a context that has a string under the key.
ContextKeyToMetadata(md) == IF trace THEN Put(Entry(Plain, TraceID), md) ELSE md

\* MetadataAsHeaders, PrefixedHeadersProvider, ExcludePrefixHeadersProvider and
\* OnlyPrefixHeadersProvider; MetadataWithPrefix.
Provided(md) ==
    IF provider = "prefixed" THEN AddPrefix(md)
    ELSE IF provider = "exclude" THEN DropPrefix(md)
    ELSE IF provider = "only" THEN KeepPrefix(md)
    ELSE md

\* go-redis sends a value as text, and a bool as 1 or 0.
RedisString(v) == IF v[1] = "bool" THEN <<"string", "1">> ELSE AsString(v)

\* parseAsPrimitiveType, and the "%v" of what it returns: strconv.ParseInt first,
\* then ParseBool, which also takes "t", then ParseFloat.
ParseAsPrimitiveType(v) ==
    IF v[2] \in {"7", "007"} THEN <<"int", "7">>
    ELSE IF v[2] \in {"true", "t"} THEN <<"bool", "true">>
    ELSE IF v[2] = "1.5" THEN <<"float", "1.5">>
    ELSE v

----------------------------------------------------------------------------
\* Payload.

IsBytes(p) == p.base = "bytes" \/ p.layers > 0

CanMarshal(p) == p.base # "unserializable" \/ p.layers > 0

Encode(p) == [p EXCEPT !.layers = @ + 1]
Decode(p) == [p EXCEPT !.layers = @ - 1]

\* The key of the payload among the values; PrefixPayloadExtractor takes the prefix
\* off again.
ValueKey == IF provider = "payload" THEN <<"p">> \o mapKey ELSE mapKey

\* The values of a Redis message: the payload overrides metadata of the same key.
\* MarshallPayloadToJsonMap has no payload values when the payload cannot be
\* marshalled.
MetadataOverPayload(m) ==
    LET meta == [k \in DOMAIN Provided(m.metadata) |-> RedisString(Provided(m.metadata)[k])] IN
    IF CanMarshal(m.payload) THEN Put(meta, Entry(ValueKey, <<"payload", Encode(m.payload)>>))
    ELSE meta

RedisValues(m) ==
    LET meta == [k \in DOMAIN Provided(m.metadata) |-> RedisString(Provided(m.metadata)[k])] IN
    IF CanMarshal(m.payload) THEN Put(Entry(ValueKey, <<"payload", Encode(m.payload)>>), meta)
    ELSE meta

----------------------------------------------------------------------------
\* The publishers.

\* The three MessageMarshallers.  AMQP sends no ID of its own, Redis the ID of the
\* message or one the server makes, Google none: its server makes it.
Publishing(m) == [metadata |-> Provided(m.metadata), payload |-> m.payload,
                  id |-> IF generator THEN "generated" ELSE ""]
XAddArgs(m)   == [metadata |-> RedisValues(m), payload |-> "none",
                  id |-> IF generator THEN "generated"
                         ELSE IF m.id = "" THEN "made" ELSE m.id]
PubsubMessage(m) == [metadata |-> Formatted(m.metadata), payload |-> m.payload,
                     id |-> "made"]

Marshalled(m) ==
    IF broker = "amqp" THEN Publishing(m)
    ELSE IF broker = "redis" THEN XAddArgs(m)
    ELSE PubsubMessage(m)

\* The marshallers of AMQP and Google want bytes, and Google wants no ID.
Refuses(m) ==
    \/ broker # "redis" /\ ~IsBytes(m.payload)
    \/ broker = "google" /\ m.id # ""

\* XADD takes an ID only if it is greater than those of the stream.
IDExists(m) ==
    broker = "redis" /\ ~generator /\ m.id # "" /\ \E w \in wire : w.id = m.id

\* GetMessageID: the ID of the broker's message, which Publish gives the caller's.
\* XAddArgs has none when the server makes it.
GetMessageID(m) ==
    IF broker = "google" THEN "made"
    ELSE IF generator THEN "generated"
    ELSE m.id

----------------------------------------------------------------------------
\* PublishingEngine.Publish, and the middlewares before MessagePublisher.Publish.

\* MarshallPayloadToJson.
MarshallFails(m) == json /\ ~CanMarshal(m.payload)

Prepared(m) ==
    [m EXCEPT !.metadata = ContextKeyToMetadata(@),
              !.payload = IF json /\ ~MarshallFails(m) THEN Encode(@) ELSE @]

\* ContextTimeout leaves its context on the message, and cancels it when it returns.
Left(m) == [m EXCEPT !.ctxDone = @ \/ timeout]

MayPublish == phase \in {"ready", "failed", "sent"} /\ attempts < MaxAttempts

Fails ==
    /\ attempts' = attempts + 1
    /\ msg' = Left(Prepared(msg))
    /\ phase' = "failed"
    /\ UNCHANGED <<config, taken, received>>

\* A middleware, the routing function, the marshaller or one of its options returns
\* an error: the broker is not asked.
PublishRefused ==
    /\ MayPublish
    /\ Fails
    /\ UNCHANGED <<client, wire>>

Reaches == MayPublish /\ ~MarshallFails(msg) /\ ~Refuses(Prepared(msg))

\* The broker refuses the message, or the answer that it has it is lost.  A failure
\* pauses the ordering key, and Publish resumes it.
Stored ==
    IF paused \/ IDExists(msg) \/ (broker = "redis" /\ msg.ctxDone) THEN {wire}
    ELSE {wire, wire \cup {Marshalled(Prepared(msg))}}

PublishFailsPaused ==
    /\ Reaches
    /\ Fails
    /\ wire' \in Stored
    /\ paused' = ordering
    /\ UNCHANGED pending

PublishFails ==
    /\ Reaches
    /\ Fails
    /\ wire' \in Stored
    /\ paused' = FALSE
    /\ UNCHANGED pending

\* The context ends before the Google client has an answer: Publish returns, and the
\* client, which does not use that context, goes on.
PublishGivesUp ==
    /\ Reaches
    /\ broker = "google" /\ ~paused
    /\ msg.ctxDone \/ timeout
    /\ Fails
    /\ pending' = pending \cup {Marshalled(Prepared(msg))}
    /\ UNCHANGED <<paused, wire>>

\* AMQP does not look at the context.
Publish ==
    /\ Reaches
    /\ ~paused /\ ~IDExists(msg) /\ ~(broker = "redis" /\ msg.ctxDone)
    /\ attempts' = attempts + 1
    /\ wire' = wire \cup {Marshalled(Prepared(msg))}
    /\ msg' = [Left(Prepared(msg)) EXCEPT !.id = GetMessageID(msg)]
    /\ phase' = "sent"
    /\ UNCHANGED <<config, client, taken, received>>

ClientSends ==
    /\ \E w \in pending : pending' = pending \ {w} /\ wire' = wire \cup {w}
    /\ UNCHANGED <<config, msg, attempts, paused, taken, received, phase>>

ClientFails ==
    /\ \E w \in pending : pending' = pending \ {w} /\ wire' \in {wire, wire \cup {w}}
    /\ paused' = ordering
    /\ UNCHANGED <<config, msg, attempts, taken, received, phase>>

----------------------------------------------------------------------------
\* Receive.

ExtractWithoutTrim(values) == KeepPrefix(values)

\* PrefixMetadataExtractor; ExtractPrefixedMetadata.
Extract(values) == TrimPrefix(values)

\* The metadata of toMessage and delivery, and what a handler makes of headers.  The
\* subscriber leaves the raw headers on the message: with prefixed headers the
\* application is taken to call the ExtractPrefixedMetadata of headers.go.
AmqpMetadata(w) ==
    IF provider = "prefixed" THEN Formatted(Extract(w.metadata))
    ELSE IF extract = "all" THEN HeadersAsMetadata(w.metadata)
    ELSE IF extract = "merge" THEN MergeHeadersToMetadata(w.metadata, w.metadata)
    ELSE w.metadata

RedisMetadata(w) == IF provider = "prefixed" THEN Extract(w.metadata) ELSE <<>>

GoogleMetadata(w) ==
    [k \in DOMAIN w.metadata |->
        IF parse THEN ParseAsPrimitiveType(w.metadata[k]) ELSE w.metadata[k]]

ReceivedMetadata(w) ==
    IF broker = "amqp" THEN AmqpMetadata(w)
    ELSE IF broker = "redis" THEN RedisMetadata(w)
    ELSE GoogleMetadata(w)

\* The payload map of a Redis message: NonPrefixPayloadExtractor,
\* PrefixPayloadExtractor, or all values.
PayloadMap(w) ==
    IF provider = "prefixed" THEN DropPrefix(w.metadata)
    ELSE IF provider = "payload" THEN TrimPrefix(w.metadata)
    ELSE w.metadata

\* UnmarshallMapPayloadFromJson fails without the key of the payload.  Metadata that
\* has its key is parsed in its place, and may be JSON or not.
KeyMissing(w) == mapKey \notin DOMAIN PayloadMap(w)
TextInPlace(w) == ~KeyMissing(w) /\ PayloadMap(w)[mapKey][1] # "payload"

\* json.Unmarshal fails on a payload that is JSON of JSON, and not of its type.
EncodedTwice(w) == w.payload.layers > 1 /\ w.payload.base # "bytes"

Take(w) ==
    /\ phase \in {"failed", "sent"}
    /\ taken' = w
    /\ UNCHANGED <<config, msg, attempts, client, wire>>

Reject ==
    \E w \in wire :
        /\ Take(w)
        /\ IF broker = "redis" THEN KeyMissing(w) \/ TextInPlace(w)
           ELSE json /\ EncodedTwice(w)
        /\ phase' = "rejected"
        /\ UNCHANGED received

HandlePayload(w, p) ==
    /\ Take(w)
    /\ received' = [metadata |-> ReceivedMetadata(w), payload |-> p, id |-> w.id]
    /\ phase' = "handled"

HandleMap ==
    \E w \in wire :
        /\ broker = "redis"
        /\ ~KeyMissing(w)
        /\ HandlePayload(w, IF TextInPlace(w) THEN [base |-> "metadata", layers |-> 0]
                            ELSE Decode(PayloadMap(w)[mapKey][2]))

HandleBytes ==
    \E w \in wire :
        /\ broker # "redis"
        /\ ~(json /\ EncodedTwice(w))
        /\ HandlePayload(w, IF json THEN Decode(w.payload) ELSE w.payload)

Terminated ==
    /\ \/ phase \in {"handled", "rejected"}
       \/ attempts = MaxAttempts /\ wire = {} /\ pending = {}
    /\ UNCHANGED vars

Next ==
    \/ Publish
    \/ PublishRefused
    \/ PublishFails
    \/ PublishGivesUp
    \/ ClientSends
    \/ ClientFails
    \/ Reject
    \/ HandleMap
    \/ HandleBytes
    \/ Terminated

Spec == Init /\ [][Next]_vars

----------------------------------------------------------------------------
\* RouteFromMetadataKey: the text of the value, or of nil.
RouteKey(md, k) == IF k \in DOMAIN md THEN md[k][2] ELSE "<nil>"

\* The metadata the publisher's provider lets through, as the application names it.
Visible ==
    LET md == ContextKeyToMetadata(published.metadata) IN
    IF provider \in {"exclude", "only"} THEN Provided(md) ELSE md

\* Values whose text a conversion changes: Google's parser rewrites text that is
\* not the canonical form of a number or a bool, and Redis gets 1 for true.
Rewritten(v) ==
    \/ broker = "google" /\ parse /\ v[1] = "string" /\ v[2] \in {"007", "t"}
    \/ broker = "redis" /\ v[1] = "bool"

\* The router of the subscriber sees the key the publisher's application gave, or
\* its middlewares added: with the prefix options paired as the documentation pairs
\* them, no conversion adds, drops, renames or mixes up metadata, whatever else the
\* message carries and however often it is published, except for the values named
\* by Rewritten.
RouteSurvives ==
    phase = "handled" /\ (broker = "redis" => provider = "prefixed") =>
        \A k \in Keys :
            \/ RouteKey(received.metadata, k) = RouteKey(Visible, k)
            \/ k \in DOMAIN Visible /\ Rewritten(Visible[k])

\* MarshallPayloadToJson encodes the message itself, so publishing it again encodes
\* it a second time.
EncodedAgain == json /\ taken.payload.layers > 1

\* MarshallPayloadToJsonMap drops the error of json.Marshal.
PayloadDropped == broker = "redis" /\ published.payload.base = "unserializable"

\* A message the broker has reaches the handler with the payload it was published
\* with, and is not rejected by the consumer's own middlewares, unless it was
\* encoded again or published without its payload.
PublishedIsHandled ==
    phase \in {"handled", "rejected"} =>
        \/ phase = "handled" /\ received.payload = published.payload
        \/ EncodedAgain
        \/ PayloadDropped

\* The message has the ID of what the broker already holds: Google's publisher
\* refuses any ID, and XADD one that the stream has.
IDTaken == wire # {} /\ msg.id # ""

\* ContextTimeout has left a cancelled context on the message.
ContextLeft == timeout /\ attempts > 0

\* Publish gave up on an ordering key that the Google client paused afterwards.
PausedLate == broker = "google" /\ ordering /\ timeout /\ attempts > 0

\* Publishing a message does not use it up: one that the publisher took the first
\* time is taken again after an error, for a retry, or after a success.  Each of the
\* obstacles it may meet has its one exception.
StillPublishable ==
    ~MarshallFails(published) /\ ~Refuses(Prepared(published)) =>
        /\ ~MarshallFails(msg)
        /\ (~Refuses(Prepared(msg)) /\ ~IDExists(msg)) \/ IDTaken
        /\ msg.ctxDone => ContextLeft
        /\ paused => PausedLate
=============================================================================
