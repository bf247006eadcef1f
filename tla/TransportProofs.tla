--------------------------- MODULE TransportProofs ---------------------------
(***************************************************************************)
(* Proofs about Transport, for a message that is published any number of   *)
(* times.                                                                  *)
(***************************************************************************)
EXTENDS Transport, SequenceTheorems, TLAPS

----------------------------------------------------------------------------
\* Metadata.

\* The keys of maps: those of metadata, and the one of the payload of a Redis message.
AllKeys == Keys \cup {<<"data">>}

Parts == {"p", "type", "data"}

\* Only Prefixed has the prefix, adding it to a key gives a key that has it, and
\* taking it off gives the key back.
LEMMA KeyFacts ==
    /\ ~HasPrefix(Plain) /\ ~HasPrefix(<<"data">>) /\ HasPrefix(Prefixed)
    /\ \A k \in AllKeys : HasPrefix(<<"p">> \o k) /\ Tail(<<"p">> \o k) = k
<1>1. ~HasPrefix(Plain) /\ ~HasPrefix(<<"data">>) /\ HasPrefix(Prefixed)
    BY DEF HasPrefix, Plain, Prefixed
<1>2. ASSUME NEW k \in Seq(Parts) PROVE Head(<<"p">> \o k) = "p" /\ Tail(<<"p">> \o k) = k
    <2> DEFINE q == <<"p">>
    <2>1. q \in Seq(Parts) /\ Len(q) = 1 /\ q[1] = "p"
        BY DEF Parts
    <2> HIDE DEF q
    <2>2. /\ q \o k \in Seq(Parts) /\ Len(q \o k) = 1 + Len(k)
          /\ (q \o k)[1] = "p" /\ \A i \in 1 .. Len(k) : (q \o k)[i + 1] = k[i]
        <3>1. /\ q \o k \in Seq(Parts) /\ Len(q \o k) = 1 + Len(k) /\ Len(k) \in Nat
              /\ \A i \in 1 .. 1 + Len(k) : (q \o k)[i] = IF i <= 1 THEN q[i] ELSE k[i - 1]
            <4>1. Len(k) \in Nat
                OBVIOUS
            <4>2. QED
                BY <2>1, <4>1, ConcatProperties
        <3>2. QED
            BY <2>1, <3>1
    <2>3. q \o k # <<>>
        BY <2>2
    <2>4. Head(q \o k) = "p"
        BY <2>2, <2>3
    <2>5. /\ Tail(q \o k) \in Seq(Parts) /\ Len(Tail(q \o k)) = Len(k)
          /\ \A i \in 1 .. Len(k) : Tail(q \o k)[i] = k[i]
        BY <2>2, <2>3, HeadTailProperties
    <2>6. Tail(q \o k) = k
        BY <2>5, SeqEqual
    <2>7. QED
        BY <2>4, <2>6 DEF q
<1>3. AllKeys \subseteq Seq(Parts)
    BY DEF AllKeys, Keys, Plain, Prefixed, Parts
<1>4. QED
    BY <1>1, <1>2, <1>3 DEF HasPrefix

\* What a map of metadata is.
LEMMA MetadataFacts ==
    ASSUME NEW md
    PROVE  md \in Metadata <=> /\ md = [k \in DOMAIN md |-> md[k]]
                               /\ DOMAIN md \subseteq Keys
                               /\ \A k \in DOMAIN md : md[k] \in Values
BY DEF Metadata

\* MetadataWithPrefix gives every key the prefix, and PrefixMetadataExtractor takes it
\* off again: the application sees the keys and the values it gave.
LEMMA PrefixRoundTrip ==
    ASSUME NEW md \in Metadata
    PROVE  /\ DOMAIN AddPrefix(md) = {<<"p">> \o k : k \in DOMAIN md}
           /\ \A k \in DOMAIN md : AddPrefix(md)[<<"p">> \o k] = md[k]
<1>1. \A k \in DOMAIN md : Tail(<<"p">> \o k) = k
    BY KeyFacts, MetadataFacts DEF AllKeys
<1>2. QED
    BY <1>1 DEF AddPrefix

\* ExtractPrefixedMetadata on a map with prefixed keys and others.
LEMMA TrimFacts ==
    ASSUME NEW D \in SUBSET AllKeys, NEW values,
           {j \in DOMAIN values : HasPrefix(j)} = {<<"p">> \o k : k \in D}
    PROVE  /\ DOMAIN TrimPrefix(values) = D
           /\ \A k \in D : TrimPrefix(values)[k] = values[<<"p">> \o k]
<1> DEFINE T == {Tail(j) : j \in {i \in DOMAIN values : HasPrefix(i)}}
<1>1. \A k \in D : Tail(<<"p">> \o k) = k
    BY KeyFacts
<1>2. T = D
    <2>1. ASSUME NEW t \in T PROVE t \in D
        <3>1. PICK j \in DOMAIN values : HasPrefix(j) /\ t = Tail(j)
            OBVIOUS
        <3>2. PICK k \in D : j = <<"p">> \o k
            BY <3>1
        <3>3. QED
            BY <1>1, <3>1, <3>2
    <2>2. ASSUME NEW k \in D PROVE k \in T
        <3>1. <<"p">> \o k \in {j \in DOMAIN values : HasPrefix(j)}
            OBVIOUS
        <3>2. QED
            BY <1>1, <3>1
    <2>3. QED
        BY <2>1, <2>2
<1>3. TrimPrefix(values) = [k \in T |-> values[<<"p">> \o k]]
    BY DEF TrimPrefix
<1>4. QED
    BY <1>2, <1>3

----------------------------------------------------------------------------
\* The inductive invariant.

Published == [metadata : Metadata, payload : [base : {"value", "bytes", "unserializable"},
                                              layers : {0}],
              id : {"", "own"}, ctxDone : BOOLEAN]

\* The options that the application may have set together.
Options ==
    /\ broker \in {"amqp", "redis", "google"}
    /\ provider \in {"all", "prefixed", "exclude", "only", "payload"}
    /\ broker = "redis" => provider \in {"all", "prefixed", "payload"}
    /\ broker = "google" => provider = "all"
    /\ provider = "payload" => broker = "redis"
    /\ extract \in {"raw", "all", "merge"}
    /\ json \in BOOLEAN /\ (broker = "redis" => ~json)
    /\ trace \in BOOLEAN /\ timeout \in BOOLEAN /\ parse \in BOOLEAN /\ ordering \in BOOLEAN
    /\ mapKey \in {<<"data">>, Plain}
    /\ published \in Published

\* The metadata of every attempt to publish the message: adding the key of the
\* context a second time changes nothing.
Sent == ContextKeyToMetadata(published.metadata)

\* The caller's message: what Publish does to it is an encoding more, an ID once the
\* broker has it, and a context that is over.
MessageKept ==
    /\ msg \in [metadata : {published.metadata, Sent},
               payload : [base : {published.payload.base}, layers : Nat],
               id : {"", "own", "made", "generated"}, ctxDone : BOOLEAN]
    /\ ~json => msg.payload.layers = 0
    /\ msg.id # published.id => wire # {}
    /\ msg.ctxDone => timeout /\ attempts > 0

\* The metadata on the wire.
WireMetadata ==
    IF broker = "amqp" THEN Provided(Sent)
    ELSE IF broker = "redis"
         THEN RedisValues([metadata |-> Sent, payload |-> published.payload])
    ELSE Formatted(Sent)

\* A message that the broker has, or the client will send: it differs from attempt to
\* attempt by its ID and by how often its payload was encoded.
IsCopy(w) ==
    /\ w.metadata = WireMetadata
    /\ broker # "redis" =>
          /\ w.payload \in [base : {published.payload.base}, layers : Nat]
          /\ IF json THEN w.payload.layers > 0 ELSE w.payload.layers = 0

\* Only a Google client that goes on after its Publish gave up pauses a key.
PausedAfterTimeout ==
    /\ paused \/ pending # {} => broker = "google" /\ timeout /\ attempts > 0
    /\ paused => ordering

Inv ==
    /\ Options
    /\ attempts \in Nat
    /\ MessageKept
    /\ \A w \in wire \cup pending : IsCopy(w)
    /\ PausedAfterTimeout
    /\ RouteSurvives
    /\ PublishedIsHandled

----------------------------------------------------------------------------
\* What a copy on the wire gives the subscriber.

\* ContextKeyToMetadata makes metadata of metadata, and doing it twice is doing it once.
LEMMA SentFacts ==
    ASSUME Options
    PROVE  Sent \in Metadata /\ ContextKeyToMetadata(Sent) = Sent
<1> DEFINE md == published.metadata
<1>1. md \in Metadata
    BY DEF Options, Published
<1>2. /\ md = [k \in DOMAIN md |-> md[k]] /\ DOMAIN md \subseteq Keys
      /\ \A k \in DOMAIN md : md[k] \in Values
    BY <1>1, MetadataFacts
<1>3. CASE ~trace
    BY <1>1, <1>3 DEF Sent, ContextKeyToMetadata
<1>4. CASE trace
    <2> HIDE DEF md
    <2> DEFINE f == Put(Entry(Plain, TraceID), md)
    <2>1. /\ f = [k \in {Plain} \cup DOMAIN md |-> IF k = Plain THEN TraceID ELSE md[k]]
          /\ Plain \in Keys /\ TraceID \in Values
        BY DEF Put, Entry, Keys, TraceID, Values
    <2>2. f \in Metadata
        <3>1. DOMAIN f = {Plain} \cup DOMAIN md
            BY <2>1
        <3>2. DOMAIN f \subseteq Keys
            BY <1>2, <2>1, <3>1
        <3>3. \A k \in DOMAIN f : f[k] \in Values
            BY <1>2, <2>1
        <3>4. f = [k \in DOMAIN f |-> f[k]]
            BY <2>1
        <3> HIDE DEF f
        <3>5. QED
            BY <3>2, <3>3, <3>4, MetadataFacts
    <2>3. Put(Entry(Plain, TraceID), f)
            = [k \in {Plain} \cup DOMAIN f |-> IF k = Plain THEN TraceID ELSE f[k]]
        BY DEF Put, Entry
    <2>4. Put(Entry(Plain, TraceID), f) = f
        BY <2>1, <2>3
    <2>5. Sent = f
        BY <1>4 DEF Sent, ContextKeyToMetadata, md
    <2>6. QED
        BY <1>4, <2>2, <2>4, <2>5 DEF ContextKeyToMetadata
<1>5. QED
    BY <1>3, <1>4

\* Maps with the same keys and texts route the same.
LEMMA SameTextSameRoute ==
    ASSUME NEW f, NEW g, DOMAIN f = DOMAIN g, \A k \in DOMAIN g : f[k][2] = g[k][2], NEW k
    PROVE  RouteKey(f, k) = RouteKey(g, k)
BY DEF RouteKey

\* Writing values as text keeps keys and texts.
LEMMA FormattedFacts ==
    ASSUME NEW md
    PROVE  /\ DOMAIN Formatted(md) = DOMAIN md
           /\ \A k \in DOMAIN md : Formatted(md)[k] = <<"string", md[k][2]>>
BY DEF Formatted, AsString

\* The prefix options of AMQP, and its ways to read headers.
LEMMA AmqpRoute ==
    ASSUME Options, broker = "amqp", NEW w, w.metadata = Provided(Sent), NEW k
    PROVE  RouteKey(AmqpMetadata(w), k) = RouteKey(Visible, k)
<1>1. Sent \in Metadata
    BY SentFacts
<1>2. CASE provider = "prefixed"
    <2> DEFINE v == AddPrefix(Sent)
    <2>1. v = w.metadata /\ Visible = Sent /\ AmqpMetadata(w) = Formatted(TrimPrefix(v))
        BY <1>2 DEF Provided, Visible, Sent, AmqpMetadata, Extract
    <2>2. /\ DOMAIN v = {<<"p">> \o j : j \in DOMAIN Sent}
          /\ \A j \in DOMAIN Sent : v[<<"p">> \o j] = Sent[j]
        BY <1>1, PrefixRoundTrip
    <2>3. DOMAIN Sent \in SUBSET AllKeys
        BY <1>1, MetadataFacts DEF AllKeys
    <2> HIDE DEF v
    <2>4. {j \in DOMAIN v : HasPrefix(j)} = {<<"p">> \o j : j \in DOMAIN Sent}
        BY <2>2, <2>3, KeyFacts
    <2>5. DOMAIN TrimPrefix(v) = DOMAIN Sent /\ \A j \in DOMAIN Sent : TrimPrefix(v)[j] = Sent[j]
        BY <2>2, <2>3, <2>4, TrimFacts
    <2>6. QED
        BY <2>1, <2>5, FormattedFacts, SameTextSameRoute
<1>3. CASE provider # "prefixed"
    <2> DEFINE v == w.metadata
    <2>1. v = Visible
        BY <1>3 DEF Provided, Visible, Sent, Options
    <2>2. DOMAIN AmqpMetadata(w) = DOMAIN v /\ \A j \in DOMAIN v : AmqpMetadata(w)[j][2] = v[j][2]
        <3>1. CASE extract = "all"
            BY <1>3, <3>1, FormattedFacts DEF AmqpMetadata, HeadersAsMetadata
        <3>2. CASE extract = "merge"
            <4>1. AmqpMetadata(w) = Put(Formatted(v), v)
                BY <1>3, <3>2 DEF AmqpMetadata, MergeHeadersToMetadata
            <4> HIDE DEF v
            <4>2. QED
                BY <4>1, FormattedFacts DEF Put
        <3>3. CASE extract \notin {"all", "merge"}
            BY <1>3, <3>3 DEF AmqpMetadata
        <3>4. QED
            BY <3>1, <3>2, <3>3
    <2>3. QED
        BY <2>1, <2>2, SameTextSameRoute
<1>4. QED
    BY <1>2, <1>3

\* The attributes of Google, parsed or not.
LEMMA GoogleRoute ==
    ASSUME Options, broker = "google", NEW w, w.metadata = Formatted(Sent), NEW k
    PROVE  \/ RouteKey(GoogleMetadata(w), k) = RouteKey(Visible, k)
           \/ k \in DOMAIN Visible /\ Rewritten(Visible[k])
<1>1. Sent \in Metadata /\ Visible = Sent
    BY SentFacts DEF Visible, Sent, Options
<1>2. DOMAIN w.metadata = DOMAIN Sent /\ \A j \in DOMAIN Sent : w.metadata[j] = <<"string", Sent[j][2]>>
    BY FormattedFacts
<1>3. CASE k \notin DOMAIN Sent
    BY <1>1, <1>2, <1>3 DEF RouteKey, GoogleMetadata
<1>4. CASE k \in DOMAIN Sent
    <2>1. /\ RouteKey(Visible, k) = Sent[k][2]
          /\ RouteKey(GoogleMetadata(w), k)
                = IF parse THEN ParseAsPrimitiveType(<<"string", Sent[k][2]>>)[2] ELSE Sent[k][2]
        BY <1>1, <1>2, <1>4 DEF RouteKey, GoogleMetadata
    <2>2. Sent[k] \in Values
        BY <1>1, <1>4, MetadataFacts
    <2>3. CASE parse /\ Sent[k] \in {<<"string", "007">>, <<"string", "t">>}
        BY <1>1, <1>4, <2>3 DEF Rewritten
    <2>4. CASE parse /\ Sent[k] \notin {<<"string", "007">>, <<"string", "t">>}
        <3>1. ParseAsPrimitiveType(<<"string", Sent[k][2]>>)[2] = Sent[k][2]
            BY <2>2, <2>4 DEF ParseAsPrimitiveType, Values
        <3>2. QED
            BY <2>1, <2>4, <3>1
    <2>5. QED
        BY <2>1, <2>3, <2>4
<1>5. QED
    BY <1>3, <1>4

\* The values of a Redis message: all keys of the metadata, and the key of the payload,
\* which is the payload's in any case.
LEMMA ValuesFacts ==
    ASSUME NEW m
    PROVE  /\ ~CanMarshal(m.payload) => DOMAIN RedisValues(m) = DOMAIN Provided(m.metadata)
           /\ CanMarshal(m.payload) =>
                /\ DOMAIN RedisValues(m) = DOMAIN Provided(m.metadata) \cup {ValueKey}
                /\ RedisValues(m)[ValueKey] = <<"payload", Encode(m.payload)>>
           /\ \A j \in DOMAIN Provided(m.metadata) :
                j # ValueKey \/ ~CanMarshal(m.payload) =>
                    RedisValues(m)[j] = RedisString(Provided(m.metadata)[j])
<1> DEFINE meta == [k \in DOMAIN Provided(m.metadata) |-> RedisString(Provided(m.metadata)[k])]
           pay == Entry(ValueKey, <<"payload", Encode(m.payload)>>)
<1>1. RedisValues(m) = IF CanMarshal(m.payload) THEN Put(pay, meta) ELSE meta
    BY DEF RedisValues
<1>2. DOMAIN pay = {ValueKey} /\ pay[ValueKey] = <<"payload", Encode(m.payload)>>
    BY DEF Entry
<1>3. Put(pay, meta) = [k \in DOMAIN pay \cup DOMAIN meta |-> IF k \in DOMAIN pay THEN pay[k] ELSE meta[k]]
    BY DEF Put
<1> HIDE DEF pay
<1>4. QED
    BY <1>1, <1>2, <1>3

\* Prefixed metadata of Redis beside a payload whose key has no prefix.
LEMMA RedisRoute ==
    ASSUME Options, broker = "redis", provider = "prefixed", NEW w,
           w.metadata = RedisValues([metadata |-> Sent, payload |-> published.payload]), NEW k
    PROVE  \/ RouteKey(RedisMetadata(w), k) = RouteKey(Visible, k)
           \/ k \in DOMAIN Visible /\ Rewritten(Visible[k])
<1> DEFINE m == [metadata |-> Sent, payload |-> published.payload]
           v == w.metadata
<1>1. Sent \in Metadata /\ Visible = Sent
    BY SentFacts DEF Visible, Sent
<1>2. /\ DOMAIN Provided(Sent) = {<<"p">> \o j : j \in DOMAIN Sent}
      /\ \A j \in DOMAIN Sent : Provided(Sent)[<<"p">> \o j] = Sent[j]
    BY <1>1, PrefixRoundTrip DEF Provided
<1>3. ValueKey = mapKey /\ ~HasPrefix(ValueKey)
    BY KeyFacts DEF ValueKey, Options
<1>4. DOMAIN Sent \in SUBSET AllKeys /\ \A j \in DOMAIN Sent : HasPrefix(<<"p">> \o j)
    BY <1>1, MetadataFacts, KeyFacts DEF AllKeys
<1>5. /\ DOMAIN v \in {DOMAIN Provided(Sent), DOMAIN Provided(Sent) \cup {ValueKey}}
      /\ \A j \in DOMAIN Provided(Sent) : j # ValueKey => v[j] = RedisString(Provided(Sent)[j])
    <2>1. m.metadata = Sent /\ v = RedisValues(m)
        OBVIOUS
    <2> HIDE DEF m, v
    <2>2. QED
        BY <2>1, ValuesFacts
<1> HIDE DEF v
<1>6. {j \in DOMAIN v : HasPrefix(j)} = {<<"p">> \o j : j \in DOMAIN Sent}
    BY <1>2, <1>3, <1>4, <1>5
<1>7. DOMAIN TrimPrefix(v) = DOMAIN Sent /\ \A j \in DOMAIN Sent : TrimPrefix(v)[j] = v[<<"p">> \o j]
    BY <1>4, <1>6, TrimFacts
<1>8. \A j \in DOMAIN Sent : v[<<"p">> \o j] = RedisString(Sent[j])
    BY <1>2, <1>3, <1>4, <1>5
<1>9. RedisMetadata(w) = TrimPrefix(v)
    BY DEF RedisMetadata, Extract, v
<1>10. CASE k \notin DOMAIN Sent
    BY <1>1, <1>7, <1>9, <1>10 DEF RouteKey
<1>11. CASE k \in DOMAIN Sent
    <2>1. RouteKey(Visible, k) = Sent[k][2] /\ RouteKey(RedisMetadata(w), k) = RedisString(Sent[k])[2]
        BY <1>1, <1>7, <1>8, <1>9, <1>11 DEF RouteKey
    <2>2. CASE Sent[k][1] = "bool"
        BY <1>1, <1>11, <2>2 DEF Rewritten
    <2>3. CASE Sent[k][1] # "bool"
        BY <2>1, <2>3 DEF RedisString, AsString
    <2>4. QED
        BY <2>2, <2>3
<1>12. QED
    BY <1>10, <1>11

\* The payload of a Redis message is where the subscriber's extractor looks for it,
\* whatever metadata has its key.
LEMMA RedisPayload ==
    ASSUME Options, broker = "redis", NEW w,
           w.metadata = RedisValues([metadata |-> Sent, payload |-> published.payload]),
           published.payload.base # "unserializable"
    PROVE  /\ mapKey \in DOMAIN PayloadMap(w)
           /\ PayloadMap(w)[mapKey] = <<"payload", Encode(published.payload)>>
<1> DEFINE m == [metadata |-> Sent, payload |-> published.payload]
           v == w.metadata
<1>1. ValueKey \in DOMAIN v /\ v[ValueKey] = <<"payload", Encode(published.payload)>>
    <2>1. m.payload = published.payload /\ v = RedisValues(m) /\ CanMarshal(m.payload)
        BY DEF CanMarshal
    <2> HIDE DEF m, v
    <2>2. QED
        BY <2>1, ValuesFacts
<1>2. /\ ~HasPrefix(mapKey) /\ HasPrefix(<<"p">> \o mapKey)
      /\ Tail(<<"p">> \o mapKey) = mapKey
    BY KeyFacts DEF Options, AllKeys, Keys
<1>3. CASE provider = "prefixed"
    <2>1. ValueKey = mapKey /\ PayloadMap(w) = DropPrefix(v)
        BY <1>3 DEF ValueKey, PayloadMap
    <2> HIDE DEF v
    <2>2. QED
        BY <1>1, <1>2, <2>1 DEF DropPrefix, Restrict
<1>4. CASE provider = "payload"
    <2>1. ValueKey = <<"p">> \o mapKey /\ PayloadMap(w) = TrimPrefix(v)
        BY <1>4 DEF ValueKey, PayloadMap
    <2> HIDE DEF v
    <2> DEFINE T == {Tail(j) : j \in {i \in DOMAIN v : HasPrefix(i)}}
    <2>2. mapKey \in T
        BY <1>1, <1>2, <2>1
    <2>3. TrimPrefix(v) = [k \in T |-> v[<<"p">> \o k]]
        BY DEF TrimPrefix
    <2> HIDE DEF T
    <2>4. QED
        BY <1>1, <2>1, <2>2, <2>3
<1>5. CASE provider \notin {"prefixed", "payload"}
    BY <1>1, <1>5 DEF ValueKey, PayloadMap
<1>6. QED
    BY <1>3, <1>4, <1>5

----------------------------------------------------------------------------
\* Publishing.

\* A message ready to be published, for the first time or again.
LEMMA InvInit ==
    Init => Inv
<1> SUFFICES ASSUME Init PROVE Inv
    OBVIOUS
<1>0. PICK m \in Metadata, b \in {"value", "bytes", "unserializable"}, id \in {"", "own"} :
        published = [metadata |-> m, payload |-> [base |-> b, layers |-> 0], id |-> id,
                     ctxDone |-> FALSE]
    BY DEF Init
<1>1. published \in Published
    BY <1>0 DEF Published
<1>2. Options
    <2>1. /\ broker \in {"amqp", "redis", "google"}
          /\ json \in BOOLEAN /\ (broker = "redis" => ~json)
          /\ trace \in BOOLEAN /\ timeout \in BOOLEAN /\ parse \in BOOLEAN /\ ordering \in BOOLEAN
        BY DEF Init, When
    <2>2. /\ provider \in {"all", "prefixed", "exclude", "only", "payload"}
          /\ broker = "redis" => provider \in {"all", "prefixed", "payload"}
          /\ broker = "google" => provider = "all"
          /\ provider = "payload" => broker = "redis"
        BY DEF Init
    <2>3. extract \in {"raw", "all", "merge"} /\ mapKey \in {<<"data">>, Plain}
        BY DEF Init
    <2>4. QED
        BY <1>1, <2>1, <2>2, <2>3 DEF Options
<1>3. MessageKept
    <2>1. msg = published /\ published.payload.layers = 0
        BY <1>0 DEF Init
    <2>2. ~msg.ctxDone
        BY <1>0, <2>1, Zenon
    <2>3. msg \in [metadata : {published.metadata, Sent},
                  payload : [base : {published.payload.base}, layers : Nat],
                  id : {"", "own", "made", "generated"}, ctxDone : BOOLEAN]
        BY <1>0, <2>1
    <2>4. QED
        BY <2>1, <2>2, <2>3 DEF MessageKept
<1>4. PausedAfterTimeout /\ RouteSurvives /\ PublishedIsHandled
    BY DEF Init, PausedAfterTimeout, RouteSurvives, PublishedIsHandled
<1>5. attempts \in Nat /\ \A w \in wire \cup pending : IsCopy(w)
    BY DEF Init
<1>6. QED
    BY <1>2, <1>3, <1>4, <1>5 DEF Inv

\* What depends only on the options and the message as it was.
LEMMA ConfigKept ==
    ASSUME UNCHANGED config
    PROVE  /\ Options => Options'
           /\ Sent' = Sent
           /\ \A w : IsCopy(w) => IsCopy(w)'
           /\ Visible' = Visible
           /\ \A v : Rewritten(v)' = Rewritten(v)
<1>1. Options => Options'
    BY DEF config, Options
<1>2. Sent' = Sent
    BY DEF config, Sent, ContextKeyToMetadata
<1>3. WireMetadata' = WireMetadata
    BY <1>2 DEF config, WireMetadata, Provided, RedisValues, ValueKey
<1>4. \A w : IsCopy(w) => IsCopy(w)'
    BY <1>3 DEF config, IsCopy
<1>5. Visible' = Visible
    BY DEF config, Visible, ContextKeyToMetadata, Provided
<1>6. \A v : Rewritten(v)' = Rewritten(v)
    BY DEF config, Rewritten
<1>7. QED
    BY <1>1, <1>2, <1>4, <1>5, <1>6

\* The middlewares of the publisher on a message that was published any number of
\* times: its metadata is that of the first time, its payload may be encoded again.
LEMMA PreparedFacts ==
    ASSUME Inv
    PROVE  Prepared(msg) =
             [metadata |-> Sent,
              payload |-> [base |-> published.payload.base,
                           layers |-> IF json /\ ~MarshallFails(msg) THEN msg.payload.layers + 1
                                      ELSE msg.payload.layers],
              id |-> msg.id, ctxDone |-> msg.ctxDone]
<1>1. MessageKept /\ Options
    BY DEF Inv
<1>2. ContextKeyToMetadata(msg.metadata) = Sent
    <2>1. msg.metadata \in {published.metadata, Sent}
        BY <1>1 DEF MessageKept
    <2>2. QED
        BY <1>1, <2>1, SentFacts DEF Sent
<1>3. Prepared(msg) =
        [msg EXCEPT !.metadata = Sent,
                    !.payload = IF json /\ ~MarshallFails(msg) THEN Encode(msg.payload) ELSE msg.payload]
    BY <1>2 DEF Prepared
<1>4. QED
    BY <1>1, <1>3 DEF MessageKept, Encode

\* What Publish leaves on the message, besides its ID.
LEMMA LeftFacts ==
    ASSUME Inv
    PROVE  \E L \in Nat, d \in BOOLEAN :
             /\ Left(Prepared(msg)) =
                  [metadata |-> Sent, payload |-> [base |-> published.payload.base, layers |-> L],
                   id |-> msg.id, ctxDone |-> d]
             /\ ~json => L = 0
             /\ d => timeout
<1>1. MessageKept /\ Options
    BY DEF Inv
<1>2. msg.payload.layers \in Nat /\ msg.ctxDone \in BOOLEAN /\ timeout \in BOOLEAN
    BY <1>1 DEF MessageKept, Options
<1> DEFINE L == IF json /\ ~MarshallFails(msg) THEN msg.payload.layers + 1 ELSE msg.payload.layers
           d == msg.ctxDone \/ timeout
<1>3. L \in Nat
    BY <1>2
<1>4. ~json => L = 0
    BY <1>1 DEF MessageKept
<1>5. d \in BOOLEAN /\ (d => timeout)
    BY <1>1 DEF MessageKept
<1>6. Left(Prepared(msg)) = [Prepared(msg) EXCEPT !.ctxDone = d]
    <2>1. Prepared(msg).ctxDone = msg.ctxDone
        BY PreparedFacts
    <2>2. QED
        BY <2>1 DEF Left
<1>7. Prepared(msg) =
        [metadata |-> Sent, payload |-> [base |-> published.payload.base, layers |-> L],
         id |-> msg.id, ctxDone |-> msg.ctxDone]
    BY PreparedFacts
<1> HIDE DEF L, d
<1>8. Left(Prepared(msg)) =
        [metadata |-> Sent, payload |-> [base |-> published.payload.base, layers |-> L],
         id |-> msg.id, ctxDone |-> d]
    BY <1>6, <1>7
<1>9. QED
    BY <1>3, <1>4, <1>5, <1>8

\* What reaches the wire.
LEMMA MarshalledIsCopy ==
    ASSUME Inv, ~MarshallFails(msg)
    PROVE  IsCopy(Marshalled(Prepared(msg)))
<1> DEFINE p == Prepared(msg)
<1>1. MessageKept /\ Options
    BY DEF Inv
<1>2. /\ p.metadata = Sent
      /\ p.payload = [base |-> published.payload.base,
                      layers |-> IF json THEN msg.payload.layers + 1 ELSE msg.payload.layers]
    BY PreparedFacts
<1>3. msg.payload.layers \in Nat /\ (~json => msg.payload.layers = 0)
    BY <1>1 DEF MessageKept
<1> HIDE DEF p
<1>4. CASE broker = "amqp"
    BY <1>2, <1>3, <1>4 DEF IsCopy, WireMetadata, Marshalled, Publishing, p
<1>5. CASE broker = "google"
    BY <1>2, <1>3, <1>5 DEF IsCopy, WireMetadata, Marshalled, PubsubMessage, p
<1>6. CASE broker = "redis"
    <2>1. p.payload = published.payload
        BY <1>1, <1>2, <1>3, <1>6 DEF Options, Published
    <2>2. RedisValues(p) = RedisValues([metadata |-> Sent, payload |-> published.payload])
        BY <1>2, <2>1 DEF RedisValues
    <2>3. Marshalled(p).metadata = RedisValues(p)
        BY <1>6 DEF Marshalled, XAddArgs
    <2>4. QED
        BY <1>6, <2>2, <2>3 DEF IsCopy, WireMetadata, p
<1>7. QED
    BY <1>1, <1>4, <1>5, <1>6 DEF Options

\* What Publish leaves of the caller's message.
LEMMA MessageStep ==
    ASSUME Inv, UNCHANGED config, attempts' \in Nat, attempts' > 0, wire \subseteq wire',
           NEW id \in {"", "own", "made", "generated"}, id # msg.id => wire' # {},
           NEW L \in Nat, ~json => L = 0, NEW d \in BOOLEAN, d => timeout,
           msg' = [metadata |-> Sent, payload |-> [base |-> published.payload.base, layers |-> L],
                   id |-> id, ctxDone |-> d]
    PROVE  MessageKept'
<1>1. MessageKept /\ Options /\ attempts \in Nat
    BY DEF Inv
<1>4. Sent' = Sent /\ published' = published /\ timeout' = timeout /\ json' = json
    BY ConfigKept DEF config
<1>5. msg'.id # published'.id => wire' # {}
    BY <1>1, <1>4 DEF MessageKept
<1>6. msg'.ctxDone => timeout' /\ attempts' > 0
    <2>1. msg'.ctxDone = d
        OBVIOUS
    <2>2. QED
        BY <1>4, <2>1, Zenon
<1>7. msg' \in [metadata : {published'.metadata, Sent'},
               payload : [base : {published'.payload.base}, layers : Nat],
               id : {"", "own", "made", "generated"}, ctxDone : BOOLEAN]
    BY <1>4
<1>8. ~json' => msg'.payload.layers = 0
    BY <1>4
<1>9. QED
    BY <1>5, <1>6, <1>7, <1>8, Zenon DEF MessageKept

\* An error leaves the ID as it was.
LEMMA FailsStep ==
    ASSUME Inv, Fails, wire \subseteq wire', \A w \in wire' \cup pending' : IsCopy(w),
           PausedAfterTimeout'
    PROVE  Inv'
<1>1. UNCHANGED config /\ attempts' = attempts + 1 /\ phase' = "failed" /\ msg' = Left(Prepared(msg))
    BY DEF Fails
<1>2. msg.id \in {"", "own", "made", "generated"}
    BY DEF Inv, MessageKept
<1>3. PICK L \in Nat, d \in BOOLEAN :
        /\ Left(Prepared(msg)) =
             [metadata |-> Sent, payload |-> [base |-> published.payload.base, layers |-> L],
              id |-> msg.id, ctxDone |-> d]
        /\ ~json => L = 0
        /\ d => timeout
    BY LeftFacts
<1>4. attempts' \in Nat /\ attempts' > 0
    BY <1>1 DEF Inv
<1>5. MessageKept'
    BY <1>1, <1>2, <1>3, <1>4, MessageStep
<1>6. RouteSurvives' /\ PublishedIsHandled'
    BY <1>1 DEF RouteSurvives, PublishedIsHandled
<1>7. \A w \in wire' \cup pending' : IsCopy(w)'
    BY <1>1, ConfigKept
<1>8. Options'
    BY <1>1, ConfigKept DEF Inv
<1>9. QED
    BY <1>4, <1>5, <1>6, <1>7, <1>8 DEF Inv

\* Publish returns an error before the broker is asked.
LEMMA PublishRefusedStep ==
    ASSUME Inv, PublishRefused PROVE Inv'
<1>1. Fails /\ UNCHANGED <<paused, pending, wire>>
    BY DEF PublishRefused, client
<1>2. \A w \in wire' \cup pending' : IsCopy(w)
    BY <1>1 DEF Inv
<1>3. PausedAfterTimeout'
    <2>1. attempts' > 0 /\ UNCHANGED <<broker, timeout, ordering>>
        BY <1>1 DEF Fails, config, Inv
    <2>2. QED
        BY <1>1, <2>1 DEF PausedAfterTimeout, Inv
<1>4. QED
    BY <1>1, <1>2, <1>3, FailsStep

\* The broker refuses the message, or its answer is lost.
LEMMA PublishFailsStep ==
    ASSUME Inv, PublishFails PROVE Inv'
<1>1. Fails /\ Reaches /\ pending' = pending /\ wire' \in Stored /\ paused' = FALSE
    BY DEF PublishFails
<1>2. wire' \in {wire, wire \cup {Marshalled(Prepared(msg))}}
    BY <1>1 DEF Stored
<1>3. \A w \in wire' \cup pending' : IsCopy(w)
    BY <1>1, <1>2, MarshalledIsCopy DEF Inv, Reaches
<1>4. PausedAfterTimeout'
    <2>1. attempts' > 0 /\ UNCHANGED <<broker, timeout, ordering>>
        BY <1>1 DEF Fails, config, Inv
    <2>2. QED
        BY <1>1, <2>1 DEF PausedAfterTimeout, Inv
<1>5. wire \subseteq wire'
    BY <1>2
<1>6. QED
    BY <1>1, <1>3, <1>4, <1>5, FailsStep

\* The context of a Google Publish is over: the client still has the message.
LEMMA PublishGivesUpStep ==
    ASSUME Inv, PublishGivesUp PROVE Inv'
<1>1. /\ Fails /\ Reaches /\ UNCHANGED <<paused, wire>> /\ broker = "google"
      /\ pending' = pending \cup {Marshalled(Prepared(msg))}
      /\ msg.ctxDone \/ timeout
    BY DEF PublishGivesUp
<1>2. \A w \in wire' \cup pending' : IsCopy(w)
    BY <1>1, MarshalledIsCopy DEF Inv, Reaches
<1>3. timeout
    BY <1>1 DEF Inv, MessageKept
<1>4. PausedAfterTimeout'
    <2>1. attempts' > 0 /\ UNCHANGED <<broker, timeout, ordering>>
        BY <1>1 DEF Fails, config, Inv
    <2>2. QED
        BY <1>1, <1>3, <2>1 DEF PausedAfterTimeout, Inv
<1>5. QED
    BY <1>1, <1>2, <1>4, FailsStep

\* The broker has the message, and the caller its ID.
LEMMA PublishStep ==
    ASSUME Inv, Publish PROVE Inv'
<1>1. /\ UNCHANGED config /\ UNCHANGED <<paused, pending>>
      /\ attempts' = attempts + 1 /\ phase' = "sent" /\ ~MarshallFails(msg)
      /\ wire' = wire \cup {Marshalled(Prepared(msg))}
    BY DEF Publish, Reaches, client
<1>2. attempts' \in Nat /\ attempts' > 0
    BY <1>1 DEF Inv
<1> DEFINE id == GetMessageID(msg)
<1>3. id \in {"", "own", "made", "generated"} /\ wire' # {} /\ wire \subseteq wire'
    BY <1>1 DEF GetMessageID, Inv, MessageKept
<1>4. PICK L \in Nat, d \in BOOLEAN :
        /\ Left(Prepared(msg)) =
             [metadata |-> Sent, payload |-> [base |-> published.payload.base, layers |-> L],
              id |-> msg.id, ctxDone |-> d]
        /\ ~json => L = 0
        /\ d => timeout
    BY LeftFacts
<1>5. msg' = [metadata |-> Sent, payload |-> [base |-> published.payload.base, layers |-> L],
              id |-> id, ctxDone |-> d]
    <2>1. msg' = [Left(Prepared(msg)) EXCEPT !.id = id]
        BY DEF Publish
    <2> DEFINE before == [metadata |-> Sent,
                          payload |-> [base |-> published.payload.base, layers |-> L],
                          id |-> msg.id, ctxDone |-> d]
    <2>2. Left(Prepared(msg)) = before
        BY <1>4
    <2> HIDE DEF id
    <2>3. [before EXCEPT !.id = id]
            = [metadata |-> Sent, payload |-> [base |-> published.payload.base, layers |-> L],
               id |-> id, ctxDone |-> d]
        OBVIOUS
    <2> HIDE DEF before
    <2>4. QED
        BY <2>1, <2>2, <2>3, Zenon
<1> HIDE DEF id
<1>6. MessageKept'
    BY <1>1, <1>2, <1>3, <1>4, <1>5, MessageStep
<1>7. PausedAfterTimeout'
    BY <1>1, <1>2 DEF PausedAfterTimeout, Inv, config
<1>8. \A w \in wire' \cup pending' : IsCopy(w)'
    BY <1>1, MarshalledIsCopy, ConfigKept DEF Inv
<1>9. RouteSurvives' /\ PublishedIsHandled' /\ Options'
    BY <1>1, ConfigKept DEF RouteSurvives, PublishedIsHandled, Inv
<1>10. QED
    BY <1>2, <1>6, <1>7, <1>8, <1>9 DEF Inv

----------------------------------------------------------------------------
\* After Publish.

\* A step that is not one of the subscriber keeps what holds of what it got.
LEMMA ReceivedKept ==
    ASSUME Inv, UNCHANGED <<config, taken, received, phase>>
    PROVE  RouteSurvives' /\ PublishedIsHandled'
<1>1. UNCHANGED <<broker, provider, json, published>>
    BY DEF config
<1>2. RouteSurvives'
    BY <1>1, ConfigKept DEF Inv, RouteSurvives
<1>3. PublishedIsHandled'
    BY <1>1 DEF Inv, PublishedIsHandled, EncodedAgain, PayloadDropped
<1>4. QED
    BY <1>2, <1>3

\* The Google client goes on.
LEMMA ClientStep ==
    ASSUME Inv, UNCHANGED <<config, msg, attempts, taken, received, phase>>,
           NEW w \in pending, pending' = pending \ {w}, wire' \in {wire, wire \cup {w}},
           paused' = paused \/ paused' = ordering
    PROVE  Inv'
<1>1. RouteSurvives' /\ PublishedIsHandled' /\ Options' /\ attempts' \in Nat
    BY ReceivedKept, ConfigKept DEF Inv
<1>2. \A v \in wire' \cup pending' : IsCopy(v)'
    BY ConfigKept DEF Inv
<1>3. MessageKept'
    <2>1. wire' = {} => wire = {}
        OBVIOUS
    <2>2. UNCHANGED <<published, json, timeout, Sent>>
        BY ConfigKept DEF config
    <2>3. QED
        BY <2>1, <2>2 DEF Inv, MessageKept
<1>4. PausedAfterTimeout'
    BY DEF Inv, PausedAfterTimeout, config
<1>5. QED
    BY <1>1, <1>2, <1>3, <1>4 DEF Inv

\* The message of the subscriber is one of the copies.
LEMMA TakeFacts ==
    ASSUME Inv, NEW w \in wire, Take(w)
    PROVE  /\ IsCopy(w) /\ Options /\ taken' = w
           /\ Options' /\ attempts' \in Nat /\ MessageKept' /\ PausedAfterTimeout'
           /\ \A v \in wire' \cup pending' : IsCopy(v)'
<1>1. UNCHANGED config /\ UNCHANGED <<msg, attempts, paused, pending, wire>> /\ taken' = w
    BY DEF Take, client
<1>2. UNCHANGED <<published, json, timeout, ordering, broker, Sent>>
    BY <1>1, ConfigKept DEF config
<1>3. MessageKept' /\ PausedAfterTimeout'
    BY <1>1, <1>2 DEF Inv, MessageKept, PausedAfterTimeout
<1>4. \A v \in wire' \cup pending' : IsCopy(v)'
    BY <1>1, ConfigKept DEF Inv
<1>5. QED
    BY <1>1, <1>3, <1>4, ConfigKept DEF Inv

\* A copy whose payload was encoded once is decoded once, and one that was not is not.
LEMMA BytesOfCopy ==
    ASSUME Options, NEW w, IsCopy(w), broker # "redis", ~(json /\ w.payload.layers > 1)
    PROVE  (IF json THEN Decode(w.payload) ELSE w.payload) = published.payload
<1>1. w.payload \in [base : {published.payload.base}, layers : Nat]
    BY DEF IsCopy
<1>2. published.payload = [base |-> published.payload.base, layers |-> 0]
    BY DEF Options, Published
<1>3. CASE json
    <2>1. w.payload = [base |-> published.payload.base, layers |-> 1]
        BY <1>1, <1>3 DEF IsCopy
    <2>2. Decode(w.payload) = [base |-> published.payload.base, layers |-> 0]
        BY <2>1 DEF Decode
    <2>3. QED
        BY <1>2, <1>3, <2>2
<1>4. CASE ~json
    BY <1>1, <1>2, <1>4 DEF IsCopy
<1>5. QED
    BY <1>3, <1>4

\* A middleware of the subscriber rejects the message: it was encoded twice, or
\* has no payload.
LEMMA RejectStep ==
    ASSUME Inv, Reject PROVE Inv'
<1>1. PICK w \in wire : /\ Take(w) /\ phase' = "rejected"
                        /\ IF broker = "redis" THEN KeyMissing(w) \/ TextInPlace(w)
                           ELSE json /\ EncodedTwice(w)
    BY DEF Reject
<1>2. IsCopy(w) /\ Options /\ taken' = w /\ UNCHANGED <<broker, json, published>>
    BY <1>1, TakeFacts DEF Take, config
<1>3. PublishedIsHandled'
    <2>1. CASE broker = "redis"
        <3>1. published.payload.base = "unserializable"
            <4>1. SUFFICES ASSUME published.payload.base # "unserializable" PROVE FALSE
                OBVIOUS
            <4>2. w.metadata = RedisValues([metadata |-> Sent, payload |-> published.payload])
                BY <1>2, <2>1 DEF IsCopy, WireMetadata
            <4>3. /\ mapKey \in DOMAIN PayloadMap(w)
                  /\ PayloadMap(w)[mapKey] = <<"payload", Encode(published.payload)>>
                BY <1>2, <2>1, <4>1, <4>2, RedisPayload
            <4>4. QED
                BY <1>1, <2>1, <4>3 DEF KeyMissing, TextInPlace
        <3>2. QED
            BY <1>2, <2>1, <3>1 DEF PublishedIsHandled, PayloadDropped
    <2>2. CASE broker # "redis"
        BY <1>1, <1>2, <2>2 DEF EncodedTwice, PublishedIsHandled, EncodedAgain
    <2>3. QED
        BY <2>1, <2>2
<1>4. RouteSurvives'
    BY <1>1 DEF RouteSurvives
<1>5. QED
    BY <1>1, <1>3, <1>4, TakeFacts DEF Inv

\* The handler routes by the metadata that the publisher's application gave.
LEMMA HandleStep ==
    ASSUME Inv, NEW w \in wire, NEW p, HandlePayload(w, p),
           p = published.payload \/ (json /\ w.payload.layers > 1)
             \/ (broker = "redis" /\ published.payload.base = "unserializable")
    PROVE  Inv'
<1>1. /\ Take(w) /\ phase' = "handled" /\ UNCHANGED config
      /\ received' = [metadata |-> ReceivedMetadata(w), payload |-> p, id |-> w.id]
    BY DEF HandlePayload, Take
<1>2. IsCopy(w) /\ Options /\ taken' = w /\ UNCHANGED <<broker, json, published, provider>>
    BY <1>1, TakeFacts DEF config
<1>3. received'.metadata = ReceivedMetadata(w) /\ received'.payload = p
    BY <1>1
<1>4. PublishedIsHandled'
    BY <1>1, <1>2, <1>3 DEF PublishedIsHandled, EncodedAgain, PayloadDropped
<1>5. ASSUME broker = "redis" => provider = "prefixed", NEW k \in Keys
      PROVE  \/ RouteKey(ReceivedMetadata(w), k) = RouteKey(Visible, k)
             \/ k \in DOMAIN Visible /\ Rewritten(Visible[k])
    <2>1. w.metadata = WireMetadata
        BY <1>2 DEF IsCopy
    <2>2. CASE broker = "amqp"
        BY <1>2, <2>1, <2>2, AmqpRoute DEF WireMetadata, ReceivedMetadata
    <2>3. CASE broker = "redis"
        BY <1>2, <1>5, <2>1, <2>3, RedisRoute DEF WireMetadata, ReceivedMetadata
    <2>4. CASE broker = "google"
        BY <1>2, <2>1, <2>4, GoogleRoute DEF WireMetadata, ReceivedMetadata
    <2>5. QED
        BY <1>2, <2>2, <2>3, <2>4 DEF Options
<1>6. RouteSurvives'
    <2>1. Visible' = Visible /\ \A v : Rewritten(v)' = Rewritten(v)
        BY <1>1, ConfigKept
    <2>2. QED
        BY <1>2, <1>3, <1>5, <2>1 DEF RouteSurvives
<1>7. QED
    BY <1>1, <1>4, <1>6, TakeFacts DEF Inv

\* The payload of AMQP and Google.
LEMMA HandleBytesStep ==
    ASSUME Inv, HandleBytes PROVE Inv'
<1>1. PICK w \in wire : /\ broker # "redis" /\ ~(json /\ EncodedTwice(w))
                        /\ HandlePayload(w, IF json THEN Decode(w.payload) ELSE w.payload)
    BY DEF HandleBytes
<1>2. IsCopy(w) /\ Options
    BY DEF Inv
<1>3. QED
    BY <1>1, <1>2, BytesOfCopy, HandleStep

\* The payload of Redis.
LEMMA HandleMapStep ==
    ASSUME Inv, HandleMap PROVE Inv'
<1> DEFINE P(w) == IF TextInPlace(w) THEN [base |-> "metadata", layers |-> 0]
                   ELSE Decode(PayloadMap(w)[mapKey][2])
<1>1. PICK w \in wire : broker = "redis" /\ ~KeyMissing(w) /\ HandlePayload(w, P(w))
    BY DEF HandleMap
<1>2. IsCopy(w) /\ Options
    BY DEF Inv
<1>3. CASE published.payload.base = "unserializable"
    <2> HIDE DEF P
    <2>1. QED
        BY <1>1, <1>3, HandleStep
<1>4. CASE published.payload.base # "unserializable"
    <2>1. w.metadata = RedisValues([metadata |-> Sent, payload |-> published.payload])
        BY <1>1, <1>2 DEF IsCopy, WireMetadata
    <2>2. PayloadMap(w)[mapKey] = <<"payload", Encode(published.payload)>>
        BY <1>1, <1>2, <1>4, <2>1, RedisPayload
    <2>3. published.payload = [base |-> published.payload.base, layers |-> 0]
        BY <1>2 DEF Options, Published
    <2>4. Encode(published.payload) = [base |-> published.payload.base, layers |-> 1]
        BY <2>3 DEF Encode
    <2>5. Decode(Encode(published.payload)) = published.payload
        BY <2>3, <2>4 DEF Decode
    <2>6. P(w) = published.payload
        BY <2>2, <2>5 DEF TextInPlace
    <2> HIDE DEF P
    <2>7. QED
        BY <1>1, <2>6, HandleStep
<1>5. QED
    BY <1>3, <1>4

----------------------------------------------------------------------------
\* Every step keeps the invariant.
LEMMA InvNext ==
    Inv /\ [Next]_vars => Inv'
<1> SUFFICES ASSUME Inv, [Next]_vars PROVE Inv'
    OBVIOUS
<1>1. CASE Publish
    BY <1>1, PublishStep
<1>2. CASE PublishRefused
    BY <1>2, PublishRefusedStep
<1>3. CASE PublishFails
    BY <1>3, PublishFailsStep
<1>4. CASE PublishGivesUp
    BY <1>4, PublishGivesUpStep
<1>5. CASE ClientSends
    BY <1>5, ClientStep DEF ClientSends
<1>6. CASE ClientFails
    BY <1>6, ClientStep DEF ClientFails
<1>7. CASE Reject
    BY <1>7, RejectStep
<1>8. CASE HandleMap
    BY <1>8, HandleMapStep
<1>9. CASE HandleBytes
    BY <1>9, HandleBytesStep
<1>10. CASE UNCHANGED vars
    <2>1. UNCHANGED <<config, taken, received, phase>> /\ UNCHANGED <<msg, attempts, paused, pending, wire>>
        BY <1>10 DEF vars, client
    <2>2. RouteSurvives' /\ PublishedIsHandled' /\ Options' /\ Sent' = Sent
        BY <2>1, ReceivedKept, ConfigKept DEF Inv
    <2>3. \A v \in wire' \cup pending' : IsCopy(v)'
        BY <2>1, ConfigKept DEF Inv
    <2>4. MessageKept' /\ PausedAfterTimeout' /\ attempts' \in Nat
        BY <2>1, <2>2 DEF Inv, MessageKept, PausedAfterTimeout, config
    <2>5. QED
        BY <2>2, <2>3, <2>4 DEF Inv
<1>11. QED
    BY <1>1, <1>2, <1>3, <1>4, <1>5, <1>6, <1>7, <1>8, <1>9, <1>10 DEF Next, Terminated

\* The invariant holds in every reachable state.
LEMMA Invariant ==
    Spec => []Inv
<1>1. QED
    BY InvInit, InvNext, PTL DEF Spec

\* However often a message is published, and through whichever broker and options, the
\* subscriber's router reads the key that the publisher's application or its trace
\* middleware put there (headers.go, values.go, google/publisher.go and subscriber.go).
THEOREM RouteKeySurvives ==
    Spec => []RouteSurvives
<1>1. Inv => RouteSurvives
    BY DEF Inv
<1>2. QED
    BY Invariant, <1>1, PTL

\* However often a message is published, the handler gets the payload it was published
\* with, unless a second encoding or a dropped marshalling error explains it (json.go
\* of the three brokers).
THEOREM PayloadArrives ==
    Spec => []PublishedIsHandled
<1>1. Inv => PublishedIsHandled
    BY DEF Inv
<1>2. QED
    BY Invariant, <1>1, PTL

\* However often a message was published and whatever failed, it can be published
\* again: it is refused only for the ID of what the broker has, its context is over only
\* when ContextTimeout has left it, and its ordering key is paused only by a client that
\* failed after Publish had given up (publisher.go of the three brokers,
\* middleware/flow.go).
THEOREM CanBePublishedAgain ==
    Spec => []StillPublishable
<1>1. ASSUME Inv PROVE StillPublishable
    <2>1. SUFFICES ASSUME ~MarshallFails(published), ~Refuses(Prepared(published))
                   PROVE  /\ ~MarshallFails(msg)
                          /\ (~Refuses(Prepared(msg)) /\ ~IDExists(msg)) \/ IDTaken
                          /\ msg.ctxDone => ContextLeft
                          /\ paused => PausedLate
        BY DEF StillPublishable
    <2>2. Options /\ MessageKept /\ attempts \in Nat /\ PausedAfterTimeout
        BY <1>1 DEF Inv
    <2>3. /\ msg.payload.base = published.payload.base
          /\ msg.payload.layers \in Nat /\ published.payload.layers = 0
        BY <2>2 DEF MessageKept, Options, Published
    <2>4. ~MarshallFails(msg)
        BY <2>1, <2>3 DEF MarshallFails, CanMarshal
    <2>5. ~Refuses(Prepared(msg)) \/ IDTaken
        <3>1. CASE broker = "redis"
            BY <3>1 DEF Refuses
        <3>2. CASE broker # "redis"
            <4>1. /\ Prepared(msg).id = msg.id
                  /\ Prepared(msg).payload =
                        [base |-> published.payload.base,
                         layers |-> IF json THEN msg.payload.layers + 1 ELSE msg.payload.layers]
                BY <1>1, <2>4, PreparedFacts
            <4>2. /\ Prepared(published).id = published.id
                  /\ ~json => Prepared(published).payload = published.payload
                <5>1. published \in [metadata : Metadata,
                                     payload : [base : {"value", "bytes", "unserializable"},
                                                layers : {0}],
                                     id : {"", "own"}, ctxDone : BOOLEAN]
                    BY <2>2 DEF Options, Published
                <5>2. QED
                    BY <5>1 DEF Prepared
            <4>3. IsBytes(Prepared(msg).payload)
                <5>1. CASE json
                    BY <2>3, <4>1, <5>1 DEF IsBytes
                <5>2. CASE ~json
                    <6>1. IsBytes(published.payload)
                        BY <2>1, <3>2, <4>2, <5>2 DEF Refuses
                    <6>2. published.payload.base = "bytes"
                        BY <2>3, <6>1 DEF IsBytes
                    <6>3. Prepared(msg).payload.base = "bytes"
                        BY <4>1, <6>2
                    <6>4. QED
                        BY <6>3 DEF IsBytes
                <5>3. QED
                    BY <5>1, <5>2
            <4>4. broker = "google" => msg.id = "" \/ IDTaken
                BY <2>1, <2>2, <4>2 DEF Refuses, MessageKept, IDTaken
            <4>5. QED
                BY <4>1, <4>3, <4>4 DEF Refuses
        <3>3. QED
            BY <3>1, <3>2
    <2>6. ~IDExists(msg) \/ IDTaken
        BY DEF IDExists, IDTaken
    <2>7. msg.ctxDone => ContextLeft
        BY <2>2 DEF MessageKept, ContextLeft
    <2>8. paused => PausedLate
        BY <2>2 DEF PausedAfterTimeout, PausedLate
    <2>9. QED
        BY <2>4, <2>5, <2>6, <2>7, <2>8
<1>2. QED
    BY Invariant, <1>1, PTL
=============================================================================
