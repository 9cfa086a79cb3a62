------------------------------ MODULE Endpoint ------------------------------
(***************************************************************************)
(* The endpoint URLs of endpoint/endpoint.go, and how Tile38 takes the one *)
(* argument SETHOOK joins them into apart again.  A text is a sequence of  *)
(* symbols: the separators of a URL, and words that have none.             *)
(***************************************************************************)
EXTENDS Naturals, FiniteSets, SequencesExt

\* url.QueryEscape and url.QueryUnescape.
Unsafe == {"/", "&", ",", "?", "=", ":", "://", " ", "+", "%"}
Code ==
  [c \in Unsafe |-> CASE c = "/" -> "%2F" [] c = "&" -> "%26" [] c = "," -> "%2C" [] c = "?" -> "%3F"
                     [] c = "=" -> "%3D" [] c = ":" -> "%3A" [] c = "://" -> "%3A%2F%2F"
                     [] c = " " -> "+" [] c = "+" -> "%2B" [] c = "%" -> "%25"]
Plain == [e \in {Code[c] : c \in Unsafe} |-> CHOOSE c \in Unsafe : Code[c] = e]
\* The same sequence, written out once where TLC would evaluate each use of it.
Once(seq) == seq \o <<>>

Through(table, text) ==
  Once([i \in DOMAIN text |-> IF text[i] \in DOMAIN table THEN table[text[i]] ELSE text[i]])
Escape(text) == Through(Code, text)
Unescape(text) == Through(Plain, text)

\* What is before, between and after the symbols at some places.
CutAt(text, places) ==
  LET at == {0, Len(text) + 1} \cup places
      Nth(k) == CHOOSE i \in at : Cardinality({j \in at : j < i}) = k - 1 IN
  Once([k \in 1..Cardinality(at) - 1 |-> SubSeq(text, Nth(k) + 1, Nth(k + 1) - 1)])

Split(text, sep) == CutAt(text, {i \in DOMAIN text : text[i] = sep})

JoinWith(parts, sep) ==
  FlattenSeq([i \in DOMAIN parts |-> (IF i = 1 THEN <<>> ELSE <<sep>>) \o parts[i]])

-----------------------------------------------------------------------------
(* Options.  A later one of a name replaces an earlier one.                *)

NoValues == [n \in {} |-> <<>>]
Values(opts) ==
  [n \in {opts[i][1] : i \in DOMAIN opts} |->
    opts[CHOOSE i \in DOMAIN opts :
           opts[i][1] = n /\ \A j \in DOMAIN opts : opts[j][1] = n => j <= i][2]]

\* Those without an argument, Tile38 reading all but one as a boolean.
OptionFlags == {"ssl", "sha256", "sha512", "internal", "no_wait", "auto_delete", "immediate",
                "mandatory", "createqueue", "secure", "jetstream", "tls"}
Flag(option) == <<option, <<"true">> >>
Retained == <<"retained", <<"1">> >>

\* The others.
DisqueOptions == {"replicate"}
KafkaOptions == {"auth", "ssl", "cacert", "cert", "key", "sha256", "sha512"}
AMQPOptions == {"route", "type", "durable", "internal", "no_wait", "auto_delete", "immediate",
                "mandatory", "delivery_mode", "priority"}
MQTTOptions == {"qos", "retained", "cacert", "cert", "key", "user", "pass"}
SQSOptions == {"credpath", "credprofile", "createqueue"}
PubSubOptions == {"credpath"}
NATSOptions == {"user", "pass", "token", "secure", "credential", "jetstream", "tls", "tlscert",
                "tlskey"}

-----------------------------------------------------------------------------
(* The constructors.                                                       *)

\* Names in some order; Encode sorts them, which no reader sees.
Listed(names) ==
  LET left[k \in 0..Cardinality(names)] ==
        IF k = 0 THEN names ELSE LET rest == left[k - 1] IN rest \ {CHOOSE name \in rest : TRUE} IN
  [k \in 1..Cardinality(names) |-> CHOOSE name \in left[k - 1] : TRUE]

Encode(q) ==
  LET names == Once(Listed(DOMAIN q)) IN
  JoinWith([i \in DOMAIN names |-> <<names[i], "=">> \o Escape(q[names[i]])], "&")

BuildRaw(scheme, host, q, segments) ==  \* mutant: seg instead of url.QueryEscape(seg)
  <<scheme, "://">> \o host \o FlattenSeq([i \in DOMAIN segments |-> <<"/">> \o segments[i]])
  \o (IF DOMAIN q = {} THEN <<>> ELSE <<"?">> \o Encode(q))

Build(scheme, host, q, segments) ==
  <<scheme, "://">> \o host \o FlattenSeq([i \in DOMAIN segments |-> <<"/">> \o Escape(segments[i])])
  \o (IF DOMAIN q = {} THEN <<>> ELSE <<"?">> \o Encode(q))

Local(channel) == Build("local", channel, NoValues, <<>>)
GRPC(host) == Build("grpc", host, NoValues, <<>>)
Redis(host, channel) == Build("redis", host, NoValues, <<channel>>)
Disque(host, queueName, opts) == Build("disque", host, Values(opts), <<queueName>>)
Kafka(brokers, topic, opts) == Build("kafka", JoinWith(brokers, ","), Values(opts), <<topic>>)
AMQP(host, queueName, opts) == Build("amqp", host, Values(opts), <<queueName>>)
AMQPS(host, queueName, opts) == Build("amqps", host, Values(opts), <<queueName>>)
MQTT(host, topic, opts) == Build("mqtt", host, Values(opts), <<topic>>)
MQTTS(host, topic, opts) == Build("mqtts", host, Values(opts), <<topic>>)
SQS(region, queueID, queueName, opts) ==
  Build("sqs", region \o <<":">> \o queueID, Values(opts), <<queueName>>)
PubSub(project, topic, opts) == Build("pubsub", project \o <<":">> \o topic, Values(opts), <<>>)
NATS(host, subject, opts) ==
  Build("nats", IF Contains(host, ":") THEN host ELSE host \o <<":", "4222">>, Values(opts), <<subject>>)
CFQueue(accountID, queueID, apiToken) ==
  Build("cf-queue", accountID, [name \in {"token"} |-> apiToken], <<queueID>>)
EventHub(uri, keyName, key, entityPath) ==
  <<"Endpoint=">> \o uri \o <<";", "SharedAccessKeyName=">> \o keyName
  \o <<";", "SharedAccessKey=">> \o key \o <<";", "EntityPath=">> \o entityPath

\* HookCmd.Endpoint.
BaseAndPath(baseURL, subject) == baseURL \o <<"/">> \o subject

-----------------------------------------------------------------------------
(* Tile38's side, as the comments of endpoint.go have it.                  *)

Invalid == [scheme |-> "invalid"]
HubParts == <<"Endpoint=", "SharedAccessKeyName=", "SharedAccessKey=", "EntityPath=">>

ReadHub(text) ==
  LET parts == Split(text, ";") IN
  IF Len(parts) = 4 /\ \A i \in 1..4 : parts[i] # <<>> /\ parts[i][1] = HubParts[i]
  THEN [scheme |-> "eventhub", parts |-> [i \in 1..4 |-> Tail(parts[i])]] ELSE Invalid

ReadQuery(text) ==
  IF text = <<>> THEN NoValues
  ELSE LET given == Split(text, "&")
           Pair(halves) == << IF halves[1] = <<>> THEN "" ELSE halves[1][1],
                              Unescape(JoinWith(Tail(halves), "=")) >> IN
       Values(Once([i \in DOMAIN given |-> Pair(Split(given[i], "="))]))

\* Which segments are the path: one, all of them, or the last with the rest in the
\* host.
Parts(scheme, before) ==
  LET all == Split(before, "/") IN
  CASE scheme \in {"mqtt", "mqtts"} -> [host |-> all[1], path |-> Unescape(JoinWith(Tail(all), "/"))]
    [] scheme \in {"amqp", "amqps"} /\ Len(all) > 1 ->
         [host |-> JoinWith(Front(all), "/"), path |-> Unescape(Last(all))]
    [] OTHER -> [host |-> all[1], path |-> IF Len(all) > 1 THEN Unescape(all[2]) ELSE <<>>]

Refuses(r) ==
  \/ r.scheme \in {"nats", "sqs", "pubsub"} /\ Len(Split(r.host, ":")) # 2
  \/ r.scheme \in {"disque", "kafka", "amqp", "amqps", "mqtt", "mqtts", "cf-queue"} /\ r.path = <<>>
  \/ "retained" \in DOMAIN r.query /\ r.query["retained"] \notin {<<"0">>, <<"1">>}
  \/ r.scheme = "cf-queue" /\ "token" \notin DOMAIN r.query

Read(text) ==
  IF text # <<>> /\ text[1] = "Endpoint=" THEN ReadHub(text)
  ELSE IF Len(text) < 3 THEN Invalid
  ELSE IF text[2] # "://" THEN Invalid
  ELSE IF text[1] = "http" THEN [scheme |-> "http", url |-> text]
  ELSE LET halves == Split(SubSeq(text, 3, Len(text)), "?")
           parts == Parts(text[1], halves[1])
           r == [scheme |-> text[1], host |-> parts.host, path |-> parts.path,
                 query |-> ReadQuery(JoinWith(Tail(halves), "?"))] IN
       IF Refuses(r) THEN Invalid ELSE r

\* A part of the argument that has no scheme goes on from the one before.
Received(argument) ==
  LET commas == {i \in DOMAIN argument : argument[i] = ","}
      schemes == {i \in DOMAIN argument : argument[i] = "://"}
      urls == CutAt(argument, {c \in commas : \E s \in schemes :
                                 s > c /\ ~\E d \in commas : c < d /\ d < s}) IN
  [i \in DOMAIN urls |-> Read(urls[i])]

-----------------------------------------------------------------------------
(* What a program may give a constructor.                                  *)

Schemes == {"local", "grpc", "redis", "disque", "kafka", "amqp", "amqps", "mqtt", "mqtts", "sqs",
            "pubsub", "nats", "cf-queue"}
Separators == {"/", "&", ",", "?", "=", "://"}

Without(text, marks) == text \in Seq(STRING) /\ \A i \in DOMAIN text : text[i] \notin marks

\* Any text: an escape is a symbol of its own, which what is not escaped has not.
Sayable(text) == Without(text, DOMAIN Plain \ Unsafe)

\* A host is written as it is given, the vhost of a broker with it.
Dials(m) ==
  /\ m.host # <<>>
  /\ Without(m.host, IF m.scheme \in {"amqp", "amqps"} THEN {"?", "://"} ELSE {"?", "://", "/"})

Asks(q) ==
  /\ q \in [DOMAIN q -> Seq(STRING)] /\ IsFiniteSet(DOMAIN q)
  /\ \A name \in DOMAIN q : name \in STRING \ Separators /\ Sayable(q[name])

\* A comma is never followed by a scheme.
OneScheme(url) ==
  /\ \E s \in DOMAIN url : url[s] = "://"
  /\ \A s, c \in DOMAIN url : url[s] = "://" /\ url[c] = "," => s < c

\* A URL as one of the constructors makes it, of what was meant: one the server does
\* not refuse for a part that is missing.
Built(url, m) ==
  /\ m.scheme \in Schemes
  /\ m = [scheme |-> m.scheme, host |-> m.host, path |-> m.path, query |-> m.query]
  /\ Dials(m) /\ Sayable(m.path) /\ Asks(m.query) /\ ~Refuses(m)
  /\ \E segments \in {<<>>, <<m.path>>} :
       (segments = <<>> => m.path = <<>>) /\ url = Build(m.scheme, m.host, m.query, segments)

\* The parts of a connection string are not escaped, and end at semicolons.
BuiltHub(url, m) ==
  /\ m.scheme = "eventhub" /\ url \in Seq(STRING) /\ OneScheme(url)
  /\ m = [scheme |-> m.scheme, parts |-> m.parts]
  /\ m.parts \in Seq(Seq(STRING)) /\ Len(m.parts) = 4 /\ \A i \in 1..4 : Without(m.parts[i], {";"})
  /\ url = EventHub(m.parts[1], m.parts[2], m.parts[3], m.parts[4])

\* An http or https URL is given as it is.
GivenWhole(url, m) ==
  /\ url \in Seq(STRING) /\ OneScheme(url)
  /\ Len(url) >= 3 /\ url[1] = "http" /\ url[2] = "://"
  /\ m = [scheme |-> "http", url |-> url]

Addresses(target) ==
  LET url == target.url
      m == target.meant IN
  Built(url, m) \/ BuiltHub(url, m) \/ GivenWhole(url, m)
=============================================================================
