----------------------------- MODULE MCBuilders -----------------------------
(* A bounded instance of Builders.                                          *)
EXTENDS Builders, TLC

\* Filters; areas with and without a radius, among them the two that are outputs as
\* well; formats that render to two clauses, to one and to none; what a SET takes.
Words == {"WHERE", "BUFFER", "META", "ENDPOINT", "POINT", "ROAM", "BOUNDS", "A5", "IDS",
          "DISTANCE", "STRINGS", "FIELD", "EX"}

\* Text with every separator there is.
Odd == <<"/", "&", ",", "?", "=", ":", " ">>
Comma == <<"&", ",">>
Host == <<"h", ":", "1">>

\* Every option of a scheme, and what Tile38 makes of them.
Every(options) ==
  FoldSet(LAMBDA o, all :
            Append(all, CASE o = "retained" -> Url!Retained [] o \in Url!OptionFlags -> Url!Flag(o)
                          [] OTHER -> <<o, Comma>>),
          <<>>, options)
Made(options) ==
  [o \in options |-> CASE o = "retained" -> <<"1">> [] o \in Url!OptionFlags -> <<"true">> [] OTHER -> Comma]

To(url, scheme, host, path, query) ==
  [url |-> url, meant |-> [scheme |-> scheme, host |-> host, path |-> path, query |-> query]]

URLs ==
  <<To(Url!NATS(<<"h">>, Odd, Every(Url!NATSOptions)), "nats", <<"h", ":", "4222">>, Odd,
      Made(Url!NATSOptions)),
   To(Url!Kafka(<<Host, <<"k">>>>, Odd, Every(Url!KafkaOptions)), "kafka", Host \o <<",", "k">>, Odd,
      Made(Url!KafkaOptions)),
   To(Url!MQTT(Host, Odd, << <<"qos", <<"1">>>> >> \o Every(Url!MQTTOptions)), "mqtt", Host, Odd,
      Made(Url!MQTTOptions)),
   To(Url!AMQPS(Host \o <<"/", "v">>, <<"q">>, Every(Url!AMQPOptions)), "amqps", Host \o <<"/", "v">>,
      <<"q">>, Made(Url!AMQPOptions)),
   To(Url!AMQP(Host, Odd, <<>>), "amqp", Host, Odd, Url!NoValues),
   To(Url!MQTTS(Host, Odd, <<>>), "mqtts", Host, Odd, Url!NoValues),
   To(Url!GRPC(Host), "grpc", Host, <<>>, Url!NoValues),
   To(Url!SQS(<<"eu">>, <<"1">>, Odd, Every(Url!SQSOptions)), "sqs", <<"eu", ":", "1">>, Odd,
      Made(Url!SQSOptions)),
   To(Url!PubSub(<<"p">>, <<"t">>, Every(Url!PubSubOptions)), "pubsub", <<"p", ":", "t">>, <<>>,
      Made(Url!PubSubOptions)),
   To(Url!Disque(Host, Odd, Every(Url!DisqueOptions)), "disque", Host, Odd, Made(Url!DisqueOptions)),
   To(Url!Redis(Host, Odd), "redis", Host, Odd, Url!NoValues),
   To(Url!CFQueue(<<"h">>, <<"q">>, Odd), "cf-queue", <<"h">>, <<"q">>, "token" :> Odd),
   To(Url!Local(<<"c">>), "local", <<"c">>, <<>>, Url!NoValues),
   [url |-> Url!EventHub(<<"sb", "://", "h", "/">>, <<"n">>, <<"k", "+", "=">>, <<"p">>),
    meant |-> [scheme |-> "eventhub",
               parts |-> << <<"sb", "://", "h", "/">>, <<"n">>, <<"k", "+", "=">>, <<"p">> >>]],
   [url |-> Url!BaseAndPath(<<"http", "://", "h">>, <<"p">>),
    meant |-> [scheme |-> "http", url |-> <<"http", "://", "h", "/", "p">>]]>>

\* By name, for TLC to evaluate the list once.
SomeTargets == URLs

Symmetry == Permutations(Handles)
=============================================================================
