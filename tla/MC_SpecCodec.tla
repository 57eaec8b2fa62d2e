---------------------------- MODULE MC_SpecCodec ----------------------------
EXTENDS SpecCodec, ControllerHelpers

\* 10.0.0.1, example.com and host spelled as symbols; Validate also admits
\* a host word with the separator in it, such as "10.0.0.1;80".
IPHost == <<"1", "0", ".", "0", ".", "0", ".", "1">>
NameHost == <<"example", ".", "com">>

MCHostChoices ==
    { [host |-> NameHost, port |-> 443, protocol |-> <<"tcp">>, flow |-> <<"egress">>],
      [host |-> IPHost, port |-> 0, protocol |-> <<>>, flow |-> <<>>],
      [host |-> <<"host">>, port |-> 80, protocol |-> <<>>, flow |-> <<"ingress">>],
      [host |-> <<>>, port |-> 0, protocol |-> <<"udp">>, flow |-> <<"ingress">>],
      [host |-> IPHost \o <<";", "8", "0">>, port |-> 0, protocol |-> <<>>, flow |-> <<>>] }

MCServiceChoices ==
    { [name |-> <<"svc">>, namespace |-> <<"ns">>],
      [name |-> <<"gone">>, namespace |-> <<"ns">>] }

MCExistingServices == {[name |-> <<"svc">>, namespace |-> <<"ns">>]}

MCKnobChoices ==
    [drop : {0, 100}, corrupt : {0, 7}, duplicate : {0},
     delay : {0, 10, 100, 60000}, delayJitter : {0, 1, 50, 100},
     bandwidthLimit : {0, 1000}]

\* The delays and percentages where float64 rounding shows.
MCRoundingKnobs ==
    [drop : {0}, corrupt : {0}, duplicate : {0},
     delay : {100}, delayJitter : {0, 28, 29, 30, 57, 58},
     bandwidthLimit : {0}]

\* Every percentage, and totals of pods or nodes from 1 to a large cluster.
MCPercents == 1..100
MCTotals == {1, 3, 7, 10, 29, 100, 333, 5000}

\* getScaledValueFromIntOrPercent agrees with the exact integer ceiling
\* and floor for every percentage and total above; TLC checks it before
\* each run of this module.
ASSUME ScaledValueExact

\* Selector strings of up to four symbols over letters, a digit, label
\* punctuation and selector operators.
MCAlnum == {"a", "0"}
MCLabelPunct == {"-", "."}
MCModifiedMessage == <<"apply", "latest">>
MCSelectors == UNION {[1..n -> MCAlnum \cup MCLabelPunct \cup {"=", "!"}] : n \in 0..4}

\* validateLabelSelector accepts exactly the selectors with a letter or
\* digit; TLC checks it before each run of this module.
ASSUME LabelSelectorAcceptsAnyAlnum

NoFlow == {<<>>}

NoDeprecatedFlow == {<<>>, <<"egress">>}
====
