---------------------------- MODULE ServerConfig ----------------------------
(***************************************************************************)
(* ServerConfig of server/config: ParseFromArgs reads the options of the   *)
(* command line one after another, and Validate judges the result.         *)
(*                                                                         *)
(* An argument is [option, text].  The text of a number is the sequence of *)
(* its characters, the digits as numbers; that of a list is the sequence   *)
(* of the names between its commas.                                        *)
(***************************************************************************)
EXTENDS Integers, SequencesExt

CONSTANTS
    NumberTexts, ListTexts,   \* what may follow the "=" of an option
    Minus, Letter,            \* the sign, and a character of no number
    EmptyName,
    DefaultExchanges, DefaultInstruments, DefaultPort, DefaultInterval,
    IntMax,                   \* the largest int
    MaxArgs                   \* bound: arguments

ASSUME ConfigAssumption ==
    /\ {Minus, Letter} \cap 0 .. 9 = {}
    /\ \A text \in NumberTexts : text \in Seq(0 .. 9 \cup {Minus, Letter})
    /\ \A text \in ListTexts : text # <<>>
    /\ \A text \in ListTexts \cup {DefaultExchanges, DefaultInstruments} :
           text \in Seq(Range(text))
    /\ IntMax \in Nat /\ MaxArgs \in Nat
    /\ {DefaultPort, DefaultInterval} \subseteq 1 .. IntMax
    /\ DefaultExchanges # <<>> /\ DefaultInstruments # <<>>

VARIABLES
    interval_ms, exchanges, instruments, grpc_port,
    phase,       \* "parse", then "parsed" or "threw", then "valid" or "rejected"
    argv         \* history: the arguments read so far

lists == <<exchanges, instruments>>
vars == <<interval_ms, lists, grpc_port, phase, argv>>

Init ==
    /\ interval_ms = DefaultInterval
    /\ exchanges = <<>> /\ instruments = <<>>
    /\ grpc_port = DefaultPort
    /\ phase = "parse"
    /\ argv = <<>>

-----------------------------------------------------------------------------
(* Numbers.                                                                *)

IsDigit(c) == c \notin {Minus, Letter}

Unsigned(text) == IF text # <<>> /\ text[1] = Minus THEN Tail(text) ELSE text

\* The number of leading digits of a text.
Digits(text) ==
    CHOOSE n \in 0 .. Len(text) :
        /\ \A k \in 1 .. n : IsDigit(text[k])
        /\ n < Len(text) => ~IsDigit(text[n + 1])

\* The digits a number starts with, and the number they spell.
Leading(text) == SubSeq(text, 1, Digits(text))
Value(digits) == FoldLeft(LAMBDA v, d : 10 * v + d, 0, digits)
Signed(text, value) == IF Unsigned(text) = text THEN value ELSE -value

Ints == -(IntMax + 1) .. IntMax

\* Mutant: the range of an int is not tested.
StoiUnbounded(text) ==
    LET digits == Leading(Unsigned(text))
    IN IF digits = <<>> THEN {} ELSE {Signed(text, Value(digits))}

\* std::stoi reads a sign and the digits behind it, and ignores what follows.
\* It throws, and gives no value, without digits and beyond an int.
Stoi(text) ==
    LET digits == Leading(Unsigned(text))
    IN IF digits = <<>> THEN {} ELSE {Signed(text, Value(digits))} \cap Ints

\* "--interval_ms=" has 14 characters, and 15 are cut off: the first one of the
\* text is lost, and substr throws when there is none.
IntervalOf(text) == IF text = <<>> THEN {} ELSE Stoi(Tail(text))

\* Mutant: the cut of the interval, for the port.
PortOfTail(text) == IF text = <<>> THEN {} ELSE Stoi(Tail(text))

PortOf(text) == Stoi(text)

\* std::getline yields the names between commas, but none behind the last.
Names(text) == IF Last(text) = EmptyName THEN Front(text) ELSE text

-----------------------------------------------------------------------------
(* ParseFromArgs.                                                          *)

Given(option, text) ==
    /\ phase = "parse"
    /\ Len(argv) < MaxArgs
    /\ argv' = Append(argv, [option |-> option, text |-> text])

\* A number option: an exception leaves ParseFromArgs.
ParseInterval(text) ==
    /\ Given("interval_ms", text)
    /\ \/ interval_ms' \in IntervalOf(text) /\ UNCHANGED phase
       \/ IntervalOf(text) = {} /\ phase' = "threw" /\ UNCHANGED interval_ms
    /\ UNCHANGED <<lists, grpc_port>>

ParsePort(text) ==
    /\ Given("grpc_port", text)
    /\ \/ grpc_port' \in PortOf(text) /\ UNCHANGED phase
       \/ PortOf(text) = {} /\ phase' = "threw" /\ UNCHANGED grpc_port
    /\ UNCHANGED <<lists, interval_ms>>

\* Mutant: a list replaces the one before.
Replaced(list, text) == Names(text)

\* push_back: a repeated option adds to the list.
Extended(list, text) == list \o Names(text)

ParseExchanges(text) ==
    /\ Given("exchanges", text)
    /\ exchanges' = Extended(exchanges, text)
    /\ UNCHANGED <<interval_ms, instruments, grpc_port, phase>>

ParseInstruments(text) ==
    /\ Given("instruments", text)
    /\ instruments' = Extended(instruments, text)
    /\ UNCHANGED <<interval_ms, exchanges, grpc_port, phase>>

\* An argument that is none of these is passed over.
SkipArg == Given("other", <<>>) /\ UNCHANGED <<interval_ms, lists, grpc_port, phase>>

OrDefault(list, default) == IF list = <<>> THEN default ELSE list

\* The loop has come to argc.
ParseEnds ==
    /\ phase = "parse"
    /\ phase' = "parsed"
    /\ exchanges' = OrDefault(exchanges, DefaultExchanges)
    /\ instruments' = OrDefault(instruments, DefaultInstruments)
    /\ UNCHANGED <<interval_ms, grpc_port, argv>>

Validate ==
    /\ phase = "parsed"
    /\ phase' = IF interval_ms <= 0 \/ exchanges = <<>> \/ instruments = <<>>
                THEN "rejected" ELSE "valid"
    /\ UNCHANGED <<interval_ms, lists, grpc_port, argv>>

Next ==
    \/ \E text \in NumberTexts : ParseInterval(text) \/ ParsePort(text)
    \/ \E text \in ListTexts : ParseExchanges(text) \/ ParseInstruments(text)
    \/ SkipArg \/ ParseEnds \/ Validate

Spec == Init /\ [][Next]_vars

-----------------------------------------------------------------------------
(* Properties.                                                             *)

\* Every variable keeps its type; the numbers are ints.
TypeOK ==
    /\ {interval_ms, grpc_port} \subseteq Ints
    /\ phase \in {"parse", "parsed", "threw", "valid", "rejected"}
    /\ LET names == UNION {Range(text) : text \in
                              ListTexts \cup {DefaultExchanges, DefaultInstruments}}
       IN Range(exchanges) \cup Range(instruments) \subseteq names

Parsed == phase \in {"parsed", "valid", "rejected"}

\* The texts given for an option, in their order.
TextsOf(option) ==
    FlattenSeq([k \in DOMAIN argv |->
                   IF argv[k].option = option THEN <<argv[k].text>> ELSE <<>>])

NonEmpty(names) ==
    FlattenSeq([k \in DOMAIN names |->
                   IF names[k] = EmptyName THEN <<>> ELSE <<names[k]>>])

\* A list holds the names of all uses of its option, in their order, none lost
\* and none doubled; the default stands in for a list that was not given, and
\* only for one, so that no list is empty.
ListAsGiven(option, list, default) ==
    LET given == NonEmpty(FlattenSeq(TextsOf(option)))
    IN /\ list # <<>>
       /\ NonEmpty(list) = given \/ (given = <<>> /\ list = default)

ListsAsGiven ==
    Parsed => /\ ListAsGiven("exchanges", exchanges, DefaultExchanges)
              /\ ListAsGiven("instruments", instruments, DefaultInstruments)

\* The value of a decimal number, by the weights of its digits.
Magnitude(digits) ==
    LET place[k \in DOMAIN digits] ==
            IF k = Len(digits) THEN 1 ELSE 10 * place[k + 1]
    IN SumFunction([k \in DOMAIN digits |-> digits[k] * place[k]])

NumberOf(text) == Signed(text, Magnitude(Unsigned(text)))
IsNumber(text) ==
    /\ Unsigned(text) # <<>>
    /\ \A k \in DOMAIN Unsigned(text) : IsDigit(Unsigned(text)[k])
    /\ NumberOf(text) \in Ints

\* An option whose text is an int does not throw, and its last use gives the
\* value; without it the default stays.
NumberAsGiven(option, value, default) ==
    LET texts == TextsOf(option)
    IN /\ phase = "threw" /\ Last(argv).option = option => ~IsNumber(Last(texts))
       /\ texts = <<>> => value = default
       /\ texts # <<>> /\ IsNumber(Last(texts)) => value = NumberOf(Last(texts))

\* The port is the one given on the command line.
PortAsGiven == NumberAsGiven("grpc_port", grpc_port, DefaultPort)

\* "Parse from command line arguments": the interval is the one given.
IntervalAsGiven == NumberAsGiven("interval_ms", interval_ms, DefaultInterval)

=============================================================================
