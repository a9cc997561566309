---------------------------- MODULE NatAnalyzer ----------------------------
(***************************************************************************)
(* frps: pkg/nathole/classify.go and analysis.go, which tell the two ends  *)
(* of an xtcp connection how to punch the hole.                            *)
(*                                                                         *)
(* A behaviour is a mode and an index into the table of that mode; each    *)
(* pair of ends has a record of scores, kept under a key that holds all    *)
(* but PublicNetwork of what was found out about the two.  The best score  *)
(* is taken and lowered, a success raises it.                              *)
(***************************************************************************)
EXTENDS Integers, Sequences, FiniteSets

CONSTANTS Addresses,   \* pairs of the addresses two STUN servers saw an end use
          MaxTries,    \* bound: recommendations of one behaviour by one record
          MaxReports   \* bound: successes one record is told of

(* An address is a host and a port. *)
ASSUME NatAssumption ==
    /\ \A a \in Addresses : a \in Seq([ip : {"x", "y"}, port : Nat])
    /\ MaxTries \in Nat /\ MaxReports \in Nat

VARIABLES
    ends,      \* the addresses of the client and of the visitor
    scores,    \* the record of the two; empty before the first use
    tries,     \* how often each entry was recommended from this record
    answer,    \* the last answer to the two
    reports    \* successes this record has been told of

natVars == <<ends, scores, tries, answer, reports>>

-----------------------------------------------------------------------------
(* ClassifyNATFeature, but for PublicNetwork                               *)

Changed(a, field) == \E i \in DOMAIN a : a[i][field] # a[1][field]

PortsDifference(a) ==
    LET ports == {a[i].port : i \in DOMAIN a}
    IN  (CHOOSE p \in ports : \A q \in ports : p >= q)
        - (CHOOSE p \in ports : \A q \in ports : p <= q)

Hard(a)    == Changed(a, "ip") \/ Changed(a, "port")
Regular(a) == Changed(a, "port") /\ ~Changed(a, "ip") /\ PortsDifference(a) <= 5

-----------------------------------------------------------------------------
(* The tables of behaviours: how many pairs a mode has, and in which of    *)
(* them the first end is told to send; the other end has the other role.   *)
Behaviors == [m \in 0..4 |-> IF m = 0 THEN 10 ELSE IF m \in {1, 3} THEN 6 ELSE 3]

SenderFirst(m, i) ==
    /\ m = 0 => i \notin {2, 4, 6, 9, 10}
    /\ m = 3 => i \notin {4, 5, 6}

(* getBehaviorScoresByMode2 *)
ByMode(m, senderScore, receiverScore) ==
    [i \in 1..Behaviors[m] |->
        [mode |-> m, index |-> i, score |-> IF SenderFirst(m, i) THEN senderScore ELSE receiverScore]]

One(b) == IF b THEN 1 ELSE 0

(* appendMode0, by whether the client and the visitor are in a public network. *)
Mode0(cPublic, vPublic) == ByMode(0, One(~cPublic /\ vPublic), One(cPublic))

(* NewMakeHoleRecords, for addresses and PublicNetwork of client, visitor. *)
NewRecords(c, v, cPublic, vPublic) ==
    LET easy    == Mode0(cPublic, vPublic)
        hard    == One(Hard(c)) + One(Hard(v))
        regular == One(Regular(c)) + One(Regular(v))
    IN  IF hard = 0 THEN easy
        ELSE IF hard = 1 /\ regular = 1 THEN ByMode(1, 0, 0) \o ByMode(2, 0, 0) \o easy
        ELSE IF hard = 1 /\ regular = 0 THEN ByMode(2, 0, 0) \o ByMode(1, 0, 0) \o easy
        ELSE IF hard = 2 /\ regular = 2 THEN ByMode(3, 0, 0) \o ByMode(4, 0, 0)
        ELSE IF hard = 2 /\ regular = 1 THEN ByMode(4, 0, 0)
        ELSE ByMode(0, 1, 1) \o ByMode(1, 1, 1) \o ByMode(3, 1, 1)

WithScore(e, n) == [mode |-> e.mode, index |-> e.index, score |-> n]

(* slices.MaxFunc returns the first of the best; there is just one. *)
IsBest(s, b) ==
    /\ \A j \in DOMAIN s : s[j].score <= s[b].score
    /\ \A j \in 1..(b - 1) : s[j].score < s[b].score

(* Fault: mode 2 is turned round like mode 1. *)
TurnedAlike(m, c) ==
    (m \in {1, 2} /\ ~Hard(c)) \/ (m = 4 /\ ~Regular(c))

(* GetRecommandBehaviors turns a pair round where the mode asks for it. *)
Turned(m, c) ==
    (m = 1 /\ ~Hard(c)) \/ (m = 2 /\ Hard(c)) \/ (m = 4 /\ ~Regular(c))

-----------------------------------------------------------------------------
NatInit ==
    /\ ends \in [client : Addresses, visitor : Addresses]
    /\ scores = <<>> /\ tries = <<>>
    /\ answer = [mode |-> 0, clientSends |-> FALSE, sent |-> FALSE]
    /\ reports = 0

(* Fault: the score of what was recommended stays. *)
RecommandSame(cPublic, vPublic) ==
    LET s == IF scores = <<>> THEN NewRecords(ends.client, ends.visitor, cPublic, vPublic) ELSE scores
        t == IF scores = <<>> THEN [i \in DOMAIN s |-> 0] ELSE tries
    IN  \E b \in DOMAIN s :
        /\ IsBest(s, b)
        /\ \A i \in DOMAIN t : t[i] < MaxTries
        /\ scores' = s
        /\ tries' = [t EXCEPT ![b] = @ + 1]
        /\ answer' = [mode |-> s[b].mode, sent |-> TRUE,
                      clientSends |-> SenderFirst(s[b].mode, s[b].index) # Turned(s[b].mode, ends.client)]
        /\ UNCHANGED <<ends, reports>>

(* Whether an end is in a public network may differ from call to call. *)
Recommand(cPublic, vPublic) ==
    LET s == IF scores = <<>> THEN NewRecords(ends.client, ends.visitor, cPublic, vPublic) ELSE scores
        t == IF scores = <<>> THEN [i \in DOMAIN s |-> 0] ELSE tries
    IN  \E b \in DOMAIN s :
        /\ IsBest(s, b)
        /\ \A i \in DOMAIN t : t[i] < MaxTries
        /\ scores' = [s EXCEPT ![b] = WithScore(@, @.score - 1)]
        /\ tries' = [t EXCEPT ![b] = @ + 1]
        /\ answer' = [mode |-> s[b].mode, sent |-> TRUE,
                      clientSends |-> SenderFirst(s[b].mode, s[b].index) # Turned(s[b].mode, ends.client)]
        /\ UNCHANGED <<ends, reports>>

ReportSuccess(i) ==
    /\ tries[i] > 0 /\ reports < MaxReports
    /\ scores' = [scores EXCEPT ![i] = WithScore(@, IF @.score + 2 > 10 THEN 10 ELSE @.score + 2)]
    /\ reports' = reports + 1
    /\ UNCHANGED <<ends, tries, answer>>

(* The record was not used for dataReserveDuration. *)
Clean ==
    /\ scores # <<>>
    /\ scores' = <<>> /\ tries' = <<>>
    /\ reports' = 0
    /\ UNCHANGED <<ends, answer>>

NatNext ==
    \/ \E cPublic, vPublic \in BOOLEAN : Recommand(cPublic, vPublic)
    \/ \E i \in DOMAIN tries : ReportSuccess(i)
    \/ Clean

NatSpec == NatInit /\ [][NatNext]_natVars

-----------------------------------------------------------------------------
NatTypeOK ==
    /\ ends \in [client : Addresses, visitor : Addresses]
    /\ \A i \in DOMAIN scores : scores[i].mode \in 0..4 /\ scores[i].score \in Int
    /\ DOMAIN tries = DOMAIN scores
    /\ reports \in 0..MaxReports

(* The roles the comments of the tables promise hold for what is sent to   *)
(* the two ends, whoever of them is the client: in mode 1 the end behind a *)
(* HardNAT sends, in mode 2 it receives, in mode 4 the end whose ports     *)
(* change regularly sends.                                                 *)
RolesFit ==
    LET c == ends.client
        v == ends.visitor
    IN  answer.sent =>
            /\ answer.mode = 1 /\ Hard(c) # Hard(v) => answer.clientSends = Hard(c)
            /\ answer.mode = 2 /\ Hard(c) # Hard(v) => answer.clientSends = Hard(v)
            /\ answer.mode = 4 /\ Regular(c) # Regular(v) => answer.clientSends = Regular(c)

(* As long as nothing succeeds, no behaviour of the record is tried a      *)
(* third time before every other one has been tried.                       *)
TriesSpread ==
    reports = 0 => \A i, j \in DOMAIN tries : tries[i] <= tries[j] + 2
=============================================================================
