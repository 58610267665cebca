------------------------------ MODULE CallRecords ------------------------------
(***************************************************************************)
(* esl-resilience: the event handlers of server.go and the table cdr they  *)
(* keep (cdr/repository.go).                                               *)
(*                                                                         *)
(* The client handles events one at a time; those that met a full channel  *)
(* wait in the buffer and come late, and some never come.  A handler's     *)
(* statement may fail, and nobody tries it again.  The table is made       *)
(* outside the program: init.sql leaves out two columns CreateCDR writes   *)
(* and the key AddMetadata relies on, so both fail on that table.  Names,  *)
(* numbers, causes, times and durations are left out.                      *)
(***************************************************************************)
EXTENDS Naturals, FiniteSets, SequencesExt

CONSTANTS Channels, NoRow

ASSUME CallRecordsAssumption == NoRow \notin [answered : BOOLEAN, ended : BOOLEAN]

VARIABLES
  complete,  \* the table cdr has every column and key the code relies on
  sent,      \* how many of its Events FreeSWITCH has sent of a channel
  inFlight,  \* events sent, not handled and not lost: pairs of channel and name
  cdrs,      \* the table: the row of each channel, or NoRow
  noted,     \* channels with a row in call_metadata
  handled,   \* history: for each channel the events whose statement was executed
  stats      \* GetCallStatistics: what it has counted, and the records made since

callRecordsVars == <<complete, sent, inFlight, cdrs, noted, handled, stats>>

Sequence == <<"CHANNEL_CREATE", "CHANNEL_ANSWER", "CHANNEL_HANGUP_COMPLETE">>
(* GetActiveCalls. *)
Open == {c \in Channels : cdrs[c] # NoRow /\ ~cdrs[c].ended}
InStore == {c \in Channels : cdrs[c] # NoRow}
NotCounting == [at |-> "idle", total |-> 0, active |-> 0, since |-> 0]

CallRecordsInit ==
  /\ complete \in BOOLEAN
  /\ sent = [c \in Channels |-> 0] /\ inFlight = {}
  /\ cdrs = [c \in Channels |-> NoRow] /\ noted = {}
  /\ handled = [c \in Channels |-> <<>>]
  /\ stats = NotCounting

-----------------------------------------------------------------------------
(* FreeSWITCH sends the events of a channel in turn; a call may end        *)
(* unanswered.                                                             *)
Send(c) ==
  \E n \in sent[c] + 1 .. 3 :
    /\ n = sent[c] + 1 \/ sent[c] = 1
    /\ sent' = [sent EXCEPT ![c] = n]
    /\ inFlight' = inFlight \cup {<<c, Sequence[n]>>}
    /\ UNCHANGED <<complete, cdrs, noted, handled, stats>>
(* Lost with the connection, dropped by the buffer, or the id is no UUID.  *)
Lose(c, e) ==
  /\ <<c, e>> \in inFlight
  /\ inFlight' = inFlight \ {<<c, e>>}
  /\ UNCHANGED <<complete, sent, cdrs, noted, handled, stats>>

(* The insert: the channel's id is the key, and a row that is there gets   *)
(* the new, empty times.                                                   *)
NewRow == [answered |-> FALSE, ended |-> FALSE]
CreateCDR(c) ==
  /\ complete
  /\ cdrs' = [cdrs EXCEPT ![c] = NewRow]
  /\ stats' = IF stats.at = "counted" /\ cdrs[c] = NoRow
              THEN [stats EXCEPT !.since = @ + 1] ELSE stats
(* The update of every row with this channel: none is no error.            *)
UpdateAnyRow(c, field) ==
  /\ cdrs' = [cdrs EXCEPT ![c] = [(IF @ = NoRow THEN NewRow ELSE @) EXCEPT ![field] = TRUE]]
  /\ UNCHANGED stats
UpdateCDR(c, field) ==
  /\ cdrs' = [cdrs EXCEPT ![c] = IF @ = NoRow THEN @ ELSE [@ EXCEPT ![field] = TRUE]]
  /\ UNCHANGED stats

OnCreate(c) == CreateCDR(c) /\ handled' = [handled EXCEPT ![c] = Append(@, "CHANNEL_CREATE")]
OnAnswer(c) ==
  UpdateCDR(c, "answered") /\ handled' = [handled EXCEPT ![c] = Append(@, "CHANNEL_ANSWER")]
OnHangup(c) ==
  UpdateCDR(c, "ended") /\ handled' = [handled EXCEPT ![c] = Append(@, "CHANNEL_HANGUP_COMPLETE")]

(* The handler registered for the event, or its statement failed.          *)
HandleEvent(c, e) ==
  /\ <<c, e>> \in inFlight
  /\ inFlight' = inFlight \ {<<c, e>>}
  /\ \/ e = "CHANNEL_CREATE" /\ OnCreate(c)
     \/ e = "CHANNEL_ANSWER" /\ OnAnswer(c)
     \/ e = "CHANNEL_HANGUP_COMPLETE" /\ OnHangup(c)
     \/ UNCHANGED <<cdrs, handled, stats>>
  /\ UNCHANGED <<complete, sent, noted>>

-----------------------------------------------------------------------------
(* A note on a record: the record must be there, and an old note is        *)
(* replaced.                                                               *)
AddMetadata(c) ==
  /\ complete /\ c \in InStore
  /\ noted' = noted \cup {c}
  /\ UNCHANGED <<complete, sent, inFlight, cdrs, handled, stats>>

(* GetCallStatistics: the total, then the active calls, a query each.      *)
CountTotal ==
  /\ stats.at # "counted"
  /\ stats' = [at |-> "counted", total |-> Cardinality(InStore), active |-> 0, since |-> 0]
  /\ UNCHANGED <<complete, sent, inFlight, cdrs, noted, handled>>
CountActive ==
  /\ stats.at = "counted"
  /\ stats' = [stats EXCEPT !.at = "reported", !.active = Cardinality(Open)]
  /\ UNCHANGED <<complete, sent, inFlight, cdrs, noted, handled>>

CallRecordsNext ==
  \/ \E c \in Channels :
       \/ Send(c) \/ AddMetadata(c)
       \/ \E i \in DOMAIN Sequence : HandleEvent(c, Sequence[i]) \/ Lose(c, Sequence[i])
  \/ CountTotal \/ CountActive

CallRecordsSpec == CallRecordsInit /\ [][CallRecordsNext]_callRecordsVars

-----------------------------------------------------------------------------
CallRecordsTypeOK ==
  /\ complete \in BOOLEAN /\ sent \in [Channels -> 0 .. 3]
  /\ inFlight \subseteq Channels \X ToSet(Sequence)
  /\ cdrs \in [Channels -> [answered : BOOLEAN, ended : BOOLEAN] \cup {NoRow}]
  /\ noted \subseteq InStore
  /\ \A c \in Channels : IsInjective(handled[c])
  /\ stats.at \in {"idle", "counted", "reported"}

(* e was handled, and the record was there by then. *)
After(c, e) ==
  LET h == handled[c] IN
  \E i, j \in DOMAIN h : i < j /\ h[i] = "CHANNEL_CREATE" /\ h[j] = e
(* A call has a record iff its CREATE was stored, and the record says of   *)
(* the call what was handled after that: a call is listed as active until  *)
(* its hang-up is stored, and for good if the hang-up came first or was    *)
(* lost; an ended record is never open again; and the statistics report    *)
(* more active calls than calls only by those that began meanwhile.        *)
CallsRecorded ==
  /\ CallRecordsTypeOK
  /\ \A c \in Channels :
       /\ c \in InStore <=> "CHANNEL_CREATE" \in ToSet(handled[c])
       /\ c \in InStore => /\ cdrs[c].answered = After(c, "CHANNEL_ANSWER")
                          /\ cdrs[c].ended = After(c, "CHANNEL_HANGUP_COMPLETE")
  /\ ~complete => InStore = {} /\ noted = {}
  /\ stats.at = "reported" => stats.active <= stats.total + stats.since
=============================================================================
