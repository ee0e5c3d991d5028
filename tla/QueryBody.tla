----------------------------- MODULE QueryBody -----------------------------
(***************************************************************************)
(* record_batch_stream_to_body of influxdb3_server/src/http.rs: the body   *)
(* of the answer to a query, made from the stream of record batches that   *)
(* the query executor returns.                                             *)
(*                                                                         *)
(* The formats Pretty and Parquet read the whole stream before there is an *)
(* answer, so that an error of the stream is the status of the answer.     *)
(* The formats Csv, Json and JsonLines answer at once with a body that     *)
(* polls the stream as the client reads: one chunk per batch, and an error *)
(* of the stream breaks the body off after the status has gone out.        *)
(*                                                                         *)
(* A batch is its number of rows and whether the writers take it.  A chunk *)
(* is the sequence of what is written: "row" for a row, and "[", ",", "]"  *)
(* and "header" for what the writers put around the rows.  A stream is the *)
(* sequence of what it answers the polls with before it ends.  The polls   *)
(* of a body touch nothing but the body, so the body is read in one step.  *)
(***************************************************************************)
EXTENDS HttpApi

LOCAL SeqQ == INSTANCE SequencesExt
LOCAL SetQ == INSTANCE FiniteSetsExt

CONSTANT QueryStreams       \* the streams the query executor returns

\* What a poll of the executor's stream is answered with
Batch(rows, writable) == [kind |-> "batch", rows |-> rows, writable |-> writable]
Failed == [kind |-> "error"]
End    == [kind |-> "end"]

\* What a poll of the body leaves and yields: Ok(chunk), Err(error), or NONE
\* at the end of the body
Step(state, yields) == [state |-> state, yields |-> yields]

Rows(n) == [i \in 1..n |-> "row"]

-----------------------------------------------------------------------------
(* The writers of arrow_json and arrow_csv, by what they write of a batch   *)

\* arrow_json::ArrayWriter, written to and never finished: "[" and the rows
\* with "," between them; nothing of a batch without rows
ArrayWrite(n) ==
    IF n = 0 THEN <<>>
    ELSE <<"[", "row">> \o SeqQ!FlattenSeq([i \in 1..(n - 1) |-> <<",", "row">>])

\* JsonMiddle: the format whose start_row puts "," before every row
JsonMiddle(n) == SeqQ!FlattenSeq([i \in 1..n |-> <<",", "row">>])

\* arrow_csv::Writer: the header before the first batch it writes, unless
\* it is built with_header(false)
CsvWrite(with_header, n) == (IF with_header THEN <<"header">> ELSE <<>>) \o Rows(n)

-----------------------------------------------------------------------------
(* The bodies that poll the stream, one definition per poll function        *)

JsonStates == {"FirstPoll", "Body", "Done"}

JsonPollWritesEmptyBatch(state, polled) ==
    CASE polled.kind = "error" -> Step(state, Err("Datafusion"))
      [] polled.kind = "end" /\ state = "FirstPoll" -> Step("Done", Ok(<<"[", "]">>))
      [] polled.kind = "end" /\ state = "Body" -> Step("Done", Ok(<<"]">>))
      [] polled.kind = "end" -> Step(state, NONE)
      [] state = "Done" -> Step(state, Err("Panic"))
      [] ~polled.writable -> Step(state, Err("Datafusion"))
      [] state = "FirstPoll" -> Step("Body", Ok(ArrayWrite(polled.rows)))
      [] OTHER -> Step(state, Ok(JsonMiddle(polled.rows)))

\* JsonFuture::poll.  The first batch with rows opens the array; the batches
\* before it are passed over, those after it go on with ","; the end of the
\* stream closes the array, or is the whole of it, and the poll after that
\* ends the body.  A batch from a stream that had ended is unreachable!().
JsonPoll(state, polled) ==
    CASE polled.kind = "error" -> Step(state, Err("Datafusion"))
      [] polled.kind = "end" /\ state = "FirstPoll" -> Step("Done", Ok(<<"[", "]">>))
      [] polled.kind = "end" /\ state = "Body" -> Step("Done", Ok(<<"]">>))
      [] polled.kind = "end" -> Step(state, NONE)
      [] state = "Done" -> Step(state, Err("Panic"))
      [] state = "FirstPoll" /\ polled.rows = 0 -> Step(state, Ok(<<>>))
      [] ~polled.writable -> Step(state, Err("Datafusion"))
      [] state = "FirstPoll" -> Step("Body", Ok(ArrayWrite(polled.rows)))
      [] OTHER -> Step(state, Ok(JsonMiddle(polled.rows)))

\* CsvFuture::poll: first_poll is over with the first batch, written or not
CsvPoll(first_poll, polled) ==
    CASE polled.kind = "error" -> Step(first_poll, Err("Datafusion"))
      [] polled.kind = "end" -> Step(first_poll, NONE)
      [] ~polled.writable -> Step(FALSE, Err("Datafusion"))
      [] OTHER -> Step(FALSE, Ok(CsvWrite(first_poll, polled.rows)))

\* The poll function of JsonLines: a writer of its own for every batch
JsonLinesPoll(polled) ==
    CASE polled.kind = "error" -> Step(NONE, Err("Datafusion"))
      [] polled.kind = "end" -> Step(NONE, NONE)
      [] ~polled.writable -> Step(NONE, Err("Datafusion"))
      [] OTHER -> Step(NONE, Ok(Rows(polled.rows)))

-----------------------------------------------------------------------------
(* The formats that read the stream to its end first.  Their state is what  *)
(* the answer depends on; nothing is yielded before the end.                *)

\* Pretty: try_collect, then pretty_format_batches of all the batches
PrettyPoll(formattable, polled) ==
    CASE polled.kind = "error" -> Step(formattable, Err("Datafusion"))
      [] polled.kind = "batch" -> Step(formattable /\ polled.writable, Ok(<<>>))
      [] ~formattable -> Step(formattable, Err("Arrow"))
      [] OTHER -> Step(formattable, NONE)

\* Parquet: a stream without a batch is an empty body; else a
\* TrackedMemoryArrowWriter with the schema of the first batch takes every
\* batch, rows or none, and is closed.
ParquetPoll(writer, polled) ==
    CASE polled.kind = "error" -> Step(writer, Err("Datafusion"))
      [] polled.kind = "end" -> Step(writer, NONE)
      [] ~polled.writable -> Step(TRUE, Err("Persister"))
      [] OTHER -> Step(TRUE, Ok(<<>>))

-----------------------------------------------------------------------------

\* The formats whose answer has gone out when the stream is polled
Streamed == {"csv", "json", "jsonl"}

\* What record_batch_stream_to_body starts with: the state of the format,
\* and nothing sent
record_batch_stream_to_body(format) ==
    [format |-> format,
     state  |-> CASE format = "json" -> "FirstPoll"
                  [] format = "csv" -> TRUE
                  [] format = "jsonl" -> NONE
                  [] format = "pretty" -> TRUE
                  [] format = "parquet" -> FALSE,
     sent   |-> <<>>]

\* One poll of the body
BodyPoll(body, polled) ==
    CASE body.format = "json" -> JsonPoll(body.state, polled)
      [] body.format = "csv" -> CsvPoll(body.state, polled)
      [] body.format = "jsonl" -> JsonLinesPoll(polled)
      [] body.format = "pretty" -> PrettyPoll(body.state, polled)
      [] body.format = "parquet" -> ParquetPoll(body.state, polled)

\* The body is polled until it ends or breaks: the stream answers with
\* what it holds, in order, and then with its end, as often as it is asked.
RECURSIVE Read(_, _)
Read(body, stream) ==
    LET polled == IF stream = <<>> THEN End ELSE Head(stream)
        step   == BodyPoll(body, polled)
    IN  CASE step.yields = NONE -> [body |-> body, outcome |-> "complete"]
          [] ~IsOk(step.yields) -> [body |-> body, outcome |-> step.yields.err]
          [] OTHER -> Read([body EXCEPT !.state = step.state, !.sent = @ \o step.yields.val],
                           IF stream = <<>> THEN stream ELSE Tail(stream))

\* The bodies of the streams, read, in every format
Bodies ==
    [format \in QueryFormats |->
        [stream \in QueryStreams |-> Read(record_batch_stream_to_body(format), stream)]]

\* The status of the answer: 200 once a body that polls the stream is
\* made, and of the other formats if the stream could be read to its end
QueryStatus(format, outcome) ==
    IF format \in Streamed \/ outcome = "complete" THEN 200
    ELSE ErrorStatus(Error(outcome, NONE))

\* The statuses a query may be answered with in a format, over the streams
QueryStatuses ==
    [format \in QueryFormats |->
        {QueryStatus(format, Bodies[format][stream].outcome) : stream \in QueryStreams}]

-----------------------------------------------------------------------------
(* Properties *)

\* The batches of a stream that a body takes: those before the stream fails
\* or a writer refuses one
Taken(stream) ==
    LET refused == {i \in DOMAIN stream : stream[i].kind = "error" \/ ~stream[i].writable}
    IN  IF refused = {} THEN stream ELSE SubSeq(stream, 1, SetQ!Min(refused) - 1)

\* What a body must be, given the number of rows taken, whether a batch was
\* taken and whether the stream was read to its end: in JSON one array of
\* the rows, begun with the first row and closed at the end; in CSV the
\* header once, if there was a batch, and then the rows; in JSON lines the
\* rows.
ExpectedBody(format, rows, batches, ended) ==
    LET array == IF rows = 0 THEN <<>>
                 ELSE <<"[">> \o [i \in 1..(2 * rows - 1) |-> IF i % 2 = 1 THEN "row" ELSE ","]
    IN  CASE format = "json" /\ ended -> (IF rows = 0 THEN <<"[">> ELSE array) \o <<"]">>
          [] format = "json" -> array
          [] format = "csv" -> IF batches THEN <<"header">> \o Rows(rows) ELSE <<>>
          [] format = "jsonl" -> Rows(rows)

\* The body of a stream in a format is what it must be
IsWellFormed(format, stream) ==
    Bodies[format][stream].body.sent =
        ExpectedBody(format,
                     SeqQ!FoldLeft(LAMBDA rows, batch : rows + batch.rows, 0, Taken(stream)),
                     Taken(stream) # <<>>,
                     Taken(stream) = stream)


\* The formats whose body is what it must be, whatever the stream
WellFormedFormats ==
    {format \in Streamed : \A stream \in QueryStreams : IsWellFormed(format, stream)}

=============================================================================
