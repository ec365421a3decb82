-------------------------------- MODULE Rest ----------------------------------
(***************************************************************************)
(* The REST interface of a GSP and its client: RestApi answers GET         *)
(* requests from the state of the game at that moment; a RestClient's      *)
(* Request object takes the answer piece by piece, uncompresses and parses *)
(* it, and may be used for one request after the other.                    *)
(*                                                                         *)
(* A text is abstracted to what it stands for; a body is a sequence of two *)
(* pieces of a text, each of them possibly in gzip format.                 *)
(***************************************************************************)
EXTENDS Naturals, Sequences

CONSTANTS MaxStates,      \* bound on changes of the game's state
          MaxSends,        \* bound on requests
          NoJson, NoText

VARIABLES api,      \* [up: daemon, gzip: what Process does with results]
          state,    \* of the game: [version, upToDate]
          request,  \* the Request: [phase, path, type, data, json, errors]
          answer,   \* what the server gave for it, and how much has come
          sends

restVars == <<api, state, request, answer, sends>>

Paths == {"/state", "/healthz", "/other"}
TextPlain == [name |-> "text/plain", gzip |-> FALSE, given |-> TRUE]
Json == [TextPlain EXCEPT !.name = "application/json"]

Pieces(text, gzip) == [part \in 1..2 |-> [text |-> text, part |-> part, gzip |-> gzip]]

\* A Request as it is constructed.
NewRequest == [phase |-> "new", path |-> "", type |-> TextPlain, data |-> <<>>,
               json |-> NoJson, errors |-> 0]

RestInit ==
    /\ api \in [up : BOOLEAN, gzip : BOOLEAN]
    /\ state \in [version : {0}, upToDate : BOOLEAN]
    /\ request = NewRequest
    /\ answer = [code |-> 0, type |-> TextPlain, body |-> <<>>, sent |-> 0, text |-> NoText]
    /\ sends = 0

----------------------------------------------------------------------------
(* RestApi.                                                                *)

Answer(code, type, text, gzip) ==
    [code |-> code, type |-> [type EXCEPT !.gzip = gzip], body |-> Pieces(text, gzip),
     sent |-> 0, text |-> text]

\* HandleState: the JSON of GetNullJsonState.
HandleState == Answer(200, Json, <<"state", state.version>>, api.gzip)

\* HandleHealthz: IsHealthy or an HttpError.
HandleHealthz ==
    IF state.upToDate THEN Answer(200, TextPlain, <<"ok", 0>>, FALSE)
    ELSE Answer(500, TextPlain, <<"not ok", 0>>, FALSE)

\* Callbacks::Request with Process, which matches the endpoints in turn.
HandleRequest(path, method) ==
    IF method # "GET" THEN Answer(405, TextPlain, <<"only GET", 0>>, FALSE)
    ELSE CASE path = "/state" -> HandleState
           [] path = "/healthz" -> HandleHealthz
           [] OTHER -> Answer(404, TextPlain, <<"not found", 0>>, FALSE)

StartApi ==
    /\ ~api.up
    /\ api' = [api EXCEPT !.up = TRUE]
    /\ UNCHANGED <<state, request, answer, sends>>

\* MHD_stop_daemon; a transfer that is under way fails (see TransferFails).
StopApi ==
    /\ api.up
    /\ api' = [api EXCEPT !.up = FALSE]
    /\ UNCHANGED <<state, request, answer, sends>>

GameChanges(upToDate) ==
    /\ state.version < MaxStates
    /\ state' = [version |-> state.version + 1, upToDate |-> upToDate]
    /\ UNCHANGED <<api, request, answer, sends>>

----------------------------------------------------------------------------
(* RestClient::Request.                                                    *)

\* Mutant: the buffer still has the data of the last request.
ClearedNot(r) == r

\* The buffer is cleared; type, JSON value and errors are not.
Cleared(r) == [r EXCEPT !.data = <<>>]

Idle == request.phase \notin {"transfer"}

Send(path) ==
    /\ Idle /\ sends < MaxSends
    /\ sends' = sends + 1
    /\ IF api.up
       THEN /\ request' = [Cleared(request) EXCEPT !.phase = "transfer", !.path = path]
            /\ answer' = HandleRequest(path, "GET")
       ELSE /\ request' = [Cleared(request) EXCEPT !.phase = "failed", !.path = path,
                                                   !.errors = @ + 1]
            /\ UNCHANGED answer
    /\ UNCHANGED <<api, state>>

WriteCallback ==
    /\ request.phase = "transfer" /\ answer.sent < Len(answer.body)
    /\ request' = [request EXCEPT !.data = Append(@, answer.body[answer.sent + 1])]
    /\ answer' = [answer EXCEPT !.sent = @ + 1]
    /\ UNCHANGED <<api, state, sends>>

Fails(r) == [r EXCEPT !.phase = "failed", !.errors = @ + 1]

\* curl_easy_perform returns an error.
TransferFails ==
    /\ request.phase = "transfer"
    /\ request' = Fails(request)
    /\ UNCHANGED <<api, state, answer, sends>>

\* A server that is not ours leaves out the type, cuts off a gzip stream or
\* sends what is not JSON.
OtherServer(type, body) ==
    /\ request.phase = "transfer" /\ answer.sent = 0
    /\ answer' = [answer EXCEPT !.code = 200, !.type = type, !.body = body, !.text = NoText]
    /\ UNCHANGED <<api, state, request, sends>>

Whole(data) == Len(data) = 2

\* ProcessGzip on the type as received: the suffix goes and the data is
\* uncompressed, unless the stream is not complete.
ProcessGzip(r) ==
    IF ~r.type.gzip THEN r
    ELSE IF ~Whole(r.data) \/ \E i \in DOMAIN r.data : ~r.data[i].gzip THEN Fails(r)
    ELSE [r EXCEPT !.type.gzip = FALSE,
                   !.data = [i \in DOMAIN r.data |-> [r.data[i] EXCEPT !.gzip = FALSE]]]

\* ProcessJson: only for the JSON type, and only if all of it parses.
ProcessJson(r) ==
    IF r.phase = "failed" \/ r.type.name # "application/json" THEN r
    ELSE IF Whole(r.data) /\ r.data = Pieces(r.data[1].text, FALSE) /\ r.data[1].text # NoText
    THEN [r EXCEPT !.json = r.data[1].text]
    ELSE Fails(r)

ProcessData(r) ==
    LET done == ProcessJson(ProcessGzip(r))
    IN  IF done.phase = "failed" THEN done ELSE [done EXCEPT !.phase = "ok"]

\* The end of Send once the transfer is complete.
SendReturns ==
    /\ request.phase = "transfer" /\ answer.sent = Len(answer.body)
    /\ request' = IF answer.code # 200 \/ ~answer.type.given THEN Fails(request)
                  ELSE ProcessData([request EXCEPT !.type = answer.type])
    /\ UNCHANGED <<api, state, answer, sends>>

RestNext ==
    \/ StartApi \/ StopApi
    \/ \E upToDate \in BOOLEAN : GameChanges(upToDate)
    \/ \E path \in Paths : Send(path)
    \/ WriteCallback \/ TransferFails \/ SendReturns
    \/ OtherServer([Json EXCEPT !.given = FALSE], Pieces(NoText, FALSE))
    \/ OtherServer(Json, Pieces(NoText, FALSE))
    \/ OtherServer([Json EXCEPT !.gzip = TRUE], SubSeq(Pieces(<<"state", 0>>, TRUE), 1, 1))

RestSpec == RestInit /\ [][RestNext]_restVars

----------------------------------------------------------------------------
(* Properties.                                                             *)

\* A request that succeeds has exactly the text the server answered with when
\* it was asked, in one piece and uncompressed, whatever the same object was
\* used for before and however the game goes on meanwhile; JSON is parsed from
\* that text; the health check succeeds only for a game that was up to date.
\* A request that fails says why (RestClient::Request::Send, ProcessData).
AnswersAreWhole ==
    /\ request.phase = "ok" =>
          /\ request.data = Pieces(answer.text, FALSE)
          /\ ~request.type.gzip
          /\ request.type.name = "application/json" => request.json = answer.text
          /\ request.path = "/healthz" => answer.text = <<"ok", 0>>
          /\ request.path # "/other"
    /\ request.phase = "failed" => request.errors > 0
=============================================================================
