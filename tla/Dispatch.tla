-------------------------------- MODULE Dispatch --------------------------------
(***************************************************************************)
(* Which of the modules in c-modules/ answers a request, and with which    *)
(* input filters: the fixup of mod_input_body_filter.c, the insert_filter  *)
(* hooks of it and of mod_client_add_filter.c, and the tests every         *)
(* response handler makes before it answers or declines.                   *)
(*                                                                         *)
(* The core (external) runs the response handlers of the loaded modules in *)
(* an order that depends on how they were loaded, until one does not       *)
(* decline.  What a handler writes once it has taken a request is the      *)
(* matter of the other modules; here it is the marks it leaves on the      *)
(* request_rec, where the next handler and the core see them.              *)
(***************************************************************************)
EXTENDS Integers, Sequences, FiniteSets

CONSTANTS LoadedSets,  \* the sets of hooks loaded, see Hooks
          HeaderLists, \* the requests' headers, see Header
          Methods      \* of requests, "GET", "POST" and "PUT" among them

NULL == "NULL"
IBF == "INPUT_BODY_FILTER"

Header == [key : {"X-AddInputFilter", "X-AddOutputFilter", "Host"},
           val : {IBF, "other"}]

Hooks == {"echo_post", "eat_post", "echo_post_chunk", "test_rwrite",
          "test_pass_brigade", "random_chunk", "test_session", "fold",
          "list_modules", "test_apr_uri", "test_ssl_var", "test_ssl_ext",
          "input_body_filter", "client_add_filter"}

ASSUME DispatchAssumption ==
  /\ LoadedSets \subseteq SUBSET Hooks
  /\ HeaderLists \subseteq Seq(Header)
  /\ {"GET", "POST", "PUT"} \subseteq Methods

\* The names locations give to SetHandler; one that no module answers to.
Names == {"echo_post", "eat_post", "echo_post_chunk", "test_rwrite",
          "test_pass_brigade", "random_chunk", "test-session-handler", "fold",
          "FOLD", "list_modules", "test-apr-uri", "test-ssl-var-lookup",
          "test-ssl-ext-lookup", "input-body-filter", "text/html"}

Requests == [name : Names \cup {NULL}, method : Methods,
             http11 : BOOLEAN, args : BOOLEAN, headers : HeaderLists]

Marks == {"allowed GET", "content type", "Foo", "THE_ARGS", "session header"}

VARIABLES loaded, req,
          enabled,   \* InputBodyFilter is On at the location
          handler,   \* r->handler
          filters,   \* r->input_filters: the names of those inserted
          at,        \* the header that apr_table_do is at
          marks,     \* what handlers have left on r
          untried,   \* handlers the core has yet to ask
          pc,        \* "fixups", "insert", "insert last", "handlers", "done"
          answer     \* the hook that answered, or "none"

vars == <<loaded, req, enabled, handler, filters, at, marks, untried, pc, answer>>

TypeOK ==
  /\ loaded \in LoadedSets /\ req \in Requests /\ enabled \in BOOLEAN
  /\ handler \in Names \cup {NULL}
  /\ filters \in Seq({IBF, "other"}) /\ at \in 1..(Len(req.headers) + 1)
  /\ marks \subseteq Marks
  /\ untried \subseteq loaded
  /\ pc \in {"fixups", "insert", "insert last", "handlers", "done"}
  /\ answer \in loaded \cup {"none"} /\ (answer # "none" => pc = "done")
  /\ pc = "handlers" => handler # NULL

Init ==
  /\ loaded \in LoadedSets /\ req \in Requests /\ enabled \in BOOLEAN
  /\ enabled => "input_body_filter" \in loaded
  /\ handler = req.name
  /\ filters = <<>> /\ at = 1 /\ marks = {} /\ untried = loaded \ {"client_add_filter"}
  /\ pc = "fixups" /\ answer = "none"

-----------------------------------------------------------------------------
(* Fixups and filters. *)

\* The fixup; then the core sees to it that r->handler is not NULL.
FixupTo(name, methods) ==
  /\ pc = "fixups"
  /\ handler' = IF /\ "input_body_filter" \in loaded
                   /\ req.method \in methods /\ handler = "input-body-filter"
                  THEN name
                ELSE IF handler = NULL THEN "text/html" ELSE handler
  /\ pc' = "insert"
  /\ UNCHANGED <<loaded, req, enabled, filters, at, marks, untried, answer>>

\* A POST to the filter's own location becomes one to echo_post.
Fixup == FixupTo("echo_post", {"POST"})

\* input_body_filter's hook, MIDDLE.
InsertConfigured ==
  /\ pc = "insert"
  /\ filters' = IF enabled THEN Append(filters, IBF) ELSE filters
  /\ pc' = "insert last"
  /\ UNCHANGED <<loaded, req, enabled, handler, at, marks, untried, answer>>

\* ap_add_input_filter (external): unknown names are not added.
Known(n) == n = IBF => "input_body_filter" \in loaded

\* Faulty variant: either header adds an input filter.
AddsByAnyHeader(h) == h.key # "Host" /\ Known(h.val)

Adds(h) == h.key = "X-AddInputFilter" /\ Known(h.val)

\* client_add_filter's hook, LAST: its callback, for every header.
client_add_filter_header ==
  /\ pc = "insert last" /\ "client_add_filter" \in loaded
  /\ at \in DOMAIN req.headers
  /\ LET h == req.headers[at]
     IN  filters' = IF Adds(h) THEN Append(filters, h.val) ELSE filters
  /\ at' = at + 1
  /\ UNCHANGED <<loaded, req, enabled, handler, marks, untried, pc, answer>>

\* No header is left, or the module is not there.
Inserted ==
  /\ pc = "insert last"
  /\ "client_add_filter" \in loaded => at \notin DOMAIN req.headers
  /\ pc' = "handlers"
  /\ UNCHANGED <<loaded, req, enabled, handler, filters, at, marks, untried, answer>>

-----------------------------------------------------------------------------
(* The response handlers: whether one takes the request, and the marks it   *)
(* leaves either way.                                                       *)

On(name, methods) == handler = name /\ req.method \in methods
Mark(b, m) == IF b THEN m ELSE {}

echo_post_handler == On("echo_post", {"POST"})
eat_post_handler == On("eat_post", {"POST", "PUT"})
echo_post_chunk_handler == On("echo_post_chunk", {"POST"})
test_rwrite_handler == On("test_rwrite", {"GET"})
test_pass_brigade_handler == On("test_pass_brigade", {"GET"})
list_modules_handler == On("list_modules", {"GET"})
test_session_handler == On("test-session-handler", Methods)
fold_handler == handler \in {"fold", "FOLD"}
test_ssl_var_lookup == On("test-ssl-var-lookup", {"GET"})
test_ssl_ext_lookup == On("test-ssl-ext-lookup", {"GET"})
test_apr_uri_handler == On("test-apr-uri", {"GET"})
random_chunk_handler == On("random_chunk", {"GET"}) /\ req.http11

\* Faulty variant: it answers every method.
ResponseForAll == handler = "echo_post"

\* The filter's own responder: a test plan for whoever GETs an echo location.
input_body_filter_response_handler == On("echo_post", Methods \ {"POST"})

Takes(h) ==
  CASE h = "echo_post" -> echo_post_handler
    [] h = "eat_post" -> eat_post_handler
    [] h = "echo_post_chunk" -> echo_post_chunk_handler
    [] h = "test_rwrite" -> test_rwrite_handler
    [] h = "test_pass_brigade" -> test_pass_brigade_handler
    [] h = "random_chunk" -> random_chunk_handler
    [] h = "test_session" -> test_session_handler
    [] h = "fold" -> fold_handler
    [] h = "list_modules" -> list_modules_handler
    [] h = "test_apr_uri" -> test_apr_uri_handler
    [] h = "test_ssl_var" -> test_ssl_var_lookup
    [] h = "test_ssl_ext" -> test_ssl_ext_lookup
    [] h = "input_body_filter" -> input_body_filter_response_handler

\* Faulty variants: the mark is set before the tests that decline.
FoldMarksFirst == {"content type", "Foo"}
RandomAllowsAll ==
  Mark(handler = "random_chunk", {"allowed GET"})
    \cup Mark(random_chunk_handler, {"content type"})

\* random_chunk allows GET at its location before it looks at the method,
\* test_apr_uri for every request; both answer with a content type.
random_chunk_marks ==
  Mark(handler = "random_chunk" /\ req.http11, {"allowed GET"})
    \cup Mark(random_chunk_handler, {"content type"})
test_apr_uri_marks ==
  {"allowed GET"} \cup Mark(test_apr_uri_handler, {"content type"})

fold_marks == Mark(fold_handler, {"content type", "Foo"})
test_ssl_var_marks == Mark(test_ssl_var_lookup /\ req.args, {"THE_ARGS"})

Leaves(h) ==
  CASE h = "random_chunk" -> random_chunk_marks
    [] h = "test_apr_uri" -> test_apr_uri_marks
    [] h = "fold" -> fold_marks
    [] h = "test_ssl_var" -> test_ssl_var_marks
    [] h = "test_session" -> Mark(test_session_handler, {"session header"})
    [] OTHER -> {}

Handle(h) ==
  /\ pc = "handlers"
  /\ h \in untried
  /\ untried' = untried \ {h}
  /\ marks' = marks \cup Leaves(h)
  /\ IF Takes(h) THEN answer' = h /\ pc' = "done"
                 ELSE UNCHANGED <<answer, pc>>
  /\ UNCHANGED <<loaded, req, enabled, handler, filters, at>>

\* The core's default handler, asked last (external).
Default ==
  /\ pc = "handlers" /\ untried = {}
  /\ pc' = "done"
  /\ UNCHANGED <<loaded, req, enabled, handler, filters, at, marks, untried, answer>>

Finished == pc = "done" /\ UNCHANGED vars

Next == \/ Fixup \/ InsertConfigured \/ client_add_filter_header \/ Inserted
        \/ \E h \in Hooks : Handle(h)
        \/ Default \/ Finished

Spec == Init /\ [][Next]_vars

-----------------------------------------------------------------------------
(* Correctness. *)

Done == pc = "done"

\* No two modules answer to one request, so that it does not matter in which
\* order they were loaded.  echo_post and the responder of input_body_filter
\* share a name and split its methods (echo_post 19-24, input_body_filter
\* 51-61): at the filter's location a POST is echoed (t/filter/input_body.t),
\* and what the fixup leaves of the other methods is nobody's (38-62).
OneOwner ==
  LET owners == {h \in loaded \ {"client_add_filter"} : Takes(h)}
  IN  pc = "handlers" =>
        /\ Cardinality(owners) <= 1
        /\ /\ req.name = "input-body-filter"
           /\ {"input_body_filter", "echo_post"} \subseteq loaded
           => owners = IF req.method = "POST" THEN {"echo_post"} ELSE {}

\* A handler that declined has left nothing but GET among the allowed methods
\* (random_chunk 120, test_apr_uri 278): no answer carries another module's
\* header, content type or environment.
NothingLeftBehind ==
  marks \subseteq {"allowed GET"} \cup IF answer = "none" THEN {} ELSE Leaves(answer)

\* The methods an unanswered request is told of do not depend on the order in
\* which the handlers declined it (random_chunk 116-124, test_apr_uri 278).
AllowIsOrderFree ==
  Done /\ answer = "none" =>
    ("allowed GET" \in marks <=>
       \/ "test_apr_uri" \in loaded
       \/ "random_chunk" \in loaded /\ req.http11 /\ req.name = "random_chunk")

\* Where x is in a sequence.
Places(x, s) == {i \in DOMAIN s : s[i] = x}
AskIBF == [key |-> "X-AddInputFilter", val |-> IBF]

\* The filter is in the chain once for the directive and once for each header
\* that asks for it, the directive's first, before any handler reads: turned
\* on twice, it undoes itself, and t/filter/case_in.t's headers come last.
FilterOnceEach ==
  pc \in {"handlers", "done"} =>
    /\ Cardinality(Places(IBF, filters))
         = (IF enabled THEN 1 ELSE 0)
           + (IF {"client_add_filter", "input_body_filter"} \subseteq loaded
                THEN Cardinality(Places(AskIBF, req.headers)) ELSE 0)
    /\ enabled => Head(filters) = IBF

-----------------------------------------------------------------------------
(* The inductive form. *)

\* What r->handler has become once the fixup has run.
Renamed ==
  handler = IF pc = "fixups" THEN req.name
            ELSE IF /\ "input_body_filter" \in loaded
                    /\ req.method = "POST" /\ req.name = "input-body-filter"
              THEN "echo_post"
            ELSE IF req.name = NULL THEN "text/html" ELSE req.name

\* The marks are those of the handlers asked so far.
Asked == loaded \ (untried \cup {"client_add_filter"})
MarksOfAsked ==
  /\ pc \notin {"handlers", "done"} => Asked = {}
  /\ "client_add_filter" \notin untried
  /\ marks = UNION {Leaves(h) : h \in Asked}
  /\ \A h \in Asked : Takes(h) <=> h = answer
  /\ pc = "done" /\ answer = "none" => untried = {}

\* The filters are those of the directive and of the headers so far.
FiltersSoFar ==
  /\ enabled => "input_body_filter" \in loaded
  /\ pc \in {"fixups", "insert"} => filters = <<>> /\ at = 1
  /\ pc \in {"insert last", "handlers", "done"} =>
       /\ Cardinality(Places(IBF, filters))
            = (IF enabled THEN 1 ELSE 0)
              + (IF {"client_add_filter", "input_body_filter"} \subseteq loaded
                   THEN Cardinality(Places(AskIBF, SubSeq(req.headers, 1, at - 1)))
                   ELSE 0)
       /\ enabled => filters # <<>> /\ Head(filters) = IBF
  /\ pc \in {"handlers", "done"} /\ "client_add_filter" \in loaded =>
       at = Len(req.headers) + 1

DispatchInv == TypeOK /\ Renamed /\ MarksOfAsked /\ FiltersSoFar
=============================================================================
