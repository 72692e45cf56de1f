------------------------------- MODULE Proxy -------------------------------
(***************************************************************************)
(* The caching proxy (computer_networks/proj2): one thread accepts, one    *)
(* thread per connection answers one request, and all of them share a      *)
(* linked list of pages that no lock protects, the position of strtok and  *)
(* the result of gethostbyname.  The page that thread t fetches is the     *)
(* node t.  A request is abstracted to its url, which also names the host  *)
(* of its Host line; a response to the node that it came from, and to the  *)
(* host that it was fetched from.  The origin's side is an outcome.        *)
(***************************************************************************)
EXTENDS Naturals, Sequences, FiniteSets, SequencesExt, FiniteSetsExt

CONSTANTS Browsers,    \* the clients, each with one request
          NoBrowser,
          Sockets,     \* bound: the descriptors that connections may have at a time
          Urls,
          Unparsable,  \* the url of a request that has no Host line
          Crowds       \* bounds: which browser asks for what, which of them give up
                       \* before the answer, how often a call of the proxy fails

ASSUME ProxyAssumption == NoBrowser \notin Browsers /\ Unparsable \notin Urls

Nodes == 1..Cardinality(Browsers)  \* the threads, and the pages they fetch
NULL == 0
Failed == 0                        \* the -1 of a failed accept

VARIABLES proxyAcceptor,  \* start, accept, add, create, drop or ended
          proxySock,      \* clientsock of accept_new_client
          proxyTable,     \* open_sockets
          peer,           \* the browser at the other end of a socket
          crowd,          \* the member of Crowds that has come
          outside,        \* the browsers that have not connected yet
          unsent,         \* the browsers whose request no thread has read yet
          left,           \* the browsers that have closed their end
          worker,         \* the threads: pc, sock, url, host, found, p and target_node
          page,           \* the nodes: request_url, host, next and cache_status
          cache_list,     \* the first node, or NULL
          strtokLeft,     \* the thread whose Host line strtok comes to next, or NULL
          resolved,       \* the host in the result of gethostbyname
          crossed,        \* history: the threads that were between two of their calls
                          \* of strtok, or used a result of gethostbyname, at the
                          \* same time as others
          got,            \* history: the nodes sent to a browser
          said,           \* history: what a thread printed
          proxyFaults,    \* bound: the failures so far
          onTime          \* history: every thread has read its own socket

socketVars == <<proxyAcceptor, proxySock, proxyTable, peer, proxyFaults>>
browserVars == <<crowd, outside, unsent, left>>
cacheVars == <<page, cache_list>>
staticVars == <<strtokLeft, resolved, crossed>>
proxyHistory == <<got, said, onTime>>
proxyVars == <<socketVars, browserVars, worker, cacheVars, staticVars, proxyHistory>>

NoWorker == [pc |-> "none", sock |-> Failed, url |-> Unparsable, host |-> Unparsable,
             found |-> 0, p |-> NULL, node |-> NULL]

\* init_node, and what make_request writes into it.
init_node(url, host) == [request_url |-> url, host |-> host, next |-> NULL, cache_status |-> 0]

ProxyInit == /\ proxyAcceptor = "start"
             /\ proxySock = Failed
             /\ proxyTable = <<>>
             /\ peer = [s \in Sockets |-> NoBrowser]
             /\ crowd = CHOOSE k \in Crowds : TRUE
             /\ outside = {}
             /\ unsent = {}
             /\ left = {}
             /\ worker = [t \in Nodes |-> NoWorker]
             /\ page = [n \in Nodes |-> init_node(Unparsable, Unparsable)]
             /\ cache_list = NULL
             /\ strtokLeft = NULL
             /\ resolved = Unparsable
             /\ crossed = {}
             /\ got = [b \in Browsers |-> {}]
             /\ said = [t \in Nodes |-> "nothing"]
             /\ proxyFaults = 0
             /\ onTime = TRUE

ProxyUp == proxyAcceptor # "ended"
PeerOf(s) == IF s \in Sockets THEN peer[s] ELSE NoBrowser
ProxyFault == /\ proxyFaults < crowd.faults
              /\ proxyFaults' = proxyFaults + 1
ProxyEnds == /\ proxyAcceptor' = "ended"
             /\ worker' = [t \in Nodes |-> NoWorker]

----------------------------------------------------------------------------
\* accept_new_client

ProxyStart == /\ proxyAcceptor = "start"
              /\ crowd' \in Crowds
              /\ outside' = DOMAIN crowd'.asks
              /\ proxyAcceptor' = "accept"
              /\ UNCHANGED <<proxySock, proxyTable, peer, proxyFaults, unsent, left, worker, cacheVars, staticVars, proxyHistory>>

\* A failed bind, gethostname or getsockname; a failed socket shows at bind.
ProxyStartFails == /\ proxyAcceptor = "start"
                   /\ ProxyFault
                   /\ ProxyEnds
                   /\ UNCHANGED <<proxySock, proxyTable, peer, browserVars, cacheVars, staticVars, proxyHistory>>

ProxyAccept(b) ==
    /\ proxyAcceptor = "accept"
    /\ b \in outside
    /\ \E fd \in Sockets :
         /\ peer[fd] = NoBrowser
         /\ \A s \in Sockets : s < fd => peer[s] # NoBrowser
         /\ proxySock' = fd
         /\ peer' = [peer EXCEPT ![fd] = b]
    /\ outside' = outside \ {b}
    /\ unsent' = unsent \cup {b}
    /\ proxyAcceptor' = "add"
    /\ UNCHANGED <<proxyTable, proxyFaults, crowd, left, worker, cacheVars, staticVars, proxyHistory>>

\* The loop goes on, with -1 in the variable whose address the threads have.
ProxyAcceptFails == /\ proxyAcceptor = "accept"
                    /\ ProxyFault
                    /\ proxySock' = Failed
                    /\ UNCHANGED <<proxyAcceptor, proxyTable, peer, browserVars, worker, cacheVars, staticVars, proxyHistory>>

ProxyAdd == /\ proxyAcceptor = "add"
            /\ proxyTable' = Append(proxyTable, proxySock)
            /\ proxyAcceptor' = "create"
            /\ UNCHANGED <<proxySock, peer, proxyFaults, browserVars, worker, cacheVars, staticVars, proxyHistory>>

ProxyCreate(t) ==
    /\ proxyAcceptor = "create"
    /\ worker[t].pc = "none"
    /\ \A u \in Nodes : u < t => worker[u].pc # "none"
    /\ worker' = [worker EXCEPT ![t] = [NoWorker EXCEPT !.pc = "start", !.sock = proxySock]]
    /\ proxyAcceptor' = "accept"
    /\ UNCHANGED <<proxySock, proxyTable, peer, proxyFaults, browserVars, cacheVars, staticVars, proxyHistory>>

\* remove_socket, close and pthread_exit: main returns from its join.
ProxyCreateFails == /\ proxyAcceptor = "create"
                    /\ ProxyFault
                    /\ ProxyEnds
                    /\ UNCHANGED <<proxySock, proxyTable, peer, browserVars, cacheVars, staticVars, proxyHistory>>

----------------------------------------------------------------------------
\* process_single_client

\* The address of clientsock was passed: sock held what should be read there.
Begin(t) == /\ worker[t].pc = "start"
            /\ worker' = [worker EXCEPT ![t].pc = "recv", ![t].sock = proxySock]
            /\ onTime' = (onTime /\ worker[t].sock = proxySock)
            /\ UNCHANGED <<socketVars, browserVars, cacheVars, got, said, staticVars>>

\* recv.  On a closed descriptor it fails, which is not tested: the request is
\* what lies on the stack.
ReadRequest(t) ==
    /\ worker[t].pc = "recv"
    /\ LET b == PeerOf(worker[t].sock) IN
       \/ /\ \E url \in Urls \cup {Unparsable} :
               /\ b = NoBrowser \/ (b \in unsent /\ url = crowd.asks[b])
               /\ worker' = [worker EXCEPT ![t].pc = "parse", ![t].url = url]
          /\ unsent' = unsent \ {b}
       \/ /\ b \in left \ unsent
          /\ worker' = [worker EXCEPT ![t].pc = "final"]
          /\ UNCHANGED unsent
    /\ UNCHANGED <<socketVars, crowd, outside, left, cacheVars, staticVars, proxyHistory>>

\* strtok and gethostbyname keep what they have for the next call, or for the
\* caller, in one place for all threads.  A call is one step.  Calls at the very
\* same time can also leave the position where another one has put it.
InStrtok == {u \in Nodes : worker[u].pc \in {"lines", "temp1", "port", "sizing"}}
InLookup == {u \in Nodes : worker[u].pc = "connect"}

\* t comes to where the others are.
Meets(t, others) == crossed' = IF others = {} THEN crossed ELSE crossed \cup others \cup {t}

\* parse_request: strtok(dummy_req) finds the GET line,
ParseFirst(t) ==
    /\ worker[t].pc = "parse"
    /\ strtokLeft' = IF worker[t].url = Unparsable THEN NULL ELSE t
    /\ Meets(t, InStrtok)
    /\ worker' = [worker EXCEPT ![t].pc = "lines", ![t].found = 1]
    /\ UNCHANGED <<socketVars, browserVars, cacheVars, resolved, proxyHistory>>

\* the next calls the Host line, whosever it is,
ParseNext(t) ==
    /\ worker[t].pc = "lines"
    /\ strtokLeft # NULL
    /\ worker[t].found < 3
    /\ worker' = [worker EXCEPT ![t].found = @ + 1, ![t].host = worker[strtokLeft].url]
    /\ \/ strtokLeft' = NULL
       \/ t \in crossed /\ UNCHANGED strtokLeft
    /\ UNCHANGED <<socketVars, browserVars, cacheVars, resolved, crossed, proxyHistory>>

\* and the last one no more lines.
ParseEnds(t) ==
    /\ worker[t].pc = "lines"
    /\ strtokLeft = NULL
    /\ worker' = [worker EXCEPT ![t].pc = IF worker[t].found = 2 THEN "temp1" ELSE "final"]
    /\ UNCHANGED <<socketVars, browserVars, cacheVars, staticVars, proxyHistory>>

\* strtok(temp1): the host without its port.
ParseHost(t) ==
    /\ worker[t].pc = "temp1"
    /\ strtokLeft' = NULL
    /\ worker' = [worker EXCEPT ![t].pc = "port"]
    /\ UNCHANGED <<socketVars, browserVars, cacheVars, resolved, crossed, proxyHistory>>

\* The port, which is nonsense if it is from another thread's lines; then
\* get_from_cache begins.
ParsePort(t) ==
    /\ worker[t].pc = "port"
    /\ strtokLeft' = NULL
    /\ worker' = [worker EXCEPT ![t].pc = "lookup", ![t].p = cache_list,
                                ![t].host = IF strtokLeft = NULL THEN @ ELSE Unparsable]
    /\ UNCHANGED <<socketVars, browserVars, cacheVars, resolved, crossed, proxyHistory>>

\* A position in memory that is no longer anybody's lines.
ParseCrashes(t) ==
    /\ t \in InStrtok \cap crossed
    /\ ProxyFault
    /\ ProxyEnds
    /\ UNCHANGED <<proxySock, proxyTable, peer, browserVars, cacheVars, staticVars, proxyHistory>>

\* Mistaken variant: the urls are not compared.
LookupAny(t) == LET p == worker[t].p IN
    /\ worker[t].pc = "lookup"
    /\ IF p = NULL
       THEN /\ worker' = [worker EXCEPT ![t].pc = "fetch"]
            /\ UNCHANGED page
       ELSE /\ page' = [page EXCEPT ![p].cache_status = 1]
            /\ worker' = [worker EXCEPT ![t].pc = "send", ![t].node = p]
    /\ UNCHANGED <<socketVars, browserVars, cache_list, staticVars, proxyHistory>>

\* Mistaken variant: get_request adds what it found once more.
LookupReadds(t) == LET p == worker[t].p IN
    /\ worker[t].pc = "lookup"
    /\ worker' = IF p = NULL THEN [worker EXCEPT ![t].pc = "fetch"]
                 ELSE IF page[p].request_url = worker[t].url
                 THEN [worker EXCEPT ![t].pc = "append", ![t].node = p]
                 ELSE [worker EXCEPT ![t].p = page[p].next]
    /\ UNCHANGED <<socketVars, browserVars, cacheVars, staticVars, proxyHistory>>

\* One turn of the loop of get_from_cache.
Lookup(t) == LET p == worker[t].p IN
    /\ worker[t].pc = "lookup"
    /\ \/ /\ p = NULL
          /\ worker' = [worker EXCEPT ![t].pc = "fetch"]
          /\ UNCHANGED page
       \/ /\ p # NULL
          /\ page[p].request_url = worker[t].url
          /\ page' = [page EXCEPT ![p].cache_status = 1]
          /\ worker' = [worker EXCEPT ![t].pc = "send", ![t].node = p]
       \/ /\ p # NULL
          /\ page[p].request_url # worker[t].url
          /\ worker' = [worker EXCEPT ![t].p = page[p].next]
          /\ UNCHANGED page
    /\ UNCHANGED <<socketVars, browserVars, cache_list, staticVars, proxyHistory>>

\* make_request: hooktoserver has the host looked up
Resolve(t) ==
    /\ worker[t].pc = "fetch"
    /\ resolved' = worker[t].host
    /\ Meets(t, InLookup)
    /\ worker' = [worker EXCEPT ![t].pc = "connect"]
    /\ UNCHANGED <<socketVars, browserVars, cacheVars, strtokLeft, proxyHistory>>

\* and connects to the address that it finds in the result.
HookToServer(t) ==
    /\ worker[t].pc = "connect"
    /\ worker' = [worker EXCEPT ![t].pc = "size", ![t].host = resolved]
    /\ UNCHANGED <<socketVars, browserVars, cacheVars, staticVars, proxyHistory>>

\* get_content_size: strtok(dummy_resp), then on to the end, in whatever lines.
SizeFirst(t) ==
    /\ worker[t].pc = "size"
    /\ strtokLeft' = NULL
    /\ Meets(t, InStrtok)
    /\ worker' = [worker EXCEPT ![t].pc = "sizing"]
    /\ UNCHANGED <<socketVars, browserVars, cacheVars, resolved, proxyHistory>>

SizeNext(t) ==
    /\ worker[t].pc = "sizing"
    /\ strtokLeft # NULL
    /\ strtokLeft' = NULL
    /\ UNCHANGED <<socketVars, browserVars, worker, cacheVars, resolved, crossed, proxyHistory>>

\* A page, whole or cut short, becomes a node.
Fetch(t) == /\ worker[t].pc = "sizing"
            /\ strtokLeft = NULL
            /\ page' = [page EXCEPT ![t] = init_node(worker[t].url, worker[t].host)]
            /\ worker' = [worker EXCEPT ![t].pc = "append", ![t].node = t]
            /\ UNCHANGED <<socketVars, browserVars, cache_list, staticVars, proxyHistory>>

\* The origin sends nothing, no end of the header, or not all of it: NULL.
FetchFails(t) == /\ worker[t].pc = "size" \/ (worker[t].pc = "sizing" /\ strtokLeft = NULL)
                 /\ ProxyFault
                 /\ worker' = [worker EXCEPT ![t].pc = "final"]
                 /\ UNCHANGED <<proxyAcceptor, proxySock, proxyTable, peer, browserVars, cacheVars, staticVars, proxyHistory>>

\* hooktoserver returns -1, which make_request takes for a descriptor: recv's
\* -1 becomes the size of a buffer, and the copy into it ends the program.
FetchCrashes(t) == /\ worker[t].pc \in {"fetch", "connect"}
                   /\ ProxyFault
                   /\ ProxyEnds
                   /\ UNCHANGED <<proxySock, proxyTable, peer, browserVars, cacheVars, staticVars, proxyHistory>>

\* add_to_cache reads the head, then one next after the other, and writes.
AppendHead(t) == /\ worker[t].pc = "append"
                 /\ worker' = [worker EXCEPT ![t].pc = "walk", ![t].p = cache_list]
                 /\ UNCHANGED <<socketVars, browserVars, cacheVars, staticVars, proxyHistory>>

AppendWalk(t) == LET p == worker[t].p IN
    /\ worker[t].pc = "walk"
    /\ p # NULL
    /\ worker' = IF page[p].next # NULL
                 THEN [worker EXCEPT ![t].p = page[p].next]
                 ELSE [worker EXCEPT ![t].pc = "link"]
    /\ UNCHANGED <<socketVars, browserVars, cacheVars, staticVars, proxyHistory>>

AppendLink(t) == LET p == worker[t].p IN
    /\ \/ /\ worker[t].pc = "walk"
          /\ p = NULL
          /\ cache_list' = worker[t].node
          /\ UNCHANGED page
       \/ /\ worker[t].pc = "link"
          /\ page' = [page EXCEPT ![p].next = worker[t].node]
          /\ UNCHANGED cache_list
    /\ worker' = [worker EXCEPT ![t].pc = "send"]
    /\ UNCHANGED <<socketVars, browserVars, staticVars, proxyHistory>>

\* sendn keeps write's -1 in a size_t, which is never below zero: to a browser
\* that has gone it loops for ever, unless the kernel still takes the bytes.
SendPage(t) == LET b == PeerOf(worker[t].sock) IN
    /\ worker[t].pc = "send"
    /\ \/ /\ b # NoBrowser
          /\ got' = [got EXCEPT ![b] = @ \cup {worker[t].node}]
          /\ worker' = [worker EXCEPT ![t].pc = "print"]
       \/ /\ b \in left \cup {NoBrowser}
          /\ worker' = [worker EXCEPT ![t].pc = "spin"]
          /\ UNCHANGED got
    /\ UNCHANGED <<socketVars, browserVars, cacheVars, said, onTime, staticVars>>

PrintLine(t) ==
    /\ worker[t].pc = "print"
    /\ said' = [said EXCEPT ![t] = IF page[worker[t].node].cache_status = 0
                                   THEN "CACHE_MISS" ELSE "CACHE_HIT"]
    /\ worker' = [worker EXCEPT ![t].pc = "final"]
    /\ UNCHANGED <<socketVars, browserVars, cacheVars, got, onTime, staticVars>>

\* remove_socket: the last entry takes the place of the first that matches.
Final(t) == LET places == {i \in DOMAIN proxyTable : proxyTable[i] = worker[t].sock} IN
    /\ worker[t].pc = "final"
    /\ proxyTable' = IF places = {} THEN proxyTable
                     ELSE Front([proxyTable EXCEPT ![Min(places)] = Last(proxyTable)])
    /\ worker' = [worker EXCEPT ![t].pc = "close"]
    /\ UNCHANGED <<proxyAcceptor, proxySock, peer, proxyFaults, browserVars, cacheVars, staticVars, proxyHistory>>

Hangup(t) == /\ worker[t].pc = "close"
             /\ peer' = [s \in Sockets |-> IF s = worker[t].sock THEN NoBrowser ELSE peer[s]]
             /\ worker' = [worker EXCEPT ![t].pc = "done"]
             /\ UNCHANGED <<proxyAcceptor, proxySock, proxyTable, proxyFaults, browserVars, cacheVars, staticVars, proxyHistory>>

\* A browser gives up before it has an answer.
Leave(b) == /\ proxyAcceptor \notin {"start", "ended"}
            /\ b \in crowd.leavers \ (left \cup outside)
            /\ left' = left \cup {b}
            /\ UNCHANGED <<socketVars, crowd, outside, unsent, worker, cacheVars, staticVars, proxyHistory>>

----------------------------------------------------------------------------
ProxyParse(t) == ParseFirst(t) \/ ParseNext(t) \/ ParseEnds(t) \/ ParseHost(t) \/ ParsePort(t)

ProxyFetch(t) == Resolve(t) \/ HookToServer(t) \/ SizeFirst(t) \/ SizeNext(t) \/ Fetch(t)

ProxyWorker(t) == \/ Begin(t) \/ ReadRequest(t) \/ ProxyParse(t) \/ Lookup(t) \/ ProxyFetch(t)
                  \/ AppendHead(t) \/ AppendWalk(t) \/ AppendLink(t) \/ SendPage(t)
                  \/ PrintLine(t) \/ Final(t) \/ Hangup(t)

ProxyNext == \/ ProxyStart \/ ProxyStartFails \/ ProxyAcceptFails \/ ProxyAdd
             \/ ProxyCreateFails
             \/ \E b \in Browsers : Leave(b) \/ ProxyAccept(b)
             \/ \E t \in Nodes : \/ ProxyCreate(t) \/ ProxyWorker(t)
                             \/ ParseCrashes(t) \/ FetchFails(t) \/ FetchCrashes(t)

ProxySpec == ProxyInit /\ [][ProxyNext]_proxyVars

----------------------------------------------------------------------------
\* Unless a thread was late in reading its socket from the acceptor's variable,
\* what a browser receives is a page that was asked for with its url; and it was
\* fetched from that url's host, unless the thread that fetched it crossed others
\* in strtok or gethostbyname, when it may be any page, cached for good.
\* A thread that found its page in the cache never reports a miss.
AnswersAreRight ==
    /\ onTime => \A b \in Browsers : \A n \in got[b] :
                   /\ page[n].request_url = crowd.asks[b]
                   /\ n \notin crossed => page[n].host = crowd.asks[b]
    /\ \A t \in Nodes : said[t] = "CACHE_MISS" => worker[t].node \in {t, NULL}

\* The list ends, whoever appends to it at once: no nodes lead only to each other.
CacheEnds == \A ring \in (SUBSET Nodes) \ {{}} : \E n \in ring : page[n].next \notin ring
=============================================================================
