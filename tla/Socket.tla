------------------------------- MODULE Socket -------------------------------
(***************************************************************************)
(* The connection of protocol/socket.c: the bearer, the sockets of the     *)
(* vendor's stack and the two statics, socket_id and socket_state, that    *)
(* the program keeps about them.                                           *)
(*                                                                         *)
(* Callbacks run one at a time on the thread that called socket_init.  The *)
(* stack (external) answers every call in any way its header documents;    *)
(* CONSTANTs narrow the answers for the runs that ask what the program     *)
(* does when the stack is kind.                                            *)
(***************************************************************************)
EXTENDS Naturals, FiniteSets

CONSTANTS
  Sock,            \* the socket ids of the stack: 0 .. MAX_IP_SOCKET_NUM - 1
  NoSocket,        \* a negative socket_id: eat_soc_create failed
  FirstSocket,     \* the value socket_id starts with: 0
  AddrTypes,       \* how the server is named: a subset of {"ip", "domain"}
  BearerResults,   \* eat_gprs_bearer_open on a bearer that is not up
  SetupResults,    \* eat_soc_create and eat_soc_setsockopt
  ConnectResults,  \* eat_soc_connect on a fresh socket
  MaxLookups       \* bound: gethostbyname calls outstanding at a time

ASSUME SocketAssumption ==
  /\ NoSocket \notin Sock
  /\ FirstSocket \in Sock
  /\ AddrTypes \subseteq {"ip", "domain"}
  /\ BearerResults \subseteq {"ok", "wouldblock"}
  /\ SetupResults \subseteq {"ok", "no socket", "no option"}
  /\ ConnectResults \subseteq {"now", "no login", "later", "refused"}
  /\ MaxLookups \in Nat

VARIABLES
  socket_id,
  socket_state,
  bearer,       \* external: the state of the bearer
  soc,          \* external: the state of each socket
  lookups,      \* external: gethostbyname calls still to be answered
  login         \* external: per socket, the login request and its answer

svars == <<socket_id, socket_state, bearer, soc, lookups, login>>

SocState == {"SOC_CLOSED", "SOC_CONNECTING", "SOC_CONNECTED"}
BearerState == {"down", "activating", "up", "deactivating"}
\* "lost": the peer or the bearer has gone and SOC_CLOSE is still to come.
StackState == {"unused", "open", "connecting", "connected", "lost"}
\* "unread": the answer was announced to soc_notify_cb, which did not read it.
LoginState == {"none", "asked", "answered", "unread"}

SInit ==
  /\ socket_id = FirstSocket
  /\ socket_state = "SOC_CLOSED"
  /\ bearer = "down"
  /\ soc = [s \in Sock |-> "unused"]
  /\ lookups = 0
  /\ login = [s \in Sock |-> "none"]

InUse == {s \in Sock : soc[s] # "unused"}

Becomes(s, st) == soc' = [soc EXCEPT ![s] = st]
LoginIs(s, st) == login' = [login EXCEPT ![s] = st]

-----------------------------------------------------------------------------
(* socket_connect2IP, socket_connect, socket_setup, socket_init *)

\* st: what s has become by the time eat_soc_connect is called, on the bearer as
\* this step leaves it.  The program sends the login request only when the call
\* says at once that it connected; "no login" is eat_send_cmd_login finding no
\* memory, which nobody looks at.
\* On an error the socket is left open.
connect_asks_always(s, st) ==      \* a mutant: login before the answer
  \/ /\ st = "open" /\ bearer' = "up"
     /\ \/ "now" \in ConnectResults /\ Becomes(s, "connected")
        \/ "later" \in ConnectResults /\ Becomes(s, "connecting")
     /\ LoginIs(s, "asked")
  \/ /\ "refused" \in ConnectResults
     /\ Becomes(s, st)
     /\ UNCHANGED login

connect_now(s, st) ==
  /\ st = "open" /\ bearer' = "up"
  /\ Becomes(s, "connected")
  /\ \/ "now" \in ConnectResults /\ LoginIs(s, "asked")
     \/ "no login" \in ConnectResults /\ UNCHANGED login

connect_later(s, st) ==
  /\ st = "open" /\ bearer' = "up"
  /\ "later" \in ConnectResults
  /\ Becomes(s, "connecting")
  /\ UNCHANGED login

\* Also SOC_ALREADY, SOC_INVALID_SOCKET and SOC_BEARER_FAIL.
connect_refused(s, st) ==
  /\ st # "open" \/ bearer' # "up" \/ "refused" \in ConnectResults
  /\ Becomes(s, st)
  /\ UNCHANGED login

socket_connect2IP(s, st) ==
  connect_now(s, st) \/ connect_later(s, st) \/ connect_refused(s, st)

socket_connect(s) ==
  \/ "ip" \in AddrTypes /\ socket_connect2IP(s, "open") /\ UNCHANGED lookups
  \/ /\ "domain" \in AddrTypes
     /\ \/ socket_connect2IP(s, "open") /\ UNCHANGED lookups    \* cached answer
        \/ /\ lookups < MaxLookups                              \* would block
           /\ lookups' = lookups + 1
           /\ Becomes(s, "open")
           /\ UNCHANGED login
        \/ "refused" \in ConnectResults /\ Becomes(s, "open") /\ UNCHANGED <<lookups, login>>

\* A failed option leaves the socket open; every call forgets the socket the
\* previous one created.
socket_setup ==
  \/ /\ "no socket" \in SetupResults \/ InUse = Sock
     /\ socket_id' = NoSocket
     /\ UNCHANGED <<soc, login, lookups>>
  \/ \E s \in Sock \ InUse :
       /\ socket_id' = s
       /\ \/ "no option" \in SetupResults /\ Becomes(s, "open") /\ UNCHANGED <<login, lookups>>
          \/ "ok" \in SetupResults /\ socket_connect(s)

\* eat_gprs_bearer_open answers CBM_OK if the bearer is already activated, by this
\* program or by another one whose activation it has not been told of, and
\* CBM_WOULDBLOCK if the activation is under way; then the caller is told SUCCESS
\* and nothing more is done.  A failed open or hold returns an error and changes
\* nothing, and so is no step.
socket_init ==
  \/ /\ bearer # "up" /\ "wouldblock" \in BearerResults
     /\ bearer' = "activating"
     /\ socket_state' = "SOC_CONNECTING"
     /\ UNCHANGED <<socket_id, soc, lookups, login>>
  \/ /\ bearer = "up" \/ ("ok" \in BearerResults /\ bearer # "deactivating")
     /\ bearer' = "up"
     /\ socket_setup
     /\ UNCHANGED socket_state

-----------------------------------------------------------------------------
(* hostname_notify_cb *)

\* The request id is not looked at: the answer connects whatever socket is the
\* current one.
hostname_notify_cb(result) ==
  /\ lookups > 0
  /\ lookups' = lookups - 1
  /\ UNCHANGED <<socket_id, socket_state, bearer>>
  /\ IF result /\ socket_id \in Sock
     THEN socket_connect2IP(socket_id, soc[socket_id])
     ELSE UNCHANGED <<soc, login>>

-----------------------------------------------------------------------------
(* soc_notify_cb, except SOC_READ, which reaches into client.c *)

eat_soc_close(s) == Becomes(s, "unused") /\ LoginIs(s, "none")

soc_connect_event(s, result) ==
  /\ soc[s] = "connecting"
  /\ IF result
     THEN /\ bearer = "up"
          /\ Becomes(s, "connected")
          /\ socket_state' = "SOC_CONNECTED"
          /\ UNCHANGED login
     ELSE eat_soc_close(s) /\ UNCHANGED socket_state
  /\ UNCHANGED <<socket_id, bearer, lookups>>

soc_close_ignored(s) ==            \* a mutant: no eat_soc_close
  /\ soc[s] = "lost"
  /\ LoginIs(s, "none")
  /\ UNCHANGED <<socket_id, socket_state, bearer, soc, lookups>>

soc_close_event(s) ==
  /\ soc[s] = "lost"
  /\ eat_soc_close(s)
  /\ UNCHANGED <<socket_id, socket_state, bearer, lookups>>

\* External: the peer closes a connection.
peer_close(s) ==
  /\ soc[s] = "connected"
  /\ Becomes(s, "lost")
  /\ UNCHANGED <<socket_id, socket_state, bearer, lookups, login>>

\* External: the server answers a login request.
server_answer(s) ==
  /\ soc[s] = "connected"
  /\ login[s] = "asked"
  /\ LoginIs(s, "answered")
  /\ UNCHANGED <<socket_id, socket_state, bearer, soc, lookups>>

-----------------------------------------------------------------------------
(* bear_notify_cb *)

\* The case is empty: nobody goes on to socket_setup.
bearer_activated ==
  /\ bearer = "activating"
  /\ bearer' = "up"
  /\ UNCHANGED <<socket_id, socket_state, soc, lookups, login>>

\* The end of a release, or the network's own decision.
bearer_deactivated ==
  /\ bearer # "down"
  /\ bearer' = "down"
  /\ socket_state' = "SOC_CLOSED"
  /\ soc' = [s \in Sock |-> IF soc[s] = "connected" THEN "lost" ELSE soc[s]]
  /\ UNCHANGED <<socket_id, lookups, login>>

\* CBM_GPRS_AUTO_DISC_TIMEOUT calls eat_reset_module; so do others.
socket_reset ==
  /\ socket_id' = FirstSocket
  /\ socket_state' = "SOC_CLOSED"
  /\ bearer' = "down"
  /\ soc' = [s \in Sock |-> "unused"]
  /\ lookups' = 0
  /\ login' = [s \in Sock |-> "none"]

-----------------------------------------------------------------------------
(* socketClose *)

\* The release completes at once, later with a notification, or, while another
\* socket is in use, not at all.
socketClose ==
  /\ IF socket_id \in Sock THEN eat_soc_close(socket_id) ELSE UNCHANGED <<soc, login>>
  /\ IF InUse \subseteq {socket_id} /\ bearer = "up"
     THEN bearer' \in {"down", "deactivating"}
     ELSE UNCHANGED bearer
  /\ UNCHANGED <<socket_id, socket_state, lookups>>
=============================================================================
