---------------------------- MODULE Connections ----------------------------
(***************************************************************************)
(* How connections are put together and taken apart: the dialers of the    *)
(* transport package, the TLS and multiplexing layers on top, the deployer *)
(* and the SSH upgrade. Each is a chain of steps, every step may fail, and *)
(* the error path of a step releases by hand what the earlier steps have   *)
(* acquired.                                                               *)
(*                                                                         *)
(* A step names what it acquires, what it gives back when it succeeds, and *)
(* what its error path closes. Closing a resource closes what is built on  *)
(* it or wrapped by it (Closes): TLS, SSH, SFTP and yamux are external.    *)
(*                                                                         *)
(* The accepting side (Membrane) and what is read from a finished          *)
(* connection (FrameCodec) are the other layers of a link.                 *)
(***************************************************************************)
EXTENDS FrameCodec, Membrane

VARIABLES
    chain,   \* the function that runs, "" if none
    at,      \* its next step
    held,    \* what it holds
    outcome  \* of the last chain: "none", "failed", "open" or "closed"

connVars == <<chain, at, held, outcome>>

ConnStep(get, give, undo) == [get |-> get, give |-> give, undo |-> undo]

\* What is closed along with a resource.
BuiltOn == [
    session |-> {"stdin"}, sftp |-> {"file"},
    client |-> {"tcp", "session", "stdin", "sftp", "file", "forward"},
    tls |-> {"tcp"}, zstd |-> {"tls", "tcp"}, yamux |-> {"control", "zstd", "tls", "tcp"},
    zstd2 |-> {"tls2"}, yamux2 |-> {"zstd2", "tls2"}]
Closes(r) == {r} \cup (IF r \in DOMAIN BuiltOn THEN BuiltOn[r] ELSE {})
CloseAll(rs) == UNION {Closes(r) : r \in rs}

-----------------------------------------------------------------------------
SSHPipes == {"stdin", "session", "client"}

DialSSH == <<
    ConnStep({"tcp"}, {}, {}), ConnStep({"client"}, {}, {"tcp"}),
    ConnStep({"session"}, {}, {"client"}), ConnStep({"stdin"}, {}, {"session", "client"}),
    ConnStep({}, {}, SSHPipes),    \* StdoutPipe
    ConnStep({}, {}, SSHPipes)>>   \* Shell

DialSSHTunnel == <<
    ConnStep({"tcp"}, {}, {}), ConnStep({"client"}, {}, {"tcp"}),
    ConnStep({"forward"}, {}, {"client"})>>

\* Request, response, response body and status. An error while the body is
\* closed leaves the connection to the garbage collector.
DialProxy == <<
    ConnStep({"tcp"}, {}, {}), ConnStep({}, {}, {"tcp"}), ConnStep({}, {}, {"tcp"}),
    ConnStep({}, {}, {}), ConnStep({}, {}, {"tcp"})>>
BodyStep == 4

DialHTTPS == <<ConnStep({"tcp"}, {}, {}), ConnStep({"tls"}, {}, {"tcp"})>>

\* SFTP session, create, copy, close and chmod; the session is closed at the
\* end and on every error path.
SFTPUpload(client) == <<
    ConnStep({"sftp"}, {}, client), ConnStep({"file"}, {}, {"sftp"} \cup client),
    ConnStep({}, {"file"}, {"file", "sftp"} \cup client),
    ConnStep({}, {"sftp"}, {"sftp"} \cup client)>>

\* Upload, then start the binary on three pipes and wait for its signal.
Deploy ==
    <<ConnStep({"tcp"}, {}, {}), ConnStep({"client"}, {}, {"tcp"})>> \o
    SFTPUpload({"client"}) \o
    <<ConnStep({"session"}, {}, {"client"}), ConnStep({"stdin"}, {}, {"session", "client"}),
      ConnStep({}, {}, SSHPipes), ConnStep({}, {}, SSHPipes), ConnStep({}, {}, SSHPipes),
      ConnStep({}, {}, SSHPipes)>>

\* Upload, move and restart on one client that is closed in any case.
upgradeOverSSH ==
    <<ConnStep({"tcp"}, {}, {}), ConnStep({"client"}, {}, {"tcp"})>> \o
    SFTPUpload({"client"}) \o
    <<ConnStep({}, {}, {"client"}), ConnStep({}, {"client", "tcp"}, {"client"})>>

\* The membrane: TLS handshake, compression, yamux, control stream; and the
\* same with two connections, of which the first carries the control stream.
Upgrade == <<
    ConnStep({"tls"}, {}, {}), ConnStep({"zstd"}, {}, {"tls"}),
    ConnStep({"yamux"}, {}, {"zstd", "tls"}), ConnStep({"control"}, {}, {"yamux", "tls"})>>

UpgradeDual == <<
    ConnStep({"tls"}, {}, {}), ConnStep({"tls2"}, {}, {"tls"}),
    ConnStep({"zstd"}, {}, {"tls", "tls2"}), ConnStep({"zstd2"}, {}, {"zstd", "tls", "tls2"}),
    ConnStep({"yamux2"}, {}, {"zstd", "zstd2", "tls", "tls2"})>>

Chains == [DialSSH |-> DialSSH, DialSSHTunnel |-> DialSSHTunnel, DialProxy |-> DialProxy,
           DialHTTPS |-> DialHTTPS, Deploy |-> Deploy, upgradeOverSSH |-> upgradeOverSSH,
           Upgrade |-> Upgrade, UpgradeDual |-> UpgradeDual]

\* What the Close method of the finished connection closes, in its order.
CloseOf(c) ==
    [DialSSH |-> SSHPipes, DialSSHTunnel |-> {"forward", "client"}, DialProxy |-> {"tcp"},
     DialHTTPS |-> {"tls"}, Deploy |-> SSHPipes, upgradeOverSSH |-> {},
     Upgrade |-> {"control", "yamux"}, UpgradeDual |-> {"zstd", "yamux2"}][c]

-----------------------------------------------------------------------------
ConnInit == chain = "" /\ at = 1 /\ held = {} /\ outcome = "none"

Begin(c) ==
    /\ chain = "" /\ outcome # "open"
    /\ chain' = c /\ at' = 1 /\ held' = {} /\ outcome' = "none"

Steps(c) == Chains[c]

StepSucceeds ==
    /\ chain # "" /\ outcome = "none"
    /\ held' = (held \cup Steps(chain)[at].get) \ Steps(chain)[at].give
    /\ at' = at + 1
    /\ outcome' = IF at = Len(Steps(chain)) THEN "open" ELSE "none"
    /\ UNCHANGED chain

ConnStepFails ==
    /\ chain # "" /\ outcome = "none"
    /\ held' = held \ CloseAll(Steps(chain)[at].undo)
    /\ outcome' = "failed"
    /\ UNCHANGED <<chain, at>>

CloseConnection ==
    /\ chain # "" /\ outcome = "open"
    /\ held' = held \ CloseAll(CloseOf(chain))
    /\ outcome' = "closed"
    /\ UNCHANGED <<chain, at>>

Done ==
    /\ outcome \in {"failed", "closed"} /\ chain # ""
    /\ chain' = "" /\ UNCHANGED <<at, held, outcome>>

ConnNext ==
    \/ \E c \in DOMAIN Chains : Begin(c)
    \/ StepSucceeds \/ ConnStepFails \/ CloseConnection \/ Done

\* Whatever step fails, and after Close, nothing of what the chain acquired is
\* still open; the one exception is the response body of a proxy
\* (proxy.go 66-68). Covers ssh.go 135-217 and 255-288, deploy.go 183-407,
\* upgrade.go 74-156, yamux.go 147-318 and https.go 23-56.
NothingStaysOpen ==
    outcome \in {"failed", "closed"} /\ chain # "" =>
        held = {} \/ (chain = "DialProxy" /\ outcome = "failed" /\ at = BodyStep)

-----------------------------------------------------------------------------
\* The layers of a link move independently of each other.
linkVars == <<frameVars, membraneVars, connVars>>
LinksInit == FrameInit /\ MembraneInit /\ ConnInit
LinksNext ==
    \/ FrameNext /\ UNCHANGED <<membraneVars, connVars>>
    \/ (PairNext \/ ListenerNext \/ ZstdNext) /\ UNCHANGED <<frameVars, connVars>>
    \/ ConnNext /\ UNCHANGED <<frameVars, membraneVars>>
LinksSpec == LinksInit /\ [][LinksNext]_linkVars

\* Nothing is torn, mismatched, lost or left open on the way from a dial to a
\* frame or a stream (codec.go, pair.go, mtls.go, grpc.go, zstd.go, ssh.go,
\* proxy.go).
LinksAreSound == FramesStayWhole /\ ConnectionsMeetOnce /\ NothingStaysOpen
=============================================================================
