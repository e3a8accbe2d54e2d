------------------------- MODULE MCRtmpHandshake -------------------------
(* Instances of RtmpHandshake for TLC.                                     *)
EXTENDS RtmpHandshake

MCAllForms == {"simple", "first", "second", "badVersion", "badDigest"}

(* Our server and a client that goes on after S2; our client; both.        *)
MCTalkative == [ours |-> {"server"}, mayQueue |-> TRUE, talkative |-> TRUE]
MCClient == [ours |-> {"client"}, mayQueue |-> TRUE, talkative |-> FALSE]
MCPair == [ours |-> {"client", "server"}, mayQueue |-> FALSE, talkative |-> FALSE]
MCSetups == {MCTalkative, MCClient, MCPair}

(* A client that waits for nothing more after S2, and the pair.            *)
MCServer == [ours |-> {"server"}, mayQueue |-> TRUE, talkative |-> FALSE]
MCDefects == {MCServer, MCPair}

=============================================================================
