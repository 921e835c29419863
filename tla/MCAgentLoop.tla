---------------------------- MODULE MCAgentLoop ----------------------------
(* AgentLoop for TLC: answers of up to two tools, with and without an earlier exchange. *)
EXTENDS AgentLoop

Start == [id |-> 1, name |-> "trigger_run"]
Read == [id |-> 2, name |-> "get_digest"]
MCBlocks == {Start, Read}
MCAnswers == {<<Read>>, <<Start>>, <<Start, Read>>}
MCHistories == {<<>>, <<User(<<>>), Assistant(<<>>)>>}
=============================================================================
