---------------------------- MODULE MCHuntRecord ----------------------------
(* A small hunt for HuntRecord: two sources, two leads on two hosts. *)
EXTENDS HuntRecord

Event(pairs, host, user, session, guid, cd, time, ioc) ==
    [pairs |-> pairs, host |-> host, user |-> user, session_id |-> session,
     process_guid |-> guid, cd |-> cd, time |-> time, raw |-> TRUE, ioc |-> ioc]

\* As Splunk returns them: two rows of a process lead, a row of the same session
\* at the time of the earlier one whose source is not projected, and an untimed
\* session lead of the other source.
MCEvents == <<
    Event({"a"}, {"h1"}, {"u1"}, {"s1"}, {"g1"}, 1, 2, TRUE),
    Event({"a"}, {"h1"}, {"u1"}, {"s1"}, {"g1"}, 3, 1, TRUE),
    Event({"a", "b"}, {"h1"}, {"u1"}, {"s1"}, {}, 0, 1, FALSE),
    Event({"b"}, {"h2"}, {"u2"}, {"s2"}, {}, 2, 0, TRUE)>>

Spl(pairs, branches) == [pairs |-> pairs, branches |-> branches, raw |-> TRUE]
Session1 == {<<"host", {"h1"}>>, <<"user", {"u1"}>>, <<"session_id", {"s1"}>>}

MCPlan == <<[question |-> 1, spl |-> Spl({"a", "b"}, {})]>>
MCQuestions == <<[id |-> 1, source |-> 0, grounds |-> {}, leads |-> FALSE],
                 [id |-> 2, source |-> 0, grounds |-> {}, leads |-> TRUE]>>
MCProposals == {Spl({"a", "b"}, {Session1}), Spl({"b"}, {})}
MCNext == {"nothing", "every lead"}
=============================================================================
