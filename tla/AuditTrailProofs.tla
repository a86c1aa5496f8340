-------------------------- MODULE AuditTrailProofs --------------------------
(***************************************************************************)
(* AuditTrail's type invariant, and that calls that take turns leave       *)
(* evidence of every event, for any number of sessions and calls.          *)
(***************************************************************************)
EXTENDS AuditTrail, TLAPS

LEMMA FirstAreStates == kind \in Kinds => FirstStates \subseteq States
BY DEF Kinds, FirstStates, States, IntentStates, ActiveOwnershipStates,
       ProvenanceStates, ExecutionStatuses

\* The tables of transitions stay among the states.
LEMMA NextAreStates ==
  ASSUME NEW state
  PROVE  NextStates(state) \subseteq States
<1>1. CASE kind = "intent" /\ state \in IntentStates
  <2>1. IntentTransitions[state] \subseteq IntentStates
    BY <1>1 DEF IntentTransitions, IntentStates, ActiveOwnershipStates,
                IntentTerminalStates, ProvenanceStates, Reclosable
  <2> QED BY <1>1, <2>1 DEF NextStates, States
<1>2. CASE ~(kind = "intent" /\ state \in IntentStates)
           /\ kind = "execution" /\ state \in ExecutionStatuses
  <2>1. ExecutionTransitions[state] \subseteq ExecutionStatuses
    BY <1>2 DEF ExecutionTransitions, ExecutionStatuses,
                ExecutionTerminalStatuses, Unfilled
  <2> QED BY <1>2, <2>1 DEF NextStates, States
<1>3. CASE ~(kind = "intent" /\ state \in IntentStates)
           /\ ~(kind = "execution" /\ state \in ExecutionStatuses)
  BY <1>3 DEF NextStates
<1> QED BY <1>1, <1>2, <1>3

LEMMA AbsentIsState == Absent \in States /\ NoRow \in Rows
BY DEF States, NoRow, Rows

\* What a call begins with has its type.
LEMMA BeginsTypes ==
  ASSUME TypeOK, NEW s \in Sessions, NEW step \in Steps \ {"idle"},
         NEW from \in States, NEW to \in States, NEW stale \in BOOLEAN,
         Begins(s, step, from, to, stale)
  PROVE  /\ calls' \in 0..MaxCalls
         /\ session' \in [Sessions -> [at : Steps, event : Events0, view : Rows]]
         /\ \A o \in Busy' : session'[o].event \in Events
         /\ overlapped' \in BOOLEAN
         /\ calls' \in 1..MaxCalls
         /\ session'[s].event = [call |-> calls', from |-> from, to |-> to]
<1>1. calls' = calls + 1 /\ calls' \in 1..MaxCalls
  BY MaxCallsAssumption DEF TypeOK, Begins
<1>2. [call |-> calls', from |-> from, to |-> to] \in Events
  BY <1>1 DEF Events
<1>3. session' \in [Sessions -> [at : Steps, event : Events0, view : Rows]]
  BY <1>2, AbsentIsState DEF TypeOK, Begins, Events0
<1>4. session'[s].event = [call |-> calls', from |-> from, to |-> to]
  BY DEF TypeOK, Begins
<1>5. \A o \in Busy' : session'[o].event \in Events
  BY <1>2 DEF TypeOK, Begins, Busy
<1> QED BY <1>1, <1>3, <1>4, <1>5 DEF TypeOK, Begins

LEMMA TypesStep == TypeOK /\ [Next]_vars => TypeOK'
<1> SUFFICES ASSUME TypeOK, [Next]_vars PROVE TypeOK'
  OBVIOUS
<1> USE DEF record, history
<1>0. Nothing \in Events0 /\ \A e \in Events : e \in Events0
  BY DEF Events0
<1>1. ASSUME NEW s \in Sessions, Load(s) PROVE TypeOK'
  BY <1>1 DEF Load, TypeOK, Busy
<1>2. ASSUME NEW s \in Sessions, Create(s) PROVE TypeOK'
  <2>1. PICK state \in FirstStates :
          /\ row' = [state |-> state, marks |-> {}]
          /\ Begins(s, "committed", Absent, Absent, FALSE)
          /\ owed' = owed \cup
                    {[call |-> calls', from |-> Absent, to |-> state]}
    BY <1>2 DEF Create
  <2>2. state \in States
    BY FirstAreStates DEF TypeOK
  <2>3. /\ calls' \in 0..MaxCalls /\ calls' \in 1..MaxCalls
        /\ session' \in [Sessions -> [at : Steps, event : Events0, view : Rows]]
        /\ \A o \in Busy' : session'[o].event \in Events
        /\ overlapped' \in BOOLEAN
    BY <2>1, BeginsTypes, AbsentIsState DEF Steps
  <2>4. row' \in Rows
    BY <2>1, <2>2 DEF Rows
  <2>5. owed' \in SUBSET Events
    BY <2>1, <2>2, <2>3, AbsentIsState DEF TypeOK, Events
  <2> QED BY <1>2, <2>3, <2>4, <2>5 DEF Create, TypeOK
<1>3. ASSUME NEW s \in Sessions, Move(s) PROVE TypeOK'
  <2> DEFINE view == session[s].view
  <2>1. view \in Rows /\ row \in Rows
    BY DEF TypeOK
  <2>2. PICK state \in NextStates(view.state), supplies \in BOOLEAN :
          /\ row' = [state |-> IF state = view.state THEN row.state ELSE state,
                     marks |-> IF supplies THEN Details(s) ELSE row.marks]
          /\ Begins(s, "committed", Previous(s, state), state, view # row)
          /\ owed' = IF state = view.state THEN owed
                     ELSE owed \cup {[call |-> calls', from |-> view.state,
                                      to |-> state]}
    BY <1>3 DEF Move
  <2>3. state \in States /\ view.state \in States
    BY <2>1, NextAreStates DEF Rows
  <2>4. Begins(s, "committed", view.state, state, view # row)
    BY <2>2 DEF Previous
  <2>5. /\ calls' \in 0..MaxCalls /\ calls' \in 1..MaxCalls
        /\ session' \in [Sessions -> [at : Steps, event : Events0, view : Rows]]
        /\ \A o \in Busy' : session'[o].event \in Events
        /\ overlapped' \in BOOLEAN
    BY <2>3, <2>4, BeginsTypes DEF Steps
  <2>6. row' \in Rows
    BY <2>1, <2>2, <2>3 DEF Rows, Details
  <2>7. owed' \in SUBSET Events
    BY <2>2, <2>3, <2>5 DEF TypeOK, Events
  <2> QED BY <1>3, <2>5, <2>6, <2>7 DEF Move, TypeOK
<1>4. ASSUME NEW s \in Sessions, Refresh(s) PROVE TypeOK'
  <2>1. session[s].event \in Events /\ row.state \in States
    BY <1>4 DEF Refresh, TypeOK, Busy, Rows
  <2>2. [session[s].event EXCEPT !.to = row.state] \in Events
    BY <2>1 DEF Events
  <2>3. CASE session[s].event.from = row.state
    BY <1>0, <1>4, <2>3 DEF Refresh, Rest, Resting, TypeOK, Busy, Steps
  <2>4. CASE session[s].event.from # row.state
    <3>1. session' = [session EXCEPT ![s] =
                        [at |-> "journal", view |-> row,
                         event |-> [session[s].event EXCEPT !.to = row.state]]]
      BY <1>4, <2>4 DEF Refresh
    <3>2. [at |-> "journal", view |-> row,
           event |-> [session[s].event EXCEPT !.to = row.state]]
            \in [at : Steps, event : Events0, view : Rows]
      BY <1>0, <2>2 DEF Steps, TypeOK
    <3>3. /\ session' \in [Sessions -> [at : Steps, event : Events0, view : Rows]]
          /\ \A o \in Busy' : session'[o].event \in Events
      BY <2>2, <3>1, <3>2 DEF TypeOK, Busy
    <3> QED BY <1>4, <3>3 DEF Refresh, TypeOK
  <2> QED BY <2>3, <2>4
<1>5. ASSUME NEW s \in Sessions, Require(s) PROVE TypeOK'
  <2> DEFINE state == session[s].view.state
  <2>1. state \in States
    BY DEF TypeOK, Rows
  <2>2. PICK step \in {"required", "guarded"} : Begins(s, step, state, state, FALSE)
    BY <1>5 DEF Require
  <2>3. /\ calls' \in 0..MaxCalls /\ calls' \in 1..MaxCalls
        /\ session' \in [Sessions -> [at : Steps, event : Events0, view : Rows]]
        /\ \A o \in Busy' : session'[o].event \in Events
        /\ overlapped' \in BOOLEAN
        /\ session'[s].event = [call |-> calls', from |-> state, to |-> state]
    BY <2>1, <2>2, BeginsTypes, ZenonT(30) DEF Steps
  <2>4. owed' \in SUBSET Events
    BY <1>5, <2>1, <2>3 DEF Require, TypeOK, Events
  <2> QED BY <1>5, <2>3, <2>4 DEF Require, TypeOK
<1>6. ASSUME NEW s \in Sessions, Journals(s) PROVE TypeOK'
  <2>1. session[s].event \in Events
    BY <1>6 DEF Journals, TypeOK, Busy
  <2> QED BY <1>0, <1>6, <2>1, AbsentIsState
          DEF Journals, Rest, Resting, TypeOK, Busy, Steps
<1>7. ASSUME NEW s \in Sessions, JournalFails(s) \/ GuardedFails(s) PROVE TypeOK'
  <2>1. GoesTo(s, "mark") /\ session[s].at # "idle"
    BY <1>7 DEF JournalFails, GuardedFails
  <2>2. /\ session' \in [Sessions -> [at : Steps, event : Events0, view : Rows]]
        /\ \A o \in Busy' : session'[o].event \in Events
    BY <2>1, AbsentIsState, ZenonT(30) DEF GoesTo, TypeOK, Busy, Steps
  <2> QED BY <1>7, <2>2 DEF JournalFails, GuardedFails, TypeOK
<1>8. ASSUME NEW s \in Sessions, RequiredFails(s) PROVE TypeOK'
  <2>1. session[s].event \in Events
    BY <1>8 DEF RequiredFails, TypeOK, Busy
  <2> QED BY <1>0, <1>8, <2>1, AbsentIsState
          DEF RequiredFails, Rest, Resting, TypeOK, Busy, Steps
<1>9. ASSUME NEW s \in Sessions, MarkReads(s) PROVE TypeOK'
  <2>1. session[s].event \in Events /\ row \in Rows /\ row.state \in States
    BY <1>9 DEF MarkReads, TypeOK, Busy, Rows
  <2>2. About(session[s].event) \in Events
    BY <2>1 DEF Events, About
  <2>3. session' = [session EXCEPT ![s] =
                     [at |-> "marking", view |-> row,
                      event |-> About(session[s].event)]]
    BY <1>9 DEF MarkReads
  <2>4. /\ session' \in [Sessions -> [at : Steps, event : Events0, view : Rows]]
        /\ \A o \in Busy' : session'[o].event \in Events
    BY <1>0, <2>1, <2>2, <2>3 DEF TypeOK, Busy, Steps
  <2> QED BY <1>9, <2>4 DEF MarkReads, TypeOK
<1>10. ASSUME NEW s \in Sessions, MarkWrites(s) PROVE TypeOK'
  <2>1. session[s].event \in Events /\ session[s].view \in Rows
    BY <1>10 DEF MarkWrites, TypeOK, Busy
  <2>2. row' \in Rows
    BY <1>10, <2>1 DEF MarkWrites, TypeOK, Rows
  <2> QED BY <1>0, <1>10, <2>2
          DEF MarkWrites, Rest, Resting, TypeOK, Busy, Steps
<1>11. ASSUME NEW s \in Sessions, MarkFails(s) PROVE TypeOK'
  BY <1>0, <1>11, AbsentIsState
  DEF MarkFails, Rest, Resting, TypeOK, Busy, Steps
<1>12. CASE Crash
  BY <1>0, <1>12, AbsentIsState DEF Crash, Resting, TypeOK, Busy, Steps
<1>13. CASE UNCHANGED vars
  BY <1>13 DEF vars, TypeOK, Busy
<1> QED
  BY <1>1, <1>2, <1>3, <1>4, <1>5, <1>6, <1>7, <1>8, <1>9, <1>10, <1>11,
     <1>12, <1>13 DEF Next

LEMMA TypesInit == Init => TypeOK
<1> SUFFICES ASSUME Init PROVE TypeOK
  OBVIOUS
<1>1. Resting(NoRow) \in [at : Steps, event : Events0, view : Rows]
  BY AbsentIsState DEF Resting, Steps, Events0
<1>2. session \in [Sessions -> [at : Steps, event : Events0, view : Rows]]
  BY <1>1 DEF Init
<1>3. Busy = {}
  BY DEF Init, Busy, Resting
<1>4. calls \in 0..MaxCalls
  BY MaxCallsAssumption DEF Init
<1> QED BY AbsentIsState, <1>2, <1>3, <1>4 DEF Init, TypeOK

\* The type invariant of the record, the sessions and the evidence.
THEOREM EvidenceTypes == Spec => []TypeOK
BY TypesInit, TypesStep, PTL DEF Spec

-----------------------------------------------------------------------------
(* Evidence                                                                *)

Evidence == told \cup row.marks \cup raised

\* What a session at x is still to tell of a row in this state.
PendingOf(x, state) ==
  CASE x.at = "idle" -> {}
    [] x.at = "committed" ->
         IF x.event.from = state THEN {} ELSE {[x.event EXCEPT !.to = state]}
    [] OTHER -> {x.event}
Pending == UNION {PendingOf(session[s], row.state) : s \in Sessions}

\* One call at a time; its copy and its event are about the row as it is.
OneAtATime == \A s, o \in Busy : s = o
UpToDate ==
  \A s \in Busy :
    /\ session[s].at = "marking" => session[s].view = row
    /\ /\ session[s].at \in {"journal", "guarded", "mark", "marking"}
       /\ IsMove(session[s].event)
       => session[s].event.to = row.state

\* Calls are numbered: a new one is unlike those there is evidence of.
Numbered ==
  /\ \A e \in Evidence : e.call <= calls
  /\ \A s \in Busy, e \in Evidence : e.call # session[s].event.call
  /\ \A s \in Busy : session[s].event.call <= calls
  /\ told \cap (row.marks \cup raised) = {}

Complete ==
  ~spoiled => owed = Evidence \cup Pending

Sound == ~overlapped => OneAtATime /\ UpToDate /\ Numbered /\ Complete
IInv == TypeOK /\ Sound

-----------------------------------------------------------------------------

LEMMA PendingOfOne ==
  ASSUME NEW ss, NEW state, NEW s \in Sessions,
         \A o \in Sessions \ {s} : ss[o].at = "idle"
  PROVE  UNION {PendingOf(ss[o], state) : o \in Sessions} = PendingOf(ss[s], state)
<1>1. \A o \in Sessions \ {s} : PendingOf(ss[o], state) = {}
  BY DEF PendingOf
<1> QED BY <1>1

LEMMA NonePending ==
  ASSUME \A s \in Sessions : session[s].at = "idle"
  PROVE  Pending = {}
<1>1. \A s \in Sessions : PendingOf(session[s], row.state) = {}
  BY DEF PendingOf
<1> QED BY <1>1 DEF Pending

\* When nobody but s is at work, before the step and after it, Sound is about
\* where s gets to.
LEMMA StepOfOne ==
  ASSUME TypeOK, NEW s \in Sessions, \A o \in Busy : o = s, NEW x,
         session' = [session EXCEPT ![s] = x],
         x.at # "idle" =>
           /\ x.at = "marking" => x.view = row'
           /\ x.at \in {"journal", "guarded", "mark", "marking"} /\ IsMove(x.event)
                => x.event.to = row'.state
           /\ x.event.call <= calls'
           /\ \A e \in Evidence' : e.call # x.event.call,
         \A e \in Evidence' : e.call <= calls',
         told' \cap (row'.marks \cup raised') = {},
         ~spoiled' => owed' = Evidence' \cup PendingOf(x, row'.state)
  PROVE  Sound'
<1>1. session'[s] = x /\ \A o \in Sessions \ {s} : session'[o].at = "idle"
  BY DEF TypeOK, Busy
<1>2. \A o \in Busy' : o = s /\ session'[o] = x /\ x.at # "idle"
  BY <1>1 DEF Busy
<1>3. Pending' = PendingOf(x, row'.state)
  <2> DEFINE ss == session'
             state == row'.state
  <2> HIDE DEF ss, state
  <2>0. \A o \in Sessions \ {s} : ss[o].at = "idle"
    BY <1>1 DEF ss
  <2>1. UNION {PendingOf(ss[o], state) : o \in Sessions} = PendingOf(ss[s], state)
    BY <2>0, PendingOfOne
  <2> QED BY <1>1, <2>1 DEF Pending, ss, state
<1>4. OneAtATime'
  BY <1>2 DEF OneAtATime
<1>5. UpToDate'
  BY <1>2 DEF UpToDate, IsMove
<1>6. Numbered'
  BY <1>2 DEF Numbered
<1>7. Complete'
  BY <1>3 DEF Complete
<1> QED BY <1>4, <1>5, <1>6, <1>7 DEF Sound

\* What Sound says of s, the only one at work.
LEMMA SoundOfOne ==
  ASSUME TypeOK, Sound, ~overlapped, NEW s \in Sessions, s \in Busy
  PROVE  /\ \A o \in Busy : o = s
         /\ session[s].at = "marking" => session[s].view = row
         /\ /\ session[s].at \in {"journal", "guarded", "mark", "marking"}
            /\ IsMove(session[s].event)
            => session[s].event.to = row.state
         /\ session[s].event \in Events /\ session[s].event.call <= calls
         /\ \A e \in Evidence : e.call <= calls /\ e.call # session[s].event.call
         /\ told \cap (row.marks \cup raised) = {}
         /\ ~spoiled => owed = Evidence \cup PendingOf(session[s], row.state)
<1>1. \A o \in Busy : o = s
  BY DEF Sound, OneAtATime
<1>2. Pending = PendingOf(session[s], row.state)
  BY <1>1, PendingOfOne DEF Pending, Busy
<1> QED BY <1>1, <1>2 DEF Sound, UpToDate, Numbered, Complete, TypeOK

\* What Sound says when nobody is at work.
LEMMA SoundOfNone ==
  ASSUME TypeOK, Sound, ~overlapped, Busy = {}
  PROVE  /\ calls \in Nat
         /\ \A e \in Evidence : e.call \in Nat /\ e.call <= calls
         /\ told \cap (row.marks \cup raised) = {}
         /\ ~spoiled => owed = Evidence
<1>1. Pending = {}
  BY NonePending DEF Busy
<1>2. Numbered /\ Complete
  BY DEF Sound
<1>3. \A e \in Evidence : e \in Events
  BY DEF Evidence, TypeOK, Rows
<1>4. calls \in Nat /\ \A e \in Evidence : e.call \in Nat
  BY <1>3, MaxCallsAssumption DEF Events, TypeOK
<1> QED BY <1>1, <1>2, <1>4 DEF Numbered, Complete

LEMMA SoundStep == TypeOK /\ Sound /\ [Next]_vars => Sound'
<1> SUFFICES ASSUME TypeOK, Sound, [Next]_vars, ~overlapped' PROVE Sound'
  BY DEF Sound
<1> USE DEF record, history
<1>1. ASSUME NEW s \in Sessions, Load(s) PROVE Sound'
  <2>1. \A o \in Sessions : /\ session'[o].at = session[o].at
                            /\ o \in Busy => session'[o] = session[o]
    BY <1>1 DEF Load, TypeOK, Busy
  <2>2. Busy' = Busy
    BY <2>1 DEF Busy
  <2>3. \A o \in Sessions : PendingOf(session'[o], row.state)
                              = PendingOf(session[o], row.state)
    BY <2>1 DEF PendingOf, Busy
  <2>4. Pending' = Pending
    BY <1>1, <2>3 DEF Pending, Load
  <2>5. OneAtATime /\ UpToDate /\ Numbered /\ Complete
    BY <1>1 DEF Load, Sound
  <2>6. OneAtATime' /\ UpToDate'
    BY <1>1, <2>1, <2>2, <2>5 DEF Load, OneAtATime, UpToDate, IsMove
  <2>7. Numbered' /\ Complete'
    BY <1>1, <2>1, <2>2, <2>4, <2>5 DEF Load, Numbered, Complete, Evidence
  <2> QED BY <2>6, <2>7 DEF Sound
<1>2. ASSUME NEW s \in Sessions, Create(s) PROVE Sound'
  <2>1. PICK state \in FirstStates :
          /\ row' = [state |-> state, marks |-> {}]
          /\ Begins(s, "committed", Absent, Absent, FALSE)
          /\ owed' = owed \cup
                    {[call |-> calls', from |-> Absent, to |-> state]}
    BY <1>2 DEF Create
  <2> DEFINE x == [at |-> "committed", view |-> NoRow,
                   event |-> [call |-> calls', from |-> Absent, to |-> Absent]]
  <2>2. /\ Busy = {} /\ calls' = calls + 1 /\ calls \in Nat
        /\ session' = [session EXCEPT ![s] = x]
        /\ \A e \in Evidence : e.call <= calls /\ e.call # calls'
        /\ told \cap (row.marks \cup raised) = {}
        /\ ~spoiled => owed = Evidence
    <3>1. /\ session' = [session EXCEPT ![s] = x] /\ calls' = calls + 1
          /\ overlapped' = (overlapped \/ FALSE \/ Busy # {})
      BY <2>1 DEF Begins
    <3>2. ~overlapped /\ Busy = {}
      BY <3>1
    <3> HIDE DEF x
    <3> QED BY <3>1, <3>2, SoundOfNone
  <2>3. Evidence' = Evidence
    BY <1>2, <2>1 DEF Create, NoRow, Evidence
  <2>4. \A e \in Evidence : e.call <= calls'
    BY <2>2, MaxCallsAssumption DEF Evidence, TypeOK, Rows, Events
  <2>5. state # Absent
    BY DEF FirstStates, Absent, ProvenanceStates, TypeOK, Kinds
  <2>6. PendingOf(x, row'.state)
          = {[call |-> calls', from |-> Absent, to |-> state]}
    BY <2>1, <2>5 DEF PendingOf
  <2>7. x.at = "committed" /\ x.event.call = calls'
    OBVIOUS
  <2>8. x.event.call <= calls' /\ \A e \in Evidence' : e.call # x.event.call
    BY <2>2, <2>3, <2>7
  <2>9. told' \cap (row'.marks \cup raised') = {}
    BY <1>2, <2>1, <2>2 DEF Create, NoRow
  <2>10. ~spoiled' => owed' = Evidence' \cup PendingOf(x, row'.state)
    BY <1>2, <2>1, <2>2, <2>3, <2>6 DEF Create
  <2> HIDE DEF x
  <2> QED BY <2>2, <2>3, <2>4, <2>7, <2>8, <2>9, <2>10, StepOfOne
<1>3. ASSUME NEW s \in Sessions, Move(s) PROVE Sound'
  <2> DEFINE view == session[s].view
  <2>1. PICK state \in NextStates(view.state), supplies \in BOOLEAN :
          /\ row' = [state |-> IF state = view.state THEN row.state ELSE state,
                     marks |-> IF supplies THEN Details(s) ELSE row.marks]
          /\ Begins(s, "committed", Previous(s, state), state, view # row)
          /\ owed' = IF state = view.state THEN owed
                     ELSE owed \cup {[call |-> calls', from |-> view.state,
                                      to |-> state]}
    BY <1>3 DEF Move
  <2> DEFINE x == [at |-> "committed", view |-> NoRow,
                   event |-> [call |-> calls', from |-> view.state, to |-> state]]
  <2>2. Begins(s, "committed", view.state, state, view # row)
    BY <2>1 DEF Previous
  <2>3. /\ Busy = {} /\ calls' = calls + 1 /\ calls \in Nat
        /\ session' = [session EXCEPT ![s] = x]
        /\ view = row
        /\ \A e \in Evidence : e.call <= calls /\ e.call # calls'
        /\ told \cap (row.marks \cup raised) = {}
        /\ ~spoiled => owed = Evidence
    <3>1. /\ session' = [session EXCEPT ![s] = x] /\ calls' = calls + 1
          /\ overlapped' = (overlapped \/ view # row \/ Busy # {})
      BY <2>2 DEF Begins
    <3>2. ~overlapped /\ view = row /\ Busy = {}
      BY <3>1
    <3> HIDE DEF x
    <3> QED BY <3>1, <3>2, SoundOfNone
  <2>4. row'.marks = row.marks /\ row'.state = state
    BY <2>1, <2>3 DEF Details
  <2>5. Evidence' = Evidence
    BY <1>3, <2>4 DEF Move, Evidence
  <2>6. \A e \in Evidence : e.call <= calls'
    BY <2>3, MaxCallsAssumption DEF Evidence, TypeOK, Rows, Events
  <2>7. PendingOf(x, row'.state)
          = IF state = view.state THEN {}
            ELSE {[call |-> calls', from |-> view.state, to |-> state]}
    BY <2>4 DEF PendingOf
  <2>8. x.at = "committed" /\ x.event.call = calls'
    OBVIOUS
  <2>9. x.event.call <= calls' /\ \A e \in Evidence' : e.call # x.event.call
    BY <2>3, <2>5, <2>8
  <2>10. told' \cap (row'.marks \cup raised') = {}
    BY <1>3, <2>3, <2>4 DEF Move
  <2>11. ~spoiled' => owed' = Evidence' \cup PendingOf(x, row'.state)
    BY <1>3, <2>1, <2>3, <2>5, <2>7 DEF Move
  <2> HIDE DEF x
  <2> QED BY <2>3, <2>5, <2>6, <2>8, <2>9, <2>10, <2>11, StepOfOne
<1>4. ASSUME NEW s \in Sessions, Require(s) PROVE Sound'
  <2> DEFINE state == session[s].view.state
  <2>1. PICK step \in {"required", "guarded"} : Begins(s, step, state, state, FALSE)
    BY <1>4 DEF Require
  <2> DEFINE event == [call |-> calls', from |-> state, to |-> state]
             x == [at |-> step, view |-> NoRow, event |-> event]
  <2>2. /\ Busy = {} /\ calls' = calls + 1 /\ calls \in Nat
        /\ session' = [session EXCEPT ![s] = x]
        /\ \A e \in Evidence : e.call <= calls /\ e.call # calls'
        /\ told \cap (row.marks \cup raised) = {}
        /\ ~spoiled => owed = Evidence
    <3>1. /\ session' = [session EXCEPT ![s] = x] /\ calls' = calls + 1
          /\ overlapped' = (overlapped \/ FALSE \/ Busy # {})
      BY <2>1 DEF Begins
    <3>2. ~overlapped /\ Busy = {}
      BY <3>1
    <3> HIDE DEF x
    <3> QED BY <3>1, <3>2, SoundOfNone
  <2>3. Evidence' = Evidence
    BY <1>4 DEF Require, Evidence
  <2>4. \A e \in Evidence : e.call <= calls'
    BY <2>2, MaxCallsAssumption DEF Evidence, TypeOK, Rows, Events
  <2>5. session'[s].event = event
    BY <2>2 DEF TypeOK
  <2>6. PendingOf(x, row'.state) = {event}
    BY DEF PendingOf
  <2>7. x.at \in {"required", "guarded"} /\ x.event.call = calls' /\ ~IsMove(x.event)
    BY DEF IsMove
  <2>8. x.event.call <= calls' /\ \A e \in Evidence' : e.call # x.event.call
    BY <2>2, <2>3, <2>7
  <2>9. ~spoiled' => owed' = Evidence' \cup PendingOf(x, row'.state)
    BY <1>4, <2>2, <2>3, <2>5, <2>6 DEF Require
  <2>10. told' \cap (row'.marks \cup raised') = {}
    BY <1>4, <2>2 DEF Require
  <2> HIDE DEF x
  <2> QED BY <2>2, <2>3, <2>4, <2>7, <2>8, <2>9, <2>10, StepOfOne
<1>5. ASSUME NEW s \in Sessions, s \in Busy, overlapped' = overlapped,
             calls' = calls, owed' = owed,
             Refresh(s) \/ Journals(s) \/ JournalFails(s) \/ GuardedFails(s)
               \/ RequiredFails(s) \/ MarkReads(s) \/ MarkWrites(s)
               \/ MarkFails(s)
      PROVE  Sound'
  <2> DEFINE event == session[s].event
             Told == Evidence \cup {event}
  <2>0. /\ ~overlapped /\ \A o \in Busy : o = s
        /\ session[s].at = "marking" => session[s].view = row
        /\ session[s].at \in {"journal", "guarded", "mark", "marking"} /\ IsMove(event)
            => event.to = row.state
        /\ event \in Events /\ event.call <= calls
        /\ \A e \in Evidence : e.call <= calls /\ e.call # event.call
        /\ told \cap (row.marks \cup raised) = {}
        /\ ~spoiled => owed = Evidence \cup PendingOf(session[s], row.state)
    BY <1>5, SoundOfOne
  <2>a. event \notin Evidence
    BY <2>0
  <2>1. CASE Refresh(s)
    <3>1. Evidence' = Evidence /\ row' = row /\ told' = told /\ raised' = raised
            /\ spoiled' = spoiled
      BY <2>1 DEF Refresh, Evidence
    <3>2. CASE event.from = row.state
      <4> DEFINE x == Resting(row)
      <4>1. session' = [session EXCEPT ![s] = x]
        BY <2>1, <3>2 DEF Refresh, Rest
      <4>2. PendingOf(session[s], row.state) = {} /\ PendingOf(x, row.state) = {}
        BY <2>1, <3>2 DEF Refresh, PendingOf, Resting
      <4>3. x.at = "idle"
        BY DEF Resting
      <4> HIDE DEF x
      <4> QED BY <1>5, <2>0, <3>1, <4>1, <4>2, <4>3, StepOfOne
    <3>3. CASE event.from # row.state
      <4> DEFINE x == [at |-> "journal", view |-> row,
                       event |-> [event EXCEPT !.to = row.state]]
      <4>1. session' = [session EXCEPT ![s] = x]
        BY <2>1, <3>3 DEF Refresh
      <4>2. PendingOf(session[s], row.state) = {[event EXCEPT !.to = row.state]}
        BY <2>1, <3>3 DEF Refresh, PendingOf
      <4>3. PendingOf(x, row.state) = {[event EXCEPT !.to = row.state]}
        BY DEF PendingOf
      <4>4. x.at = "journal" /\ x.event.call = event.call /\ x.event.to = row.state
        BY <2>0 DEF Events
      <4> HIDE DEF x
      <4> QED BY <1>5, <2>0, <3>1, <4>1, <4>2, <4>3, <4>4, StepOfOne
    <3> QED BY <3>2, <3>3
  <2>2. CASE Journals(s) \/ RequiredFails(s)
    <3> DEFINE x == Resting(NoRow)
    <3>1. /\ session' = [session EXCEPT ![s] = x]
          /\ session[s].at \in {"journal", "required", "guarded"}
          /\ row' = row /\ spoiled' = spoiled
          /\ \/ told' = told \cup {event} /\ raised' = raised
             \/ told' = told /\ raised' = raised \cup {event}
      BY <2>2 DEF Journals, RequiredFails, Rest
    <3>2. Evidence' = Told
      BY <3>1 DEF Evidence
    <3>3. told' \cap (row'.marks \cup raised') = {}
      BY <2>0, <2>a, <3>1 DEF Evidence
    <3>4. PendingOf(session[s], row.state) = {event} /\ PendingOf(x, row'.state) = {}
      BY <3>1 DEF PendingOf, Resting
    <3>5. x.at = "idle"
      BY DEF Resting
    <3>6. \A e \in Evidence' : e.call <= calls'
      BY <1>5, <2>0, <3>2
    <3>7. ~spoiled' => owed' = Evidence' \cup PendingOf(x, row'.state)
      BY <1>5, <2>0, <3>1, <3>2, <3>4
    <3> HIDE DEF x
    <3> QED BY <2>0, <3>1, <3>3, <3>5, <3>6, <3>7, StepOfOne
  <2>3. CASE JournalFails(s) \/ GuardedFails(s)
    <3> DEFINE x == [at |-> "mark", view |-> NoRow, event |-> event]
    <3>1. /\ session' = [session EXCEPT ![s] = x]
          /\ session[s].at \in {"journal", "guarded"}
          /\ row' = row /\ spoiled' = spoiled /\ told' = told /\ raised' = raised
      BY <2>3 DEF JournalFails, GuardedFails, GoesTo, TypeOK
    <3>2. Evidence' = Evidence
      BY <3>1 DEF Evidence
    <3>3. PendingOf(session[s], row.state) = {event}
          /\ PendingOf(x, row'.state) = {event}
      BY <3>1 DEF PendingOf
    <3>4. x.at = "mark" /\ x.event = event
      OBVIOUS
    <3>5. IsMove(x.event) => x.event.to = row'.state
      BY <2>3, <2>0, <3>1, <3>4 DEF JournalFails, GuardedFails
    <3> HIDE DEF x
    <3> QED BY <1>5, <2>0, <3>1, <3>2, <3>3, <3>4, <3>5, StepOfOne
  <2>4. CASE MarkReads(s)
    <3> DEFINE x == [at |-> "marking", view |-> row, event |-> event]
    <3>1. About(event) = event
      BY <2>0, <2>4 DEF MarkReads, About, Events
    <3>2. /\ session' = [session EXCEPT ![s] = x]
          /\ session[s].at = "mark"
          /\ row' = row /\ spoiled' = spoiled /\ told' = told /\ raised' = raised
      BY <2>4, <3>1 DEF MarkReads
    <3>3. Evidence' = Evidence
      BY <3>2 DEF Evidence
    <3>4. PendingOf(session[s], row.state) = {event}
          /\ PendingOf(x, row'.state) = {event}
      BY <3>2 DEF PendingOf
    <3>5. x.at = "marking" /\ x.event = event /\ x.view = row
      OBVIOUS
    <3> HIDE DEF x
    <3> QED BY <1>5, <2>0, <3>2, <3>3, <3>4, <3>5, StepOfOne
  <2>5. CASE MarkWrites(s)
    <3> DEFINE x == Resting(row')
    <3>1. /\ session' = [session EXCEPT ![s] = x]
          /\ session[s].at = "marking"
          /\ row'.marks = row.marks \cup {event} /\ row'.state = row.state
          /\ spoiled' = spoiled /\ told' = told /\ raised' = raised
      BY <2>0, <2>5 DEF MarkWrites, Rest, TypeOK, Rows
    <3>2. Evidence' = Told
      BY <3>1 DEF Evidence
    <3>3. told' \cap (row'.marks \cup raised') = {}
      BY <2>0, <2>a, <3>1 DEF Evidence
    <3>4. PendingOf(session[s], row.state) = {event} /\ PendingOf(x, row'.state) = {}
      BY <3>1 DEF PendingOf, Resting
    <3>5. x.at = "idle"
      BY DEF Resting
    <3>6. \A e \in Evidence' : e.call <= calls'
      BY <1>5, <2>0, <3>2
    <3>7. ~spoiled' => owed' = Evidence' \cup PendingOf(x, row'.state)
      BY <1>5, <2>0, <3>1, <3>2, <3>4
    <3> HIDE DEF x
    <3> QED BY <2>0, <3>1, <3>3, <3>5, <3>6, <3>7, StepOfOne
  <2>6. CASE MarkFails(s)
    <3> DEFINE x == Resting(NoRow)
    <3>1. /\ session' = [session EXCEPT ![s] = x]
          /\ row' = row /\ spoiled' /\ told' = told /\ raised' = raised
      BY <2>6 DEF MarkFails, Rest
    <3>2. Evidence' = Evidence
      BY <3>1 DEF Evidence
    <3>3. x.at = "idle"
      BY DEF Resting
    <3> HIDE DEF x
    <3> QED BY <1>5, <2>0, <3>1, <3>2, <3>3, StepOfOne
  <2> QED BY <1>5, <2>1, <2>2, <2>3, <2>4, <2>5, <2>6
<1>6. CASE Crash
  <2>1. Busy' = {}
    BY <1>6 DEF Crash, Busy, Resting
  <2>2. Evidence' = Evidence /\ spoiled' /\ told' = told /\ calls' = calls
        /\ raised' = raised /\ row' = row /\ ~overlapped
    BY <1>6 DEF Crash, Evidence
  <2>3. Numbered
    BY <2>2 DEF Sound
  <2>4. Numbered'
    BY <2>1, <2>2, <2>3 DEF Numbered
  <2>5. OneAtATime' /\ UpToDate' /\ Complete'
    BY <2>1, <2>2 DEF OneAtATime, UpToDate, Complete
  <2> QED BY <2>4, <2>5 DEF Sound
<1>7. CASE UNCHANGED vars
  BY <1>7 DEF vars, Sound, OneAtATime, UpToDate, Numbered, Complete, Busy,
              Evidence, Pending, IsMove
<1>8. ASSUME NEW s \in Sessions,
             Refresh(s) \/ Journals(s) \/ JournalFails(s) \/ GuardedFails(s)
               \/ RequiredFails(s) \/ MarkReads(s) \/ MarkWrites(s)
               \/ MarkFails(s)
      PROVE  /\ s \in Busy /\ overlapped' = overlapped /\ calls' = calls
             /\ owed' = owed
  BY <1>8 DEF Refresh, Journals, JournalFails, GuardedFails, RequiredFails,
              MarkReads, MarkWrites, MarkFails, Busy
<1> QED
  BY <1>1, <1>2, <1>3, <1>4, <1>5, <1>6, <1>7, <1>8 DEF Next

LEMMA SoundInit == Init => Sound
<1> SUFFICES ASSUME Init PROVE Sound
  OBVIOUS
<1>1. Busy = {} /\ \A s \in Sessions : session[s].at = "idle"
  BY DEF Init, Busy, Resting
<1>2. Evidence = {}
  BY DEF Init, Evidence, NoRow
<1>3. Pending = {}
  BY <1>1, NonePending
<1>4. OneAtATime /\ UpToDate /\ Complete
  BY <1>1, <1>2, <1>3 DEF OneAtATime, UpToDate, Complete, Init
<1>5. Numbered
  BY <1>1, <1>2 DEF Numbered, Init
<1> QED BY <1>4, <1>5 DEF Sound

LEMMA Inductive == Spec => []IInv
<1>1. Init => IInv
  BY TypesInit, SoundInit DEF IInv
<1>2. IInv /\ [Next]_vars => IInv'
  BY TypesStep, SoundStep DEF IInv
<1> QED BY <1>1, <1>2, PTL DEF Spec

\* Calls that take turns leave evidence of all they owe.
THEOREM CompleteEvidence == Spec => []EvidenceIsComplete
<1>1. IInv => EvidenceIsComplete
  <2> SUFFICES ASSUME IInv, ~overlapped, ~spoiled, Busy = {}
               PROVE  /\ owed = told \cup row.marks \cup raised
                      /\ told \cap (row.marks \cup raised) = {}
    BY DEF EvidenceIsComplete
  <2>1. \A s \in Sessions : session[s].at = "idle"
    BY DEF Busy
  <2>2. Pending = {}
    BY <2>1, NonePending
  <2> QED BY <2>2 DEF IInv, Sound, Numbered, Complete, Evidence
<1> QED BY Inductive, <1>1, PTL

-----------------------------------------------------------------------------
(* The newest state                                                        *)

\* Before the record is created nobody works on it or has a copy; afterwards
\* it has a state.
Created ==
  IF row = NoRow THEN \A s \in Sessions : session[s] = Resting(NoRow)
                 ELSE row.state # Absent

\* The event about the state of the record is told, on its way, or will be
\* made when the call that has changed the state reads it back.
TellsNewest(x, state) ==
  \/ x.at = "committed" /\ x.event.from # state
  \/ x.at = "journal" /\ IsMove(x.event) /\ x.event.to = state
Known == \/ \E event \in told : IsMove(event) /\ event.to = row.state
         \/ \E s \in Sessions : TellsNewest(session[s], row.state)

NewestInv == TypeOK /\ Created /\ (row # NoRow /\ ~lost /\ ~spoiled => Known)

LEMMA StatesAreThere ==
  /\ TypeOK => Absent \notin FirstStates
  /\ \A state : Absent \notin NextStates(state)
<1>1. TypeOK => Absent \notin FirstStates
  BY DEF TypeOK, Kinds, FirstStates, ProvenanceStates, Absent
<1>2. \A state : Absent \notin NextStates(state)
  <2> SUFFICES ASSUME NEW state PROVE Absent \notin NextStates(state)
    OBVIOUS
  <2>1. CASE kind = "intent" /\ state \in IntentStates
    <3>1. IntentTransitions[state] \subseteq IntentStates
      BY <2>1 DEF IntentTransitions, IntentStates, ActiveOwnershipStates,
                  IntentTerminalStates, ProvenanceStates, Reclosable
    <3>2. Absent \notin IntentStates
      BY DEF IntentStates, ActiveOwnershipStates, IntentTerminalStates,
             ProvenanceStates, Absent
    <3> QED
      BY <2>1, <3>1, <3>2 DEF NextStates
  <2>2. CASE ~(kind = "intent" /\ state \in IntentStates)
             /\ kind = "execution" /\ state \in ExecutionStatuses
    <3>1. ExecutionTransitions[state] \subseteq ExecutionStatuses
      BY <2>2 DEF ExecutionTransitions, ExecutionStatuses,
                  ExecutionTerminalStatuses, Unfilled
    <3>2. Absent \notin ExecutionStatuses
      BY DEF ExecutionStatuses, ExecutionTerminalStatuses, Absent
    <3> QED
      BY <2>2, <3>1, <3>2 DEF NextStates
  <2>3. CASE ~(kind = "intent" /\ state \in IntentStates)
             /\ ~(kind = "execution" /\ state \in ExecutionStatuses)
    BY <2>3 DEF NextStates
  <2> QED
    BY <2>1, <2>2, <2>3
<1> QED
  BY <1>1, <1>2

\* A session that is not about to tell the newest state may do anything but
\* change that state.
LEMMA KnownKept ==
  ASSUME TypeOK, Known, NEW s \in Sessions, NEW x,
         session' = [session EXCEPT ![s] = x],
         row'.state = row.state, told \subseteq told',
         TellsNewest(session[s], row.state) => Known'
  PROVE  Known'
<1>1. CASE \E event \in told : IsMove(event) /\ event.to = row.state
  BY <1>1 DEF Known
<1>2. CASE \E o \in Sessions : TellsNewest(session[o], row.state)
  <2>1. PICK o \in Sessions : TellsNewest(session[o], row.state)
    BY <1>2
  <2>2. CASE o = s
    BY <2>1, <2>2
  <2>3. CASE o # s
    <3>1. session'[o] = session[o]
      BY <2>3 DEF TypeOK
    <3>2. TellsNewest(session'[o], row'.state)
      BY <2>1, <3>1
    <3> QED
      BY <3>2 DEF Known
  <2> QED
    BY <2>2, <2>3
<1> QED
  BY <1>1, <1>2 DEF Known

\* A call begins on a record that exists.
LEMMA CreatedStep ==
  ASSUME TypeOK, Created, [Next]_vars
  PROVE  Created'
<1>1. CASE row = NoRow
  <2>1. \A s \in Sessions : session[s].at = "idle" /\ session[s].view = NoRow
    BY <1>1 DEF Created, Resting
  <2>2. UNCHANGED vars \/ \E s \in Sessions : Create(s)
    BY <1>1, <2>1 DEF Next, Load, Move, Refresh, Require, Journals,
       JournalFails, RequiredFails, GuardedFails, MarkReads, MarkWrites,
       MarkFails, Crash, Busy
  <2>3. ASSUME NEW s \in Sessions, Create(s) PROVE Created'
    <3>1. PICK state \in FirstStates : row' = [state |-> state, marks |-> {}]
      BY <2>3 DEF Create
    <3> QED
      BY <3>1, StatesAreThere DEF Created, NoRow
  <2>4. CASE UNCHANGED vars
    BY <2>4 DEF vars, record, Created
  <2> QED
    BY <2>2, <2>3, <2>4
<1>2. CASE row # NoRow
  <2>1. row.state # Absent
    BY <1>2 DEF Created
  <2>2. row'.state # Absent
    <3>1. ASSUME NEW s \in Sessions, Move(s) PROVE row'.state # Absent
      <4>1. PICK state \in NextStates(session[s].view.state) :
              row'.state = IF state = session[s].view.state THEN row.state
                                                            ELSE state
        BY <3>1 DEF Move
      <4> QED
        BY <2>1, <4>1, StatesAreThere
    <3>2. ASSUME NEW s \in Sessions, MarkWrites(s) PROVE row'.state # Absent
      BY <2>1, <3>2 DEF MarkWrites, TypeOK, Rows
    <3>3. ASSUME row' = row PROVE row'.state # Absent
      BY <2>1, <3>3
    <3> QED
      BY <1>2, <3>1, <3>2, <3>3 DEF Next, Load, Create, Refresh, Require,
         Journals, JournalFails, RequiredFails, GuardedFails, MarkReads,
         MarkFails, Crash, vars, record
  <2> QED
    BY <2>2 DEF Created, NoRow
<1> QED
  BY <1>1, <1>2

\* The newest state stays known.
LEMMA KnownStep ==
  ASSUME NewestInv, [Next]_vars, row' # NoRow, ~lost', ~spoiled'
  PROVE  Known'
<1>1. TypeOK /\ Created /\ (row # NoRow /\ ~lost /\ ~spoiled => Known)
  BY DEF NewestInv
<1>2. CASE UNCHANGED vars
  BY <1>1, <1>2 DEF vars, record, history, Known
<1>3. ASSUME NEW s \in Sessions, Create(s) PROVE Known'
  <2>1. PICK state \in FirstStates :
          /\ row' = [state |-> state, marks |-> {}]
          /\ Begins(s, "committed", Absent, Absent, FALSE)
    BY <1>3 DEF Create
  <2>2. session'[s].at = "committed" /\ session'[s].event.from = Absent
    BY <1>1, <2>1 DEF Begins, TypeOK
  <2>3. row'.state # Absent
    BY <1>1, <2>1, StatesAreThere
  <2>4. TellsNewest(session'[s], row'.state)
    BY <2>2, <2>3 DEF TellsNewest
  <2> QED
    BY <2>4 DEF Known
<1>4. ASSUME NEW s \in Sessions, Move(s) PROVE Known'
  <2> DEFINE view == session[s].view
  <2>1. PICK state \in NextStates(view.state), supplies \in BOOLEAN :
          /\ row' = [state |-> IF state = view.state THEN row.state ELSE state,
                     marks |-> IF supplies THEN Details(s) ELSE row.marks]
          /\ Begins(s, "committed", view.state, state, view # row)
    BY <1>4 DEF Move, Previous
  <2> DEFINE x == [at |-> "committed", view |-> NoRow,
                   event |-> [call |-> calls', from |-> view.state,
                              to |-> state]]
  <2>2. session' = [session EXCEPT ![s] = x] /\ session[s].at = "idle"
    BY <2>1 DEF Begins
  <2>3. CASE state = view.state
    <3>1. row # NoRow
      BY <1>1, <1>4 DEF Move, Created, Resting
    <3>2. row'.state = row.state /\ told' = told /\ lost' = lost
          /\ spoiled' = spoiled
      BY <1>4, <2>1, <2>3 DEF Move
    <3>3. ~TellsNewest(session[s], row.state)
      BY <2>2 DEF TellsNewest
    <3> HIDE DEF x
    <3> QED
      BY <1>1, <2>2, <3>1, <3>2, <3>3, KnownKept
  <2>4. CASE state # view.state
    <3>1. session'[s].at = "committed" /\ session'[s].event.from = view.state
      BY <1>1, <2>2 DEF TypeOK
    <3>2. TellsNewest(session'[s], row'.state)
      BY <2>1, <2>4, <3>1 DEF TellsNewest
    <3> QED
      BY <3>2 DEF Known
  <2> QED
    BY <2>3, <2>4
<1>5. ASSUME NEW s \in Sessions, Require(s) PROVE Known'
  <2>1. PICK step \in {"required", "guarded"} :
          Begins(s, step, session[s].view.state, session[s].view.state, FALSE)
    BY <1>5 DEF Require
  <2> DEFINE x == [at |-> step, view |-> NoRow,
                   event |-> [call |-> calls', from |-> session[s].view.state,
                              to |-> session[s].view.state]]
  <2>2. session' = [session EXCEPT ![s] = x] /\ session[s].at = "idle"
    BY <2>1 DEF Begins
  <2>3. row' = row /\ told' = told /\ lost' = lost /\ spoiled' = spoiled
    BY <1>5 DEF Require, record
  <2>4. ~TellsNewest(session[s], row.state)
    BY <2>2 DEF TellsNewest
  <2> HIDE DEF x
  <2> QED
    BY <1>1, <2>2, <2>3, <2>4, KnownKept
<1>6. ASSUME NEW s \in Sessions, Refresh(s) PROVE Known'
  <2>1. /\ row' = row /\ told' = told /\ lost' = lost /\ spoiled' = spoiled
        /\ session[s].at = "committed"
    BY <1>6 DEF Refresh, record, history
  <2>2. CASE session[s].event.from = row.state
    <3>1. session' = [session EXCEPT ![s] = Resting(row)]
      BY <1>6, <2>2 DEF Refresh, Rest
    <3>2. ~TellsNewest(session[s], row.state)
      BY <2>1, <2>2 DEF TellsNewest
    <3> QED
      BY <1>1, <2>1, <3>1, <3>2, KnownKept
  <2>3. CASE session[s].event.from # row.state
    <3>1. session'[s] = [at |-> "journal", view |-> row,
                         event |-> [session[s].event EXCEPT !.to = row.state]]
      BY <1>1, <1>6, <2>3 DEF Refresh, TypeOK
    <3>2. session[s].event \in Events
      BY <1>1, <2>1 DEF TypeOK, Busy
    <3>3. /\ session'[s].at = "journal"
          /\ session'[s].event.from = session[s].event.from
          /\ session'[s].event.to = row.state
      BY <3>1, <3>2 DEF Events
    <3>4. TellsNewest(session'[s], row'.state)
      BY <2>1, <2>3, <3>3 DEF TellsNewest, IsMove
    <3> QED
      BY <3>4 DEF Known
  <2> QED
    BY <2>2, <2>3
<1>7. ASSUME NEW s \in Sessions, Journals(s) PROVE Known'
  <2>1. /\ row' = row /\ told' = told \cup {session[s].event}
        /\ lost' = lost /\ spoiled' = spoiled
        /\ session' = [session EXCEPT ![s] = Resting(NoRow)]
        /\ session[s].at # "committed"
    BY <1>7 DEF Journals, history, Rest
  <2>2. TellsNewest(session[s], row.state) => Known'
    BY <2>1 DEF TellsNewest, Known
  <2> QED
    BY <1>1, <2>1, <2>2, KnownKept
<1>8. ASSUME NEW s \in Sessions, NEW x, session' = [session EXCEPT ![s] = x],
             row'.state = row.state, row # NoRow,
             UNCHANGED <<told, lost, spoiled>>,
             session[s].at \notin {"committed", "journal"}
      PROVE  Known'
  <2>1. ~TellsNewest(session[s], row.state)
    BY <1>8 DEF TellsNewest
  <2> QED
    BY <1>1, <1>8, <2>1, KnownKept
<1>9. ASSUME NEW s \in Sessions, Load(s) PROVE Known'
  <2> DEFINE x == [session[s] EXCEPT !.view = row]
  <2>1. session' = [session EXCEPT ![s] = x]
    BY <1>9 DEF Load
  <2> HIDE DEF x
  <2> QED
    BY <1>8, <1>9, <2>1 DEF Load, record, history
<1>10. ASSUME NEW s \in Sessions, MarkReads(s) PROVE Known'
  <2> DEFINE x == [at |-> "marking", view |-> row,
                   event |-> About(session[s].event)]
  <2>1. session' = [session EXCEPT ![s] = x]
    BY <1>10 DEF MarkReads
  <2>2. row # NoRow
    BY <1>1, <1>10 DEF MarkReads, Created, Resting
  <2> HIDE DEF x
  <2> QED
    BY <1>8, <1>10, <2>1, <2>2 DEF MarkReads, record, history
<1>11. ASSUME NEW s \in Sessions, MarkWrites(s) PROVE Known'
  <2>1. session' = [session EXCEPT ![s] = Resting(row')]
    BY <1>11 DEF MarkWrites, Rest
  <2>2. row # NoRow
    BY <1>1, <1>11 DEF MarkWrites, Created, Resting
  <2>3. row'.state = row.state
    BY <1>1, <1>11 DEF MarkWrites, TypeOK, Rows
  <2> QED
    BY <1>8, <1>11, <2>1, <2>2, <2>3 DEF MarkWrites, history
<1>12. /\ \A s \in Sessions :
            ~(JournalFails(s) \/ RequiredFails(s) \/ GuardedFails(s)
              \/ MarkFails(s))
       /\ ~Crash
  BY DEF JournalFails, RequiredFails, GuardedFails, MarkFails, Crash
<1> QED
  BY <1>2, <1>3, <1>4, <1>5, <1>6, <1>7, <1>9, <1>10, <1>11, <1>12 DEF Next

\* However calls overlap and whatever copies they write from, the state that
\* the record ends up in has been told, when all events could be written
\* (NewestStateIsTold).
THEOREM NewestState == Spec => []NewestStateIsTold
<1>1. Init => NewestInv
  BY TypesInit DEF Init, NewestInv, Created
<1>2. NewestInv /\ [Next]_vars => NewestInv'
  BY TypesStep, CreatedStep, KnownStep DEF NewestInv
<1>3. NewestInv => NewestStateIsTold
  <2> SUFFICES ASSUME NewestInv, row # NoRow, ~lost, ~spoiled, Busy = {}
               PROVE  \E event \in told : IsMove(event) /\ event.to = row.state
    BY DEF NewestStateIsTold
  <2>1. Known /\ \A s \in Sessions : session[s].at = "idle"
    BY DEF NewestInv, Busy
  <2> QED
    BY <2>1 DEF Known, TellsNewest
<1> QED
  BY <1>1, <1>2, <1>3, PTL DEF Spec
=============================================================================
