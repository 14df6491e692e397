-------------------------- MODULE DeskSessionProofs --------------------------
(***************************************************************************)
(* The properties of DeskSession hold for any projects, sessions and       *)
(* callers, and for any number of faults and deleted sessions.             *)
(***************************************************************************)
EXTENDS DeskSession, TLAPS

\* A caller that made a session which is recorded nowhere on its behalf.
Holds(c) == pc[c] \in {"claim", "winner", "delete"}

\* OpenCode never gives out an id twice: what is recorded, made or handed about was
\* given out, and no two callers hold the same new session.
IdsAreKnown ==
  /\ alive \subseteq used /\ made \subseteq used
  /\ \A s \in Slugs : listed[s] \subseteq used
  /\ \A c \in Callers : pc[c] \notin {"idle", "adoptProbe"} => mine[c] \in used \cup {None}
  /\ \A c, d \in Callers : Holds(c) /\ Holds(d) /\ mine[c] = mine[d] => c = d

\* A session is about to be forgotten only when OpenCode has lost it.
ResetsAreDue == \A c \in Callers : pc[c] = "reset" => mine[c] \in used \ alive

\* A project whose session nobody has started, adopted or deleted: every caller that
\* found a session there found the current one, which lives, and nobody holds it.
Quiet(s) ==
  /\ current[s] # None => current[s] \in alive
  /\ returned[s] \subseteq {current[s]}
  /\ \A c \in Callers : slug[c] = s =>
       /\ pc[c] = "probe" => mine[c] = current[s]
       /\ pc[c] = "winner" => current[s] # None
       /\ pc[c] # "reset"
  /\ \A c \in Callers : Holds(c) => mine[c] \in alive /\ mine[c] # current[s]

QuietSlugs == \A s \in Slugs \ moved : Quiet(s)

\* While nothing failed and no session was forgotten, whoever lost a claim finds a
\* winner, and a session of the Hub is listed or in the hands of who will record or
\* delete it.
NothingStrays ==
  faults = 0 /\ ~forgot =>
    /\ \A c \in Callers : pc[c] = "winner" => current[slug[c]] # None
    /\ \A x \in made \cap alive :
         \/ \E s \in Slugs : x \in listed[s]
         \/ \E c \in Callers : (Holds(c) \/ pc[c] = "startRecord") /\ mine[c] = x

IInv == TypeOK /\ CurrentIsListed /\ IdsAreKnown /\ ResetsAreDue /\ QuietSlugs /\ NothingStrays

-----------------------------------------------------------------------------

\* A Hub with no sessions satisfies the invariant.
LEMMA InvInit == Init => IInv
<1> SUFFICES ASSUME Init PROVE IInv
  OBVIOUS
<1>1. TypeOK
  <2>1. /\ current \in [Slugs -> Sessions \cup {None}] /\ listed \in [Slugs -> SUBSET Sessions]
        /\ returned \in [Slugs -> SUBSET Sessions]
    BY DEF Init
  <2>2. /\ pc \in [Callers -> Steps] /\ slug \in [Callers -> Slugs \cup {None}]
        /\ mine \in [Callers -> Sessions \cup {None}] /\ \A c \in Callers : pc[c] = "idle"
    BY DEF Init, Steps
  <2>3. faults \in 0..MaxFaults /\ drops \in 0..MaxDrops
    BY DeskSessionAssumption DEF Init
  <2>4. /\ alive \in SUBSET Sessions /\ used \in SUBSET Sessions /\ made \in SUBSET Sessions
        /\ dividers \in SUBSET (Slugs \X Sessions) /\ moved \in SUBSET Slugs /\ forgot \in BOOLEAN
    BY DEF Init
  <2> QED
    BY <2>1, <2>2, <2>3, <2>4 DEF TypeOK
<1>2. CurrentIsListed /\ IdsAreKnown /\ ResetsAreDue
  BY DEF Init, CurrentIsListed, IdsAreKnown, ResetsAreDue, Holds
<1>3. QuietSlugs
  BY DEF Init, QuietSlugs, Quiet, Holds
<1>4. NothingStrays
  BY DEF Init, NothingStrays
<1> QED
  BY <1>1, <1>2, <1>3, <1>4 DEF IInv

\* Every step keeps the types.
LEMMA TypeStep == ASSUME TypeOK, [Next]_vars PROVE TypeOK'
<1> USE DeskSessionAssumption DEF TypeOK, Steps
<1> USE DEF opencode, desk, callers, bounds, history, Goto, Done, Begin, Return, Create, Record
<1>1. ASSUME NEW c \in Callers, NEW s \in Slugs, EnsureStart(c, s) PROVE TypeOK'
  BY <1>1 DEF EnsureStart
<1>2. ASSUME NEW c \in Callers, NEW s \in Slugs, StartNew(c, s) PROVE TypeOK'
  BY <1>2 DEF StartNew
<1>3. ASSUME NEW c \in Callers, NEW s \in Slugs, NEW x \in Sessions, Adopt(c, s, x) PROVE TypeOK'
  BY <1>3 DEF Adopt
<1>4. ASSUME NEW c \in Callers, EnsureRead(c) PROVE TypeOK'
  BY <1>4 DEF EnsureRead
<1>5. ASSUME NEW c \in Callers, Probe(c) PROVE TypeOK'
  BY <1>5 DEF Probe
<1>6. ASSUME NEW c \in Callers, Reset(c) PROVE TypeOK'
  <2>1. listed' \in [Slugs -> SUBSET Sessions] /\ current' \in [Slugs -> Sessions \cup {None}]
    <3>1. slug[c] \in Slugs
      BY <1>6 DEF Reset
    <3>2. listed[slug[c]] \ {mine[c]} \in SUBSET Sessions
      BY <3>1
    <3> QED
      BY <1>6, <3>1, <3>2 DEF Reset
  <2>2. pc' \in [Callers -> Steps] /\ mine' \in [Callers -> Sessions \cup {None}] /\ forgot' \in BOOLEAN
    BY <1>6 DEF Reset
  <2> QED
    BY <1>6, <2>1, <2>2 DEF Reset
<1>7. ASSUME NEW c \in Callers, EnsureCreate(c) PROVE TypeOK'
  BY <1>7 DEF EnsureCreate
<1>8. ASSUME NEW c \in Callers, Claim(c) PROVE TypeOK'
  BY <1>8 DEF Claim
<1>9. ASSUME NEW c \in Callers, ReadWinner(c) PROVE TypeOK'
  BY <1>9 DEF ReadWinner
<1>10. ASSUME NEW c \in Callers, DeleteLoser(c) PROVE TypeOK'
  BY <1>10 DEF DeleteLoser
<1>11. ASSUME NEW c \in Callers, StartCreate(c) PROVE TypeOK'
  BY <1>11 DEF StartCreate
<1>12. ASSUME NEW c \in Callers, StartRecord(c) PROVE TypeOK'
  BY <1>12 DEF StartRecord
<1>13. ASSUME NEW c \in Callers, PostDivider(c) PROVE TypeOK'
  BY <1>13 DEF PostDivider
<1>14. ASSUME NEW c \in Callers, AdoptProbe(c) PROVE TypeOK'
  BY <1>14 DEF AdoptProbe
<1>15. ASSUME NEW c \in Callers, AdoptOwner(c) PROVE TypeOK'
  BY <1>15 DEF AdoptOwner
<1>16. ASSUME NEW c \in Callers, AdoptCurrent(c) PROVE TypeOK'
  BY <1>16 DEF AdoptCurrent
<1>17. ASSUME NEW c \in Callers, AdoptKnown(c) PROVE TypeOK'
  BY <1>17 DEF AdoptKnown
<1>18. ASSUME NEW c \in Callers, AdoptSwitch(c) PROVE TypeOK'
  BY <1>18 DEF AdoptSwitch
<1>19. ASSUME NEW c \in Callers, CallerFails(c) PROVE TypeOK'
  BY <1>19 DEF CallerFails
<1>20. ASSUME NEW x \in Sessions, TerminalOpens(x) PROVE TypeOK'
  BY <1>20 DEF TerminalOpens
<1>21. ASSUME NEW x \in Sessions, SessionDropped(x) PROVE TypeOK'
  BY <1>21 DEF SessionDropped
<1>22. ASSUME UNCHANGED vars PROVE TypeOK'
  BY <1>22 DEF vars
<1> QED
  BY <1>1, <1>2, <1>3, <1>4, <1>5, <1>6, <1>7, <1>8, <1>9, <1>10, <1>11,
     <1>12, <1>13, <1>14, <1>15, <1>16, <1>17, <1>18, <1>19, <1>20, <1>21, <1>22
     DEF Next, Ensure, StartOrAdopt

\* The current session stays on the list.
LEMMA ListedStep == ASSUME TypeOK, CurrentIsListed, [Next]_vars PROVE CurrentIsListed'
<1> USE DEF TypeOK, CurrentIsListed
<1> USE DEF opencode, desk, callers, bounds, history, Goto, Done, Begin, Return, Create, Record
<1>1. ASSUME NEW c \in Callers, NEW s \in Slugs, EnsureStart(c, s) PROVE CurrentIsListed'
  BY <1>1 DEF EnsureStart
<1>2. ASSUME NEW c \in Callers, NEW s \in Slugs, StartNew(c, s) PROVE CurrentIsListed'
  BY <1>2 DEF StartNew
<1>3. ASSUME NEW c \in Callers, NEW s \in Slugs, NEW x \in Sessions, Adopt(c, s, x) PROVE CurrentIsListed'
  BY <1>3 DEF Adopt
<1>4. ASSUME NEW c \in Callers, EnsureRead(c) PROVE CurrentIsListed'
  BY <1>4 DEF EnsureRead
<1>5. ASSUME NEW c \in Callers, Probe(c) PROVE CurrentIsListed'
  BY <1>5 DEF Probe
<1>6. ASSUME NEW c \in Callers, Reset(c) PROVE CurrentIsListed'
  BY <1>6 DEF Reset
<1>7. ASSUME NEW c \in Callers, EnsureCreate(c) PROVE CurrentIsListed'
  BY <1>7 DEF EnsureCreate
<1>8. ASSUME NEW c \in Callers, Claim(c) PROVE CurrentIsListed'
  BY <1>8 DEF Claim
<1>9. ASSUME NEW c \in Callers, ReadWinner(c) PROVE CurrentIsListed'
  BY <1>9 DEF ReadWinner
<1>10. ASSUME NEW c \in Callers, DeleteLoser(c) PROVE CurrentIsListed'
  BY <1>10 DEF DeleteLoser
<1>11. ASSUME NEW c \in Callers, StartCreate(c) PROVE CurrentIsListed'
  BY <1>11 DEF StartCreate
<1>12. ASSUME NEW c \in Callers, StartRecord(c) PROVE CurrentIsListed'
  BY <1>12 DEF StartRecord
<1>13. ASSUME NEW c \in Callers, PostDivider(c) PROVE CurrentIsListed'
  BY <1>13 DEF PostDivider
<1>14. ASSUME NEW c \in Callers, AdoptProbe(c) PROVE CurrentIsListed'
  BY <1>14 DEF AdoptProbe
<1>15. ASSUME NEW c \in Callers, AdoptOwner(c) PROVE CurrentIsListed'
  BY <1>15 DEF AdoptOwner
<1>16. ASSUME NEW c \in Callers, AdoptCurrent(c) PROVE CurrentIsListed'
  BY <1>16 DEF AdoptCurrent
<1>17. ASSUME NEW c \in Callers, AdoptKnown(c) PROVE CurrentIsListed'
  BY <1>17 DEF AdoptKnown
<1>18. ASSUME NEW c \in Callers, AdoptSwitch(c) PROVE CurrentIsListed'
  BY <1>18 DEF AdoptSwitch
<1>19. ASSUME NEW c \in Callers, CallerFails(c) PROVE CurrentIsListed'
  BY <1>19 DEF CallerFails
<1>20. ASSUME NEW x \in Sessions, TerminalOpens(x) PROVE CurrentIsListed'
  BY <1>20 DEF TerminalOpens
<1>21. ASSUME NEW x \in Sessions, SessionDropped(x) PROVE CurrentIsListed'
  BY <1>21 DEF SessionDropped
<1>22. ASSUME UNCHANGED vars PROVE CurrentIsListed'
  BY <1>22 DEF vars
<1> QED
  BY <1>1, <1>2, <1>3, <1>4, <1>5, <1>6, <1>7, <1>8, <1>9, <1>10, <1>11,
     <1>12, <1>13, <1>14, <1>15, <1>16, <1>17, <1>18, <1>19, <1>20, <1>21, <1>22
     DEF Next, Ensure, StartOrAdopt

\* New ids are new to everybody.
LEMMA IdsStep == ASSUME TypeOK, CurrentIsListed, IdsAreKnown, [Next]_vars PROVE IdsAreKnown'
<1> USE DeskSessionAssumption DEF TypeOK, CurrentIsListed, IdsAreKnown, Holds
<1> USE DEF opencode, desk, callers, bounds, history, Goto, Done, Begin, Return, Create, Record
<1>1. ASSUME NEW c \in Callers, NEW s \in Slugs, EnsureStart(c, s) PROVE IdsAreKnown'
  BY <1>1 DEF EnsureStart
<1>2. ASSUME NEW c \in Callers, NEW s \in Slugs, StartNew(c, s) PROVE IdsAreKnown'
  BY <1>2 DEF StartNew
<1>3. ASSUME NEW c \in Callers, NEW s \in Slugs, NEW x \in Sessions, Adopt(c, s, x) PROVE IdsAreKnown'
  BY <1>3 DEF Adopt
<1>4. ASSUME NEW c \in Callers, EnsureRead(c) PROVE IdsAreKnown'
  BY <1>4 DEF EnsureRead
<1>5. ASSUME NEW c \in Callers, Probe(c) PROVE IdsAreKnown'
  BY <1>5 DEF Probe
<1>6. ASSUME NEW c \in Callers, Reset(c) PROVE IdsAreKnown'
  BY <1>6 DEF Reset
<1>7. ASSUME NEW c \in Callers, EnsureCreate(c) PROVE IdsAreKnown'
  BY <1>7 DEF EnsureCreate
<1>8. ASSUME NEW c \in Callers, Claim(c) PROVE IdsAreKnown'
  BY <1>8 DEF Claim
<1>9. ASSUME NEW c \in Callers, ReadWinner(c) PROVE IdsAreKnown'
  BY <1>9 DEF ReadWinner
<1>10. ASSUME NEW c \in Callers, DeleteLoser(c) PROVE IdsAreKnown'
  BY <1>10 DEF DeleteLoser
<1>11. ASSUME NEW c \in Callers, StartCreate(c) PROVE IdsAreKnown'
  BY <1>11 DEF StartCreate
<1>12. ASSUME NEW c \in Callers, StartRecord(c) PROVE IdsAreKnown'
  BY <1>12 DEF StartRecord
<1>13. ASSUME NEW c \in Callers, PostDivider(c) PROVE IdsAreKnown'
  BY <1>13 DEF PostDivider
<1>14. ASSUME NEW c \in Callers, AdoptProbe(c) PROVE IdsAreKnown'
  BY <1>14 DEF AdoptProbe
<1>15. ASSUME NEW c \in Callers, AdoptOwner(c) PROVE IdsAreKnown'
  BY <1>15 DEF AdoptOwner
<1>16. ASSUME NEW c \in Callers, AdoptCurrent(c) PROVE IdsAreKnown'
  BY <1>16 DEF AdoptCurrent
<1>17. ASSUME NEW c \in Callers, AdoptKnown(c) PROVE IdsAreKnown'
  BY <1>17 DEF AdoptKnown
<1>18. ASSUME NEW c \in Callers, AdoptSwitch(c) PROVE IdsAreKnown'
  BY <1>18 DEF AdoptSwitch
<1>19. ASSUME NEW c \in Callers, CallerFails(c) PROVE IdsAreKnown'
  BY <1>19 DEF CallerFails
<1>20. ASSUME NEW x \in Sessions, TerminalOpens(x) PROVE IdsAreKnown'
  BY <1>20 DEF TerminalOpens
<1>21. ASSUME NEW x \in Sessions, SessionDropped(x) PROVE IdsAreKnown'
  BY <1>21 DEF SessionDropped
<1>22. ASSUME UNCHANGED vars PROVE IdsAreKnown'
  BY <1>22 DEF vars
<1> QED
  BY <1>1, <1>2, <1>3, <1>4, <1>5, <1>6, <1>7, <1>8, <1>9, <1>10, <1>11,
     <1>12, <1>13, <1>14, <1>15, <1>16, <1>17, <1>18, <1>19, <1>20, <1>21, <1>22
     DEF Next, Ensure, StartOrAdopt

\* A dead session stays dead.
LEMMA ResetStep ==
  ASSUME TypeOK, IdsAreKnown, ResetsAreDue, CurrentIsListed, [Next]_vars PROVE ResetsAreDue'
<1> USE DEF TypeOK, IdsAreKnown, CurrentIsListed, ResetsAreDue, Holds
<1> USE DEF opencode, desk, callers, bounds, history, Goto, Done, Begin, Return, Create, Record
<1>1. ASSUME NEW c \in Callers, NEW s \in Slugs, EnsureStart(c, s) PROVE ResetsAreDue'
  BY <1>1 DEF EnsureStart
<1>2. ASSUME NEW c \in Callers, NEW s \in Slugs, StartNew(c, s) PROVE ResetsAreDue'
  BY <1>2 DEF StartNew
<1>3. ASSUME NEW c \in Callers, NEW s \in Slugs, NEW x \in Sessions, Adopt(c, s, x) PROVE ResetsAreDue'
  BY <1>3 DEF Adopt
<1>4. ASSUME NEW c \in Callers, EnsureRead(c) PROVE ResetsAreDue'
  BY <1>4 DEF EnsureRead
<1>5. ASSUME NEW c \in Callers, Probe(c) PROVE ResetsAreDue'
  BY <1>5 DEF Probe
<1>6. ASSUME NEW c \in Callers, Reset(c) PROVE ResetsAreDue'
  BY <1>6 DEF Reset
<1>7. ASSUME NEW c \in Callers, EnsureCreate(c) PROVE ResetsAreDue'
  BY <1>7 DEF EnsureCreate
<1>8. ASSUME NEW c \in Callers, Claim(c) PROVE ResetsAreDue'
  BY <1>8 DEF Claim
<1>9. ASSUME NEW c \in Callers, ReadWinner(c) PROVE ResetsAreDue'
  BY <1>9 DEF ReadWinner
<1>10. ASSUME NEW c \in Callers, DeleteLoser(c) PROVE ResetsAreDue'
  BY <1>10 DEF DeleteLoser
<1>11. ASSUME NEW c \in Callers, StartCreate(c) PROVE ResetsAreDue'
  BY <1>11 DEF StartCreate
<1>12. ASSUME NEW c \in Callers, StartRecord(c) PROVE ResetsAreDue'
  BY <1>12 DEF StartRecord
<1>13. ASSUME NEW c \in Callers, PostDivider(c) PROVE ResetsAreDue'
  BY <1>13 DEF PostDivider
<1>14. ASSUME NEW c \in Callers, AdoptProbe(c) PROVE ResetsAreDue'
  BY <1>14 DEF AdoptProbe
<1>15. ASSUME NEW c \in Callers, AdoptOwner(c) PROVE ResetsAreDue'
  BY <1>15 DEF AdoptOwner
<1>16. ASSUME NEW c \in Callers, AdoptCurrent(c) PROVE ResetsAreDue'
  BY <1>16 DEF AdoptCurrent
<1>17. ASSUME NEW c \in Callers, AdoptKnown(c) PROVE ResetsAreDue'
  BY <1>17 DEF AdoptKnown
<1>18. ASSUME NEW c \in Callers, AdoptSwitch(c) PROVE ResetsAreDue'
  BY <1>18 DEF AdoptSwitch
<1>19. ASSUME NEW c \in Callers, CallerFails(c) PROVE ResetsAreDue'
  BY <1>19 DEF CallerFails
<1>20. ASSUME NEW x \in Sessions, TerminalOpens(x) PROVE ResetsAreDue'
  BY <1>20 DEF TerminalOpens
<1>21. ASSUME NEW x \in Sessions, SessionDropped(x) PROVE ResetsAreDue'
  BY <1>21 DEF SessionDropped
<1>22. ASSUME UNCHANGED vars PROVE ResetsAreDue'
  BY <1>22 DEF vars
<1> QED
  BY <1>1, <1>2, <1>3, <1>4, <1>5, <1>6, <1>7, <1>8, <1>9, <1>10, <1>11,
     <1>12, <1>13, <1>14, <1>15, <1>16, <1>17, <1>18, <1>19, <1>20, <1>21, <1>22
     DEF Next, Ensure, StartOrAdopt

\* Racing callers of a quiet project agree.
LEMMA QuietStep ==
  ASSUME TypeOK, CurrentIsListed, IdsAreKnown, QuietSlugs, [Next]_vars PROVE QuietSlugs'
<1> USE DeskSessionAssumption DEF TypeOK, CurrentIsListed, IdsAreKnown, QuietSlugs, Quiet, Holds
<1> USE DEF opencode, desk, callers, bounds, history, Goto, Done, Begin, Return, Create, Record
<1>1. ASSUME NEW c \in Callers, NEW s \in Slugs, EnsureStart(c, s) PROVE QuietSlugs'
  BY <1>1 DEF EnsureStart
<1>2. ASSUME NEW c \in Callers, NEW s \in Slugs, StartNew(c, s) PROVE QuietSlugs'
  BY <1>2 DEF StartNew
<1>3. ASSUME NEW c \in Callers, NEW s \in Slugs, NEW x \in Sessions, Adopt(c, s, x) PROVE QuietSlugs'
  BY <1>3 DEF Adopt
<1>4. ASSUME NEW c \in Callers, EnsureRead(c) PROVE QuietSlugs'
  BY <1>4 DEF EnsureRead
<1>5. ASSUME NEW c \in Callers, Probe(c) PROVE QuietSlugs'
  BY <1>5 DEF Probe
<1>6. ASSUME NEW c \in Callers, Reset(c) PROVE QuietSlugs'
  BY <1>6 DEF Reset
<1>7. ASSUME NEW c \in Callers, EnsureCreate(c) PROVE QuietSlugs'
  BY <1>7 DEF EnsureCreate
<1>8. ASSUME NEW c \in Callers, Claim(c) PROVE QuietSlugs'
  BY <1>8 DEF Claim
<1>9. ASSUME NEW c \in Callers, ReadWinner(c) PROVE QuietSlugs'
  BY <1>9 DEF ReadWinner
<1>10. ASSUME NEW c \in Callers, DeleteLoser(c) PROVE QuietSlugs'
  BY <1>10 DEF DeleteLoser
<1>11. ASSUME NEW c \in Callers, StartCreate(c) PROVE QuietSlugs'
  BY <1>11 DEF StartCreate
<1>12. ASSUME NEW c \in Callers, StartRecord(c) PROVE QuietSlugs'
  BY <1>12 DEF StartRecord
<1>13. ASSUME NEW c \in Callers, PostDivider(c) PROVE QuietSlugs'
  BY <1>13 DEF PostDivider
<1>14. ASSUME NEW c \in Callers, AdoptProbe(c) PROVE QuietSlugs'
  BY <1>14 DEF AdoptProbe
<1>15. ASSUME NEW c \in Callers, AdoptOwner(c) PROVE QuietSlugs'
  BY <1>15 DEF AdoptOwner
<1>16. ASSUME NEW c \in Callers, AdoptCurrent(c) PROVE QuietSlugs'
  BY <1>16 DEF AdoptCurrent
<1>17. ASSUME NEW c \in Callers, AdoptKnown(c) PROVE QuietSlugs'
  BY <1>17 DEF AdoptKnown
<1>18. ASSUME NEW c \in Callers, AdoptSwitch(c) PROVE QuietSlugs'
  BY <1>18 DEF AdoptSwitch
<1>19. ASSUME NEW c \in Callers, CallerFails(c) PROVE QuietSlugs'
  BY <1>19 DEF CallerFails
<1>20. ASSUME NEW x \in Sessions, TerminalOpens(x) PROVE QuietSlugs'
  BY <1>20 DEF TerminalOpens
<1>21. ASSUME NEW x \in Sessions, SessionDropped(x) PROVE QuietSlugs'
  BY <1>21 DEF SessionDropped
<1>22. ASSUME UNCHANGED vars PROVE QuietSlugs'
  BY <1>22 DEF vars
<1> QED
  BY <1>1, <1>2, <1>3, <1>4, <1>5, <1>6, <1>7, <1>8, <1>9, <1>10, <1>11,
     <1>12, <1>13, <1>14, <1>15, <1>16, <1>17, <1>18, <1>19, <1>20, <1>21, <1>22
     DEF Next, Ensure, StartOrAdopt

\* Losers clean up.
LEMMA StrayStep ==
  ASSUME TypeOK, CurrentIsListed, IdsAreKnown, NothingStrays, [Next]_vars PROVE NothingStrays'
<1> USE DeskSessionAssumption DEF TypeOK, CurrentIsListed, IdsAreKnown, NothingStrays, Holds
<1> USE DEF opencode, desk, callers, bounds, history, Goto, Done, Begin, Return, Create, Record
<1>1. ASSUME NEW c \in Callers, NEW s \in Slugs, EnsureStart(c, s) PROVE NothingStrays'
  BY <1>1 DEF EnsureStart
<1>2. ASSUME NEW c \in Callers, NEW s \in Slugs, StartNew(c, s) PROVE NothingStrays'
  BY <1>2 DEF StartNew
<1>3. ASSUME NEW c \in Callers, NEW s \in Slugs, NEW x \in Sessions, Adopt(c, s, x) PROVE NothingStrays'
  BY <1>3 DEF Adopt
<1>4. ASSUME NEW c \in Callers, EnsureRead(c) PROVE NothingStrays'
  BY <1>4 DEF EnsureRead
<1>5. ASSUME NEW c \in Callers, Probe(c) PROVE NothingStrays'
  BY <1>5 DEF Probe
<1>6. ASSUME NEW c \in Callers, Reset(c) PROVE NothingStrays'
  BY <1>6 DEF Reset
<1>7. ASSUME NEW c \in Callers, EnsureCreate(c) PROVE NothingStrays'
  BY <1>7 DEF EnsureCreate
<1>8. ASSUME NEW c \in Callers, Claim(c) PROVE NothingStrays'
  BY <1>8 DEF Claim
<1>9. ASSUME NEW c \in Callers, ReadWinner(c) PROVE NothingStrays'
  BY <1>9 DEF ReadWinner
<1>10. ASSUME NEW c \in Callers, DeleteLoser(c) PROVE NothingStrays'
  BY <1>10 DEF DeleteLoser
<1>11. ASSUME NEW c \in Callers, StartCreate(c) PROVE NothingStrays'
  BY <1>11 DEF StartCreate
<1>12. ASSUME NEW c \in Callers, StartRecord(c) PROVE NothingStrays'
  BY <1>12 DEF StartRecord
<1>13. ASSUME NEW c \in Callers, PostDivider(c) PROVE NothingStrays'
  BY <1>13 DEF PostDivider
<1>14. ASSUME NEW c \in Callers, AdoptProbe(c) PROVE NothingStrays'
  BY <1>14 DEF AdoptProbe
<1>15. ASSUME NEW c \in Callers, AdoptOwner(c) PROVE NothingStrays'
  BY <1>15 DEF AdoptOwner
<1>16. ASSUME NEW c \in Callers, AdoptCurrent(c) PROVE NothingStrays'
  BY <1>16 DEF AdoptCurrent
<1>17. ASSUME NEW c \in Callers, AdoptKnown(c) PROVE NothingStrays'
  BY <1>17 DEF AdoptKnown
<1>18. ASSUME NEW c \in Callers, AdoptSwitch(c) PROVE NothingStrays'
  BY <1>18 DEF AdoptSwitch
<1>19. ASSUME NEW c \in Callers, CallerFails(c) PROVE NothingStrays'
  BY <1>19 DEF CallerFails
<1>20. ASSUME NEW x \in Sessions, TerminalOpens(x) PROVE NothingStrays'
  BY <1>20 DEF TerminalOpens
<1>21. ASSUME NEW x \in Sessions, SessionDropped(x) PROVE NothingStrays'
  BY <1>21 DEF SessionDropped
<1>22. ASSUME UNCHANGED vars PROVE NothingStrays'
  BY <1>22 DEF vars
<1> QED
  BY <1>1, <1>2, <1>3, <1>4, <1>5, <1>6, <1>7, <1>8, <1>9, <1>10, <1>11,
     <1>12, <1>13, <1>14, <1>15, <1>16, <1>17, <1>18, <1>19, <1>20, <1>21, <1>22
     DEF Next, Ensure, StartOrAdopt

\* The invariant holds in every state.
THEOREM Inductive == Spec => []IInv
<1>1. IInv /\ [Next]_vars => IInv'
  BY TypeStep, ListedStep, IdsStep, ResetStep, QuietStep, StrayStep DEF IInv
<1> QED
  BY InvInit, <1>1, PTL DEF Spec

\* The variables keep their types.
THEOREM TypeCorrect == Spec => []TypeOK
<1>1. IInv => TypeOK
  BY DEF IInv
<1> QED
  BY Inductive, <1>1, PTL

\* The mirror of a project finds its current session, and so its cursor, on the list.
THEOREM CurrentStaysListed == Spec => []CurrentIsListed
<1>1. IInv => CurrentIsListed
  BY DEF IInv
<1> QED
  BY Inductive, <1>1, PTL

\* Callers of ensureDeskSession that race get the same session.
THEOREM RacingCallersAgree == Spec => []EnsureAgrees
<1>1. IInv => EnsureAgrees
  BY DEF IInv, QuietSlugs, Quiet, EnsureAgrees
<1> QED
  BY Inductive, <1>1, PTL

\* A caller that loses a claim leaves no session behind.
THEOREM LosersCleanUp == Spec => []NoStraySession
<1>1. IInv => NoStraySession
  BY DEF IInv, NothingStrays, NoStraySession, Holds
<1> QED
  BY Inductive, <1>1, PTL

\* A session OpenCode still has is never taken off a list, and a reset by a caller that
\* found another one dead leaves the project's live session current.
THEOREM LiveSessionsStay == Spec => ForgetsOnlyDeadSessions
<1> DEFINE Stays == \A s \in Slugs : /\ current[s] \in alive => current'[s] # None
                                    /\ \A x \in listed[s] : x \in alive => x \in listed'[s]
<1>a. IInv /\ [Next]_vars => [\A s \in Slugs :
                                /\ current[s] \in alive => current'[s] # None
                                /\ \A x \in listed[s] : x \in alive => x \in listed'[s]]_vars
  <2> SUFFICES ASSUME IInv, Next PROVE Stays
    OBVIOUS
  <2> USE DEF opencode, desk, callers
  <2>0. None \notin alive
    BY DeskSessionAssumption DEF IInv, TypeOK
  <2>1. ASSUME NEW c \in Callers, Reset(c) PROVE Stays
    BY <2>0, <2>1 DEF Reset, IInv, TypeOK, ResetsAreDue
  <2>2. ASSUME NEW c \in Callers, Claim(c) PROVE Stays
    BY <2>0, <2>2 DEF Claim, Record, IInv, TypeOK
  <2>3. ASSUME NEW c \in Callers, StartRecord(c) PROVE Stays
    BY <2>0, <2>3 DEF StartRecord, Record, IInv, TypeOK
  <2>4. ASSUME NEW c \in Callers,
               \/ EnsureRead(c) \/ Probe(c) \/ EnsureCreate(c) \/ ReadWinner(c) \/ DeleteLoser(c)
               \/ StartCreate(c) \/ PostDivider(c) \/ AdoptProbe(c) \/ AdoptOwner(c)
               \/ AdoptCurrent(c) \/ AdoptKnown(c) \/ CallerFails(c)
               \/ \E s \in Slugs : \/ EnsureStart(c, s) \/ StartNew(c, s)
                                   \/ \E x \in Sessions : Adopt(c, s, x)
        PROVE Stays
    BY <2>0, <2>4 DEF EnsureRead, Probe, EnsureCreate, ReadWinner, DeleteLoser, StartCreate,
         PostDivider, AdoptProbe, AdoptOwner, AdoptCurrent, AdoptKnown, CallerFails, EnsureStart, StartNew, Adopt
  <2>5. ASSUME NEW x \in Sessions, TerminalOpens(x) \/ SessionDropped(x) PROVE Stays
    BY <2>0, <2>5 DEF TerminalOpens, SessionDropped
  <2>6. ASSUME NEW c \in Callers, AdoptSwitch(c) PROVE Stays
    BY <2>0, <2>6 DEF AdoptSwitch, IInv, TypeOK
  <2> QED
    BY <2>1, <2>2, <2>3, <2>4, <2>5, <2>6 DEF Next, Ensure, StartOrAdopt
<1> QED
  BY Inductive, <1>a, PTL DEF Spec, ForgetsOnlyDeadSessions

=============================================================================
