----------------------------- MODULE Reservations -----------------------------
(***************************************************************************)
(* hotel/reservation.cpp: the atoms of a reservation, as operators.  An    *)
(* atom occupies a room from one date up to, and without, another one.     *)
(* Dates are numbers of days; boost's date_period is external.             *)
(***************************************************************************)
EXTENDS Integers, Sequences

CONSTANTS Rooms, Dates

ASSUME DatesAssumption == Dates \subseteq Int

Period == [from : Dates, to : Dates]
Atom == [room : Rooms, from : Dates, to : Dates]

-----------------------------------------------------------------------------
(* boost::gregorian::date_period *)

IsNull(period) == period.to <= period.from

HasDate(period, date) == period.from <= date /\ date < period.to

Intersects(p, q) ==
  HasDate(p, q.from) \/ HasDate(q, p.from) \/ (q.from < p.from /\ p.from < q.to)

\* The dates from the earlier beginning to the later end; of two atoms, in the first one's room.
Span(p, q) ==
  [p EXCEPT !.from = IF q.from < @ THEN q.from ELSE @,
            !.to   = IF @ < q.to THEN q.to ELSE @]

-----------------------------------------------------------------------------
(* Reservation *)

FirstAtom(atoms) == atoms[1]
LastAtom(atoms) == atoms[Len(atoms)]

IsValid(atoms) ==
  /\ atoms # << >>
  /\ \A i \in DOMAIN atoms : ~IsNull(atoms[i])
  /\ \A i \in DOMAIN atoms \ {1} : atoms[i - 1].to = atoms[i].from

\* The period of the whole stay; null for an invalid reservation.
DateRange(atoms) ==
  IF IsValid(atoms) THEN [from |-> FirstAtom(atoms).from, to |-> LastAtom(atoms).to]
                    ELSE [from |-> 0, to |-> 0]

Length(atoms) == IF atoms = << >> THEN 0 ELSE LastAtom(atoms).to - FirstAtom(atoms).from

IntersectsWith(atoms, others) ==
  \E i \in DOMAIN atoms, j \in DOMAIN others :
    atoms[i].room = others[j].room /\ Intersects(atoms[i], others[j])

\* addAtom throws where this is false.
CanAddAtom(atoms, atom) ==
  ~IsNull(atom) /\ (atoms # << >> => LastAtom(atoms).to = atom.from)

\* addContinuation throws where this is false.
CanAddContinuation(atoms, date) == atoms # << >> /\ LastAtom(atoms).to < date

Continued(atoms, room, date) ==
  Append(atoms, [room |-> room, from |-> LastAtom(atoms).to, to |-> date])

RemovedLast(atoms) == IF atoms = << >> THEN atoms ELSE SubSeq(atoms, 1, Len(atoms) - 1)

\* A mutated form of the next operator: each atom is joined with its neighbour once only.
JoinedInPairs(atoms) ==
  LET Follows(i) == i > 1 /\ atoms[i].room = atoms[i - 1].room
      joined[n \in 0 .. Len(atoms)] ==
        IF n = 0 THEN << >>
        ELSE IF n = 2 /\ Follows(2)
          THEN <<Span(atoms[1], atoms[2])>>
          ELSE Append(joined[n - 1], atoms[n])
  IN  joined[Len(atoms)]

\* joinAdjacentAtoms: an atom is joined with the one before it, which may be the result of
\* joining already.
Joined(atoms) ==
  LET joined[n \in 0 .. Len(atoms)] ==
        IF n = 0 THEN << >>
        ELSE LET before == joined[n - 1] IN
             IF before # << >> /\ LastAtom(before).room = atoms[n].room
               THEN [before EXCEPT ![Len(before)] = Span(@, atoms[n])]
               ELSE Append(before, atoms[n])
  IN  joined[Len(atoms)]

-----------------------------------------------------------------------------
(* What reservations are about: who sleeps where *)

\* The nights a sequence of atoms takes up, by room.
Nights(atoms) ==
  UNION {{<<atoms[i].room, d>> : d \in {n \in Dates : HasDate(atoms[i], n)}} : i \in DOMAIN atoms}
=============================================================================
