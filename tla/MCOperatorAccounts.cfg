\* Two requests at a time, three users, one seat.
SPECIFICATION Spec
CONSTANTS
  Users = {u1, u2, u3}
  Passwords = {p1, p2}
  Handlers = {h1, h2}
  Seats = 1
  Null = Null
SYMMETRY Symmetry
INVARIANTS AcknowledgedChangesPersist SeatOvershootBounded
PROPERTIES ChecksHoldUnlessOvertaken
