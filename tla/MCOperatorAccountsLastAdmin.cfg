\* Two deletions at a time.
SPECIFICATION Spec
CONSTANTS
  Users = {u1, u2}
  Passwords = {p1}
  Handlers = {h1, h2}
  Seats = 2
  Null = Null
SYMMETRY Symmetry
PROPERTIES DeleteKeepsAnAdmin
