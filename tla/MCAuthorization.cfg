\* One coffee machine, two users with one key between them, one item, two cups;
\* two of the things that happen over the web or to an answer.
SPECIFICATION Spec
CONSTANTS
  Users = {u1, u2}
  Keys = {k1}
  Products = {coffee}
  Terminals = {t1}
  Nobody = Nobody
  Depletion = Depletion
  NoKey = NoKey
  NoItem = NoItem
  Unpriced = Unpriced
  Prices = {0, 1, 2}
  MenuSize = 1
  MaxBookings = 2
  MaxActs = 2
SYMMETRY UserSymmetry
INVARIANTS
  TypeOK
  DebtIsChecked
  ChargedToDrinker
