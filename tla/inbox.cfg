SPECIFICATION Spec
CONSTANTS
  s1 = s1
  s2 = s2
  s3 = s3
  s4 = s4
  photo = photo
  part = part
  note = note
  None = None
  Session = {s1, s2, s3, s4}
  Name = {photo, part, note}
  PartOf <- PartOfPhoto
  Wanted <- PhotosAndNote
  Kept = {photo, part}
  Units = 2
  Copies = 2
INVARIANTS
  TypeOK
  UsersFilesKept
  NoPartLeft
  DoneMeansThere
  AloneIsIntact
