SPECIFICATION Spec
CONSTANTS
  s1 = s1
  s2 = s2
  s3 = s3
  s4 = s4
  photo = photo
  part = part
  note = note
  None = None
  Session = {s1, s2}
  Name = {photo, part}
  PartOf <- PartOfPhoto
  Wanted <- TwoPhotos
  Kept = {}
  Units = 2
  Copies = 2
INVARIANT
  CheckedIsOnDisk
