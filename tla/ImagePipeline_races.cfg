SPECIFICATION UploadsSpec
CONSTANTS
  Key = {k1, k2}
  Position = {0, 1}
  Slot = {s1, s2}
  MaxImages = 2
  Upload = {u1, u2}
INVARIANT ImagesKeepTheirObject
PROPERTIES S3AbandonedUploadsGo WholeFilesStay
